# TRi, specified

TLA+ specifications, TLC models and TLAPS proofs for TRi, a trading journal (Next.js, Prisma and
PostgreSQL) that imports a trader's MetaTrader 5 accounts through MetaApi. Paths below are
relative to the repository root.

## 1. The system

| Part | State it keeps | Operations | What is hard |
|---|---|---|---|
| **MT5 sync, one account** (`src/lib/mt5/sync.ts`, `src/lib/db/trades.ts`) | the `trades` rows of an account | read a cursor, fetch deals, price and measure them, upsert in chunks | the cursor is derived from what is stored; several syncs overlap; a process dies between chunks; the broker posts and amends late |
| **MT5 sync, all accounts** (`sync.ts`, `db/sync-logs.ts`, `db/snapshots.ts`) | `sync_logs`, the status of each account, daily balances | loop over the accounts, record each, repair rows no sync reaches, close the log line | partial failure, deaths that leave lines open, runs that overlap |
| **MT5 accounts** (`settings/mt5-actions.ts`, `db/mt5-accounts.ts`, `mt5/slots.ts`) | `mt5_accounts`: credential, purpose, status | connect, replace, disconnect | four writes without a transaction, two tabs, a sync in flight |
| **MetaApi provider** (`mt5/metaapi/provider.ts`) | the remote terminal: provisioned, deployed, connected | find, provision, deploy, wait, read, release | metered terminal shared by overlapping syncs; polling with deadlines |
| **Mock provider** (`mt5/mock/`) | a generated book | the same port | none |
| **Risk, symbols, excursions** (`mt5/risk.ts`, `symbols.ts`, `excursion.ts`) | none | arithmetic | "cannot know" against "nothing at risk" |
| **Trades store** (`db/trades.ts`) | `trades` | upsert, delete, journal, repairs, queries | read then write in the repairs |
| **Sign-in, sessions, two-factor** (`app/(auth)/actions.ts`, `auth/`, `db/sessions.ts`, `db/two-factor.ts`) | sessions, the challenge and its attempts, the factor and its recovery codes | sign in, answer, visit, sign out, set up, regenerate, disable, sweep | concurrent answers, read-then-write of the recovery codes, rolling and absolute expiry |
| **Password change and reset** (`settings/password-actions.ts`, `db/reset-tokens.ts`) | hash, reset links | change, request, find, redeem, end the other sessions | one-time use under concurrency, two writes |
| **Rate limiting** (`db/rate-limit.ts`) | a counter and a window per bucket | consume, prune | concurrent increments, window edges, the sweep |
| **Quotes** (`quotes/refresh.ts`, `db/quotes.ts`, `instrumentation-node.ts`) | cached quotes, the daily budget | a tick of the timer: find what is due, reserve, ask, write, mark | ticks that overlap and die, a budget at its limit, a vendor that does not answer |
| **Long positions** (`db/long-positions.ts`, `app/(app)/long/`) | `long_positions` | create, price, follow the feed, close, correct, delete | a form drawn earlier, a close computed from an earlier read, the feed beside both |
| **Analytics** (`lib/analytics/`) | none | equity curve, drawdown, run-up, time under water | which two dates a figure is between; ties, an undated opening balance |
| **Household ledger** (`lib/finance/`, `db/finance.ts`, `app/(app)/finance/`) | `finance_entries`, a series being one row | create, correct, end a series, delete; month, range, year and cumulative figures | two ways of counting one series, months of different lengths, tabs drawn earlier |
| **Maintenance timers** (`instrumentation-node.ts`) | none | the refresh of quotes; hourly sweeps and repairs | partial failure, ticks that overlap |
| Exchange rates, tenants, administration, manual trades, budgets, goals, learning, import, audit, data protection, configuration, screens | their own rows | single-row writes, pure functions, I/O | little; section 5 says why each is left out |

How they interact. A press of refresh (`refreshSyncAction`), the automatic sync after a login
(`sync-pill.tsx`) and the end of `connectMt5Action` all call `syncMt5`, so several invocations of
it may be in flight for one trader, and nothing serialises them: the only shared state is the
database, and every `await` is a point where another invocation, a settings action or the
trader's own edits may come in between. `syncMt5` calls `syncOneAccount` per account, which talks
to the provider and writes through `db/trades.ts`; the settings actions write the same
`mt5_accounts`, `trades` and `account_snapshots` rows.

The rest of the program hangs together in the same way, over rows and nothing else. Every page and
every action begins with `getSession`, which reads a session and sometimes rewrites its expiry,
while the hourly sweep deletes expired ones and a change of password or factor ends others. The
quote timer writes `quotes` and, through them, the positions that the trader is writing from
several tabs; it takes its budget from the limiter that the sign-in forms use, so both share the
sweep of its rows. A browser tab is an actor with a memory of its own: a form carries back what it
was drawn with, however long ago.

What makes each modelled part correct:

* *one account*: the journal is complete (nothing the broker reported is missing unless the
  trader deleted it), a row describes its position, nothing a trader wrote or an earlier sync
  worked out is lost, repeating an import never undoes one;
* *all accounts*: the log says what happened, lines do not stay open, rows stranded without an
  account are priced even when no broker answers;
* *accounts*: at most two connections, each drawn in one slot, a replace takes only the account
  it names, and disconnecting is durable;
* *sign-in*: what is good for one use (a challenge, a recovery code, a reset link) is used once
  whoever races for it, a session in use is not ended by its expiry, and a change of credentials
  ends every session that is older;
* *limiter and quotes*: no credit is spent twice, no listing is asked about more often than the
  floor allows, none that the slice can reach waits for ever, and a position on the feed, in the
  currency its listing is quoted in, gets its price in the end;
* *long positions*: the stamp beside a price is of the last time somebody vouched for it, a stored
  result is that of the figures beside it, and a banked gain is not touched by anyone late;
* *analytics*: a one-pass figure is what a search over all pairs of points would find, and the
  dates shown with it are those of such a pair;
* *ledger*: the figures counted and the figures expanded agree, windows add up, and the months of a
  series change only where the trader ended it.

`PROJECT.json` lists under "hazards" where each of these can go wrong.

## 2. Modules

```
DealFold  <-- TradeSync      <-- MCTradeSync, TradeSync_proofs
SyncRuns  (implements RunLog) <-- MCSyncRuns
          <-- Mt5Accounts    <-- MCMt5Accounts, Mt5Accounts_proofs
Terminal                     <-- MCTerminal, Terminal_proofs
RateLimit <-- Quotes         <-- MCQuotes,   Quotes_proofs
SignIn                       <-- MCSignIn,   SignIn_proofs
Holdings                     <-- MCHoldings, Holdings_proofs
Equity                       <-- MCEquity,   Equity_proofs
Ledger                       <-- MCLedger,   Ledger_proofs
```

**DealFold** is `aggregateDeals`, the pure part: a set of deals of one ticket and the row they
fold into. Prices, volumes and money are abstracted to *which deals* they are computed from:
`sized` is the set of deals the volume and the entry price come from, `booked` the deals whose
money is in the profit (with the swap if it had been booked by then). Two folds have the same
figures exactly when they add up the same deals.

**TradeSync** is the journal of one account. State: `now` (the broker's clock), `deals` (what the
broker has executed, per ticket), `book` (the stored rows: figures, what the R multiple and the
excursion were computed from, whether the trader wrote anything), `deleted` (history of the
trader's deletions), `run` (the local state of every sync in flight). Each `await` of
`syncOneAccount` is an action: `Start`, `ReadCursor` (`newestCloseAt` less the overlap, or nothing
for a backfill), `FetchDeals`, `Measure` (`toTradeRecords`, where any specification, rate or candle may be
unavailable, and the excursion budget applies), `WriteChunk` (one transaction of `upsertTrades`),
`NothingToWrite`, `Abort` (an error or a death). The broker executes (`Execute`), posts late
(`Post`) and books swaps late (`BookSwap`); the trader annotates and deletes rows. `Provider`
selects between the two readings of `since` in the code: "metaapi" restricts the *deals* to the
window and folds the rest; "mock" answers what the port asks for, whole positions that closed in
the window. The mock's own book is generated and never changes; the instance lets it answer for
the model's broker, so as to check the sync against the port's contract.

**SyncRuns** is `syncMt5` over all the accounts; what happens inside one account is one step that
succeeds or fails, after writing trades or not. State: the account rows (`acct`, `created`), whose trades are stored
(`book`), whether rows without an account still wait for a risk (`orphans`), whose balances are
in the daily points (`snapshots`), the log lines and the runs. One action per awaited write:
`ReadAccounts`, `FailStale`, `OpenLog`, `Import`, `RecordSuccess`, `RecordSnapshot`,
`RecordFailure`, `Repair`, `FinishLog`; `Crash` kills a run; `Tick` is the wall clock.

**RunLog** is what the log promises and nothing else: lines open as running, close once with a
final verdict, and do not stay open for ever. `SyncRuns` implements it under the mapping
`status <- [l \in Logs |-> log[l].status]`.

**Mt5Accounts** extends SyncRuns with the two server actions of the settings screen, one action
per await: `Connect` (reads the slot; `verify` has succeeded, and a replace is confirmed),
`Retire` (`disconnectMt5Account`), `Count` and `Upsert` (the two halves of `connectMt5Account`),
`DeleteTrades`, `ClearSnapshots`, `Backfill`, and `Disconnect`. `CrashTab` stops an action between
any two. The syncs of SyncRuns go on beside them.

**Terminal** is what TradeSync leaves out of the provider: the metered remote terminal behind one
account's credentials. State: `terminal` (what MetaApi says of each registration), `memo` (whose
provisioning the `resolved` map of `resolveAccountId` remembers), `call` (the syncs and
verifications of one server process) and `leg` (the provider methods each call has started, each
of them suspended at one await). A sync starts two legs at once, then one for symbol
specifications if its deals name any, then `release`; `verify` starts one. Actions: `Find`,
`Create`, `Detecting`, `LostAnswer` (`findAccount` and `createAccount`), `Ready`, `NotReady`,
`Deploy` (`waitUntilReady`), `Await` (a leg woken by the provisioning it shares), `Read`
(`readWhileWakingUp`), `Undeploy` (`release`), `Fails` (any request, with an answer that is not
retried), and of the callers `Begin`, `GotAll`, `GotError`, `Priced`, `Released`. When one leg of a
`Promise.all` fails, the call goes on and the other leg does too. A deadline is a number of polls
left; the legs progress at arbitrary relative speeds, and so do their clocks. Nobody hands the
provider an account id (`recordSyncSuccess` could store one and is never given one), so every leg
resolves through the memo. A sync that fails before it starts a leg (decrypting the credential, reading the
cursor) is left out. Calls, and registrations, are taken in a fixed order, being
interchangeable.

**RateLimit** is the fixed-window bucket of `db/rate-limit.ts`: one upsert consumes, so every
consumer is a single step whatever runs beside it, and the hourly sweep deletes expired rows.

**Quotes** is the refresh of market prices over that bucket. State: `quote` (of each listing, how
long ago it was asked for and whether its price is of the last close, which is all `needsRefresh`
looks at), `feed` (the open positions that are priced from it, by listing and currency), `bucket` and `tick` (the ticks
under way, of one instance of the app or several). `Timer` and `Start` begin a tick (look for what is due and
take the first `Chunk`), `Reserve` consumes one credit, `Fetch` asks the vendor, which may answer late,
with an old price or about some listings only, then `WriteQuote` and `Mark`, or `Touch`, per
listing; `Die` ends a process anywhere; `Sweep`, `Close` (of a market) and `Move` (of a position
on or off the feed) come from outside. A listing is `tracked` whatever currency its positions are
kept in; `Mark` reaches those in the currency the vendor quotes it in (`QuotedIn`) and no other. Time is
relative, so that a behaviour can go on for ever. The history variables `paid`, `sent` and `ago` say
which credits and requests there have been, `behind` which positions no mark has reached since the
quote of their listing was written.

**SignIn** is one trader's sessions, second factor and reset links. State: `session`, `totp` (set up, confirmed,
the recovery codes left), `challenge`, `link`, and `req`, the server actions in flight, each
suspended between two of its statements. `SignIn`, `Ask`, `Open`, `StartSession` are `signInAction`
and `completeSignIn`; `Answer`, `Judge`, `ReadCodes`, `Consume`, `Drop`, `Fail`, `Exhaust` are
`verifyTwoFactorAction` down to the conditional update that spends a code; `Visit` and `Touch` are
`getSession`; `SignOut`, `ChangePassword`, `Begin`, `Confirm`, `Enable`, `Regenerate`, `Replace`,
`Disable`, `EndOthers` are the settings actions; `RequestLink`, `FindLink`, `Redeem` the reset;
`PruneSessions` and `PruneChallenges` the sweeps; `Tick` and `Expire` the clock; `Crash` a request
that dies. A transaction is one step. The password is always right and the limiters let through:
a request that either refuses leaves nothing here. What the phone shows is a kind of answer that
verifies; the guard against replaying a TOTP step is abstracted with it. History variables say
which recovery codes were accepted (`spent`), which more than once (`again`), and which were being
spent while a different one was (`crossed`).

**Holdings** is one row of `long_positions` and everybody who writes it: `Create`,
`UpdateCurrentPrice`, `SetPriceSource`, `TrackAllOpenPositions`, `ApplyQuote` (the feed, at any
moment), `Delete`; `ReadToClose` and `CloseLongPosition`, the two halves of the close button; and
of the form, `DrawForm`, `Compare` (the read of `updatePositionAction`, which decides whether the
price was edited), `Save` and `Cancel`. The figures of a holding (quantity, buy price, fees) are one
opaque value, and a result stands for the figures and the sell price it was worked out from: two
results are equal in the model exactly when they are of the same figures and the same sale. History
variables say what the trader last meant.

**Equity** lets the one-pass functions of `analytics/` run in step: `curve` grows by a trade, and
`dd`, `ru` and `uw` are the local variables of `maxDrawdown`, `maxRunUp` and `underwater` after it.
So each state is a book together with what the functions return for it.

**Ledger** is `finance_entries` with the tabs that show them. A month is its index and a date a day
of a month; the calendar is a parameter. `OccurrencesInMonth`, `MonthBalance`, `RangeBalance`,
`YearBalance`, `CumulativeCash` and `AllTimeFrom` are the functions of the same names
(`AllTimeFrom` is `allTimeBounds`); `Create`, `Correct`, `EndRecurringSeries` and `Delete` the
actions; `Draw` is a tab that draws an occurrence with the button that ends its series there, and
goes on showing it whatever the other tab does. A correction's values are the trader's, so what an
old form would carry back is among them.

The proofs about a module are in `<module>_proofs`; those about SyncRuns, which Mt5Accounts extends,
are the first part of `Mt5Accounts_proofs`.

Operators whose names end in a phrase after an underscore (`Fold_BooksLastExit`,
`Retire_ThenDeletes`, ...) are plausible mistakes in the definition they are named after. No
specification uses them; each shows that a property would notice.

## 3. What is model-checked

| Run | Asks | Instance |
|---|---|---|
| `metaapi` | `NoHoles`, `CursorSound`, `BackfillRepairs` | 2 tickets, 2 overlapping syncs, chunks of 1, a broker up to 1 tick late, overlap 1, clock 0..2, 2 deals a ticket |
| `mock` | `RowsDescribeTheirPosition`, `NoRWithoutRisk`, `KeepsAnswers`, `NeverUncounts` | 1 ticket, short, of up to 3 deals, 2 stops (one risk-free), late swaps, 1 sync, an annotating trader; 2 350 000 states |
| `window` | finds `RowsDescribeTheirPosition` violated with MetaApi | 2 tickets, clock 0..3, overlap 1 |
| `runs` | `KeepsRunLog` (refinement, with liveness), `RepairNeedsNoBroker` (liveness), types | 1 account, 2 overlapping runs, 3 lines, stale after 1 tick, 1 death |
| `one_tab` | `EveryConnectionDrawn`, `OnlyRetiredBooksGo`, `ReplacingKeepsBalances`, `LogTellsTheTruth` | 3 accounts for 2 slots, 3 submissions or refreshes, 1 sync beside them, 1 death of either |
| `in_flight` | finds `OnlyConnectionsAreSynced` violated | the same, without deaths |
| `terminal` | `FailureIsForgotten`, `AwaitedIsCarriedOn`, `RegistersOnce`, `GoodSyncHandsBack`, `ReadsWhatIsUp` (an action property), `EveryCallEnds` (liveness) | 2 calls, overlapping or in turn, 2 registrations, 1 poll before a deadline, 1 failed request or terminal going down |
| `quotes` | `CreditsSpentOnce`, `FloorHolds`, `NoneWaitsForEver` and `MarkedInTheEnd` (liveness) | 2 listings of one market, one of them with a position in a second currency, and a third that may come on the feed out of reach; 2 ticks, chunks of 1, 3 credits in a window of 2 minutes, floor 2, 1 death or 1 move of a position; 223 000 states |
| `signin` | `RollingWindow`, `CodeSpentOnce`, `OnlyTheLastIssue`, `ChallengePassedOnce`, `LinkWorksOnce`, `OldSessionsEnd` | 2 requests, 2 sessions, 2 codes a set, 2 attempts, idle window 3 rewritten after 1, cap 4, 2 actions |
| `holdings` | `StampTellsTheAge`, `ResultFollowsTheFigures`, `GainsStayBanked` | 2 tabs and the feed, 2 prices, 2 sets of figures with a buy price each, clock 0..1; 746 000 states |
| `equity` | `SwingsAreTheWidest`, `UnderwaterIsTheLongest` | books of up to 6 trades that earn -1, 0 or 2, gaps shorter and longer than a day of 2, opening balance 1; 56 000 states |
| `ledger` | `CashIsWhatTheMonthsSay`, `RangesAddUp`, `SeriesKeepsItsMonths`, types | 2 rows, 2 tabs, years of 2 months, months of 3, 1, 2 and 1 days; 47 000 states |

Why the bounds are enough. Each hazard of the sync needs two positions (one to be overtaken, one
to overtake it), two syncs and a chunk smaller than the import; time enters only through
comparisons of a cursor with close times, for which before, inside and after the window is enough
(overlap 1 on a clock of 3 instants). A third deal is the first that makes a partial close or a
scale-in followed by an exit; the position is short, since that is the direction that neither a
default nor the fold of the wrong deals gives by accident. Three accounts are the first to exceed two slots, and three
submissions the fewest that fill both and then replace. `runs` needs two runs for one to find the
other's line, and one death to leave a line open. In `terminal`, two calls are the fewest of which
one finds what another left behind, or shares its provisioning (three legs can then meet at one
memo); a second registration is the first too many, one poll tells "not yet" from "too late", and
one trouble lets each request fail in turn, and a terminal go down under its readers; what takes
two at once is left to the proofs, but for the liveness. In `quotes`, two listings and chunks of one put one listing behind the other; two ticks
that may die meet at every pair of statements; a window of three credits runs out within one
behaviour, and floor and window are both longer than a tick. Two listings are as many as chunks of one
reach within that floor, and as three credits pay for if two ticks hold each: a third is the first out of reach, and of
it nothing is claimed. A behaviour of `MCSpec` has a death or a move of a position, not both, and after it
no tick begins beside another; those under way go on. In `signin` two requests are the fewest
that race, two codes tell "the same code twice" from "two at once", and the cap exceeds the idle
window by one so that either ends a session first. Two actions are all that fit; page views do not
count among them, and what needs a third (three sets of codes, say) is left to the proofs, which
hold for any number. In `holdings` the second tab is the first that can overtake a form, two prices
are the fewest that differ, and a clock of two instants tells an old stamp from a new one. Six
points are the fewest with two complete spells and an unfinished one. In `ledger` a month of three
days clamps to two and to one, two months a year begin a second year, and the second tab is the
first that can be stale; amounts need not differ, since a mistake in one row shows in the states
that have no other.

The runs of MCMt5Accounts stop when the
submissions are used up, and those of MCTradeSync at the end of the clock, with the trader's
deletions exhausted, and those of MCTerminal when every call has been made, so deadlock is not
checked there, nor in those of MCSignIn, MCHoldings and MCEquity, which stop with the calls, the
clock and the book; the program does not stop.

`Tickets` and `Runs` (in TradeSync), `Accounts` and `Tabs` (in Mt5Accounts) are symmetric: no
definition chooses among them but by creation or close time. So are the requests, sessions and
codes of SignIn, the tabs of Holdings, and the rows and tabs of Ledger. Symmetry is used in no run with a
liveness property.

**Fairness.** `FairSpec` of SyncRuns, used by `runs`: weak fairness of each run's next
step: a process that has not died goes on, since every wait in it has a timeout; of `Tick`; and of
*someone* starting a sync: a line left open is closed only by the next sync (`failStaleSyncLogs`
runs nowhere else), so the code's promise is to traders who come back. Nothing is assumed of
brokers: an import may fail every time. `Spec` of Terminal: weak fairness of *some* call's next
step, that is, the event loop runs while there is anything to run; it need not be fair to any one
leg. Every request answers or fails, since `send` gives it a timeout; nothing else is assumed of
MetaApi, which need never bring a terminal up. `Spec` of Quotes: weak fairness of each tick's next
step (the request has a timeout, and a tick that dies is not under way); of each market, which goes on
closing; and strong fairness of the timer, `setInterval`, which fires whenever a tick may
begin again and again, though a tick that overruns keeps it from firing in between.
`MarkedInTheEnd` assumes in its own premise that the vendor, asked for ever, at some time answers
about the listing; `NoneWaitsForEver` assumes nothing of it.

**Assumptions of the model.** A deal is posted, and a swap booked, within the overlap of two days
(`OverlapAssumption`, `SwapAssumption`; it is what the comment on `OVERLAP_MS` takes for granted). A run that
has not finished within the ten minutes of `failStaleSyncLogs` has died (the second conjunct of
`Tick` in SyncRuns): nothing in the code enforces it, and without it a slow run would
overwrite the "Interrupted" verdict of its own line.

### Disagreements found

The violation runs show where the code does not do what a comment beside it says:

1. `window`: MetaApi's `fetchDeals` passes the cursor on as a bound on deal times. A position
   opened before the window and closed in it is folded from its exit deal alone, so the row
   opens at its own close and points the other way. `BackfillRepairs` shows that a backfill mends it.
2. `in_flight`: a sync that had read the credentials imports for an account that has been
   disconnected since, after its book was deleted.

### Known limits

The models also show these; the properties are stated so that they except them, each by a named
condition, and no run is spent on them.

*Syncs and accounts*

* Two tabs that both count before either writes connect three accounts (`mt5-accounts.ts:185`),
  though `types.ts:16-19` has the limit enforced in the database because in the markup it is one
  "until the first person opens two tabs". `one_tab` has one tab for that reason.
* A position closed in parts is reported from its first partial exit, and its excursion is that of
  the first part: `sync.ts:371-373` never measures it again, "history does not move", while later
  exits move the close.
* An account whose last sync failed does not count as another owner of the daily balances
  (`mt5-actions.ts:287`), so disconnecting the healthy one with its data deletes them all;
  `ReplacingKeepsBalances` is therefore about replacing.
* `release` (`provider.ts:713`) forgets the memo and provisions afresh, waiting for the terminal to
  come up before it may stop it. When the terminal was too slow for the sync, the second wait may
  run out too, the undeploy is never sent and the terminal stays up. `GoodSyncHandsBack` is about syncs that succeed.

`ReadsWhatIsUp`, `RegistersOnce` and `GoodSyncHandsBack` are stated of calls that do not overlap.
`ReadsWhatIsUp` speaks of steps and excepts the one step in which MetaApi itself stops a terminal
while it is being read: `readWhileWakingUp` then asks in vain until its deadline. With
overlap they fail in this model: the release of one sync stops the terminal another is reading, and two
calls that provision at the same time (after a release has emptied the memo) may both find
no account and register two. No comment in the code claims otherwise, and a disturbed read ends
in an error within its deadline (`EveryCallEnds`).
`verify` on its own never releases: the terminal it starts is left to the sync that follows.

*Quotes*

* Overlapping ticks, of two instances or after a slow answer, may find the same listing due, ask
  about it twice and pay twice; the later write may then be the older quote. `FloorHolds` excepts
  listings that two ticks held at once.
* Each tick takes its slice from the front of the alphabet (`refresh.ts:91`), and a listing the
  vendor had nothing for is due again when the floor of an hour is over. So once `CHUNK` times the
  floor, 8 x 60 listings, go unanswered, the slice never gets past them, and those behind are not asked
  about while that lasts, whatever the budget, although the comment on the back-off
  (`refresh.ts:120-121`) gives keeping such a listing from "a slot on every tick" as its purpose. The
  same goes for as many listings as use up the budget of a window (700 by default, halved when two ticks
  pay for the same ones). `WithinReach` is the condition under which `NoneWaitsForEver` and `MarkedInTheEnd` promise
  something. `NoneWaitsForEver` counts being backed off as not waiting.
* A position kept in another currency than its listing is quoted in is on the feed, keeps its listing
  tracked and is never marked, as `applyQuoteToPositions` means it.
* A window admits twice its limit around its edge, as any fixed window; `CreditsSpentOnce` counts
  by the window in which a credit was reserved.
* A position that goes on the feed is priced at the next tick only if its listing is due; when
  another trader's position has just been priced it waits for the next close
  (`long/actions.ts:80-82` says "on its next tick"). `MarkedInTheEnd` says in the end.

*Sign-in*

* Two requests read the list of recovery codes and spend different ones: the later write stores the
  list it read, less its own code, so the other code is good again and may be accepted a second time
  (`db/two-factor.ts:123`), though the tests say "that a recovery code is spent exactly once"
  (`tests/integration/two-factor.test.ts:26`). `CodeSpentOnce` excepts these codes (`crossed`), and no others.
* Two answers judged before either deletes the challenge may both pass (`shared`).
* A request that dies between the new password (or factor) and the ending of the other sessions
  leaves those; a sign-in whose password was checked before a change may start its session after
  it. `OldSessionsEnd` is about completed changes and sessions started before them.

*Long positions*

* A save infers whether the price was edited by comparing with the stored price, not with the one
  the form was drawn with. If the feed or another tab moved it meanwhile, correcting only the
  quantity writes the old price back, stamps it and drops the position to manual
  (`overtaken`, which `StampTellsTheAge` excepts), although `long-positions.ts:202-204` says "an edit that
  touched only the quantity must not stamp `valueUpdatedAt`". Such a save can also reopen a position
  another tab closed. (The comment at `long-positions.ts:240`, that nothing but a typed price stamps, is
  older than the feed and the form.)
* Two comments contradict a third. `long-positions.ts:307-309` says of the stored result that "if the user edits
  the buy price afterwards, last year's realized gain should not change", and `long/actions.ts:142-143` says
  the like; `updatePositionAction` works the result out again from the edited figures, since "a
  correction to the buy price has to move the realised result with it" (`long/actions.ts:250-251`).
  The code does the latter, so the model does, and `ResultFollowsTheFigures` states it.
* A correction between a close's read and its write leaves a result of the older figures (`torn`).
* Closing through the form leaves the price as it was, while the button writes the sell price.
  `GainsStayBanked` allows the trader's own corrections, which move the gain.
* The sell price is not stored: the form draws it back from the result by a division
  (`long/page.tsx:178-184`) of floats that were read from `Decimal(20,8)` columns. The model keeps
  `sold` apart and does not round, so that a save of an untouched form brings the same sell price back is not
  shown here.

*Analytics and ledger*

* A spell below the opening balance, which has no date, counts while it lasts and is forgotten once
  recovered; `UnderwaterIsTheLongest` counts it the same way.
* A tab drawn before a series was ended still shows the later months, and its button ends the
  series there, which opens the months between again. `SeriesKeepsItsMonths` excepts a month drawn
  that late and nothing else.
* `cumulativeCash` counts the whole of the current month, days to come included, while
  `finance/page.tsx:110-115` calls it money that has moved. The "maximum" window ends today;
  `RangesAddUp` compares the two at the end of a month, where they meet.

## 4. What is proved

For every value of the constants that satisfies the named assumptions, with TLAPS:

*TradeSync* (`TradeSync_proofs`; any tickets, syncs, chunk size, either provider)

* `TypeCorrect`: `Spec => []TypeOK`.
* `JournalComplete`: `Spec => []NoHoles`, and `CursorCovers`: `Spec => []CursorSound`. Neither is
  inductive. The invariant `IInv` adds what a run in flight owes: `CursorInv` (nothing unkept
  closed before the cursor it is about to use, and the cursor is at least an overlap in the past),
  `HoldInv` (whatever its rows may overtake it holds or the journal keeps; what it has written is
  kept), `SeenInv` (what it saw closed it holds or the journal keeps); and of the journal
  `BookInv` (everything that closed an overlap before a stored row is kept) and `DealsInv` (deals
  are posted in time). The heart is `WriteChunkKeeps`: writing oldest-first keeps `BookInv` at
  every chunk, so a death between chunks is harmless; and `NoLateClose`: the broker cannot make a
  position close, after the fact, before a cursor that lies an overlap back.
* `AnswersKept`: `Spec => KeepsAnswers`, and `NoStaleR`: `Spec => []NoRWithoutRisk`, by what one
  step can leave of a row (`RowSteps`).
* `BackfillsRepair`: `Spec => []BackfillRepairs`, for either provider and any number of syncs. Without
  a cursor everything fetched is whole, so what a backfill holds tells its position from the
  opening deal on (`Tells`), and goes on to, since deals only grow (`Grown`) and their order is
  that of the broker (`OrderInv`). `AloneInv` says that nobody writes beside it, and `BackfillInv`
  follows its rows from the fetch through each chunk to the end.
* `RowsAreTrue`: `Provider = "mock"` implies `Spec => []RowsDescribeTheirPosition`. The hypothesis is
  the port's contract, which the mock keeps: answer with whole positions. The `window` run shows that it is
  needed, as MetaApi's reading of the same cursor breaks the property. The invariant is that whatever
  is held or stored tells its position and counts posted deals only (`HeldInv`, `StoredInv`).
* `NothingIsUncounted`: under the same hypothesis and with one sync at a time (`OneSync`),
  `Spec => NeverUncounts`: what a run holds counts all that the row it is about to overwrite does
  (`CoversInv`). Two syncs break this one: the one that read first may write last.

*SyncRuns* (`Mt5Accounts_proofs`, first part; any number of accounts, overlapping runs, lines and deaths)

* `TypeCorrect`: `Spec => []TypeOK`.
* `LogIsTrue`: `Spec => []LogTellsTheTruth`. The invariant says that a run accounts for each of
  its accounts once (`RunInv`), that the line of a live run is open, not stale and nobody else's
  (`LiveInv`), and that an open line says nothing yet (`LineInv`).
* `ImplementsRunLog`: `Spec => Line!Safety`, the safety half of the refinement: `FailStale`,
  `OpenLog` and `FinishLog` map to `Close`, `Open` and `Close`, everything else to a stutter.

*Mt5Accounts* (the rest of `Mt5Accounts_proofs`; any number of accounts, syncs, submissions and deaths)

* For any number of tabs: `TabsTypeCorrect`, `SpecTabs => []TypeOKTabs` (in no run), and `LogStaysTrue`,
  `SpecTabs => []LogTellsTheTruth`. `TabsInv` is the invariant of the syncs, which every action of a tab
  preserves because it takes no row away that a sync has in hand (`AccountStep`), and what each
  action has in hand itself (`TabInv`).
* For one tab (`OneTab`): `ConnectionsAreDrawn`, `SpecTabs => []EveryConnectionDrawn`;
  `BooksOutliveTheirAccounts`, `SpecTabs => OnlyRetiredBooksGo`; and `BalancesOfTheOtherSlotStay`, `SpecTabs =>
  ReplacingKeepsBalances`. They rest on `SlotsInv`: there are two connections at most
  (`TwoConnections`), no two in one slot (`OwnSlots`), and an action half-way has its slot to itself once
  it has retired what was there, and room for one more once it has counted (`SlotInv`). With two
  tabs `SlotsInv` is false, for the reason under "Known limits": both count before either writes.

*Terminal* (`Terminal_proofs`; any number of calls and registrations, any deadline)

* `TypeCorrect`: `Spec => []TypeOK`; `FailuresForgotten`: `Spec => []FailureIsForgotten`; and
  `NobodyIsStranded`: `Spec => []AwaitedIsCarriedOn`. Together they are inductive with three facts:
  a leg says its provisioning is pending exactly while it is one (`ResultsFollow`); a call starts a
  leg only where none was started before, so that nothing the memo refers to is ever started
  over (`LegsInOrder`); and a leg awaits only a leg that has started one (`AwaitsStarted`). The lemmas
  `MovePreserves` and `StartPreserves` say what one leg's step, or one call's start, can disturb.
* While no two calls overlap: `RegisteredOnce`, `Spec => []RegistersOnce`; `GoodSyncsHandBack`, `Spec =>
  []GoodSyncHandsBack`; `ReadsOnlyWhatIsUp`, `Spec => ReadsWhatIsUp`. A second invariant, `RInv`,
  serves the three. A leg works on a registration that exists (`IdsRegistered`); the only leg
  of a call that provisions is the one its phase names (`InTurn`), the other leg of the first phase shares
  what that one finds (`DealsShare`), and a release is on its own (`ReleaseOnItsOwn`); so when
  a call creates a registration there is none yet (`OneRegistration`). A call has its answer only when all it
  started has ended (`AnswersInOrder`), so nothing wakes a terminal after the release (`LeavesStopped`).
  Assumed: `None` is neither a registration nor a leg, and the bounds are natural numbers.

*Quotes* (`Quotes_proofs`; any number of listings and overlapping ticks, any budget, window and floor)

* `TypeCorrect`: `Spec => []TypeOK`, with what each tick has in hand where it is (`TInv`).
* `BudgetHolds`: `Spec => []CreditsSpentOnce`. The invariant bounds every credit reserved or sent in
  this window by the count of the bucket (`CInv`), so the next one is new; the sweep takes only
  rows of windows that are over.
* `FloorKept`: `Spec => []FloorHolds`. `FInv` relates what a tick holds to how long ago each listing was asked for.

*SignIn* (`SignIn_proofs`; any number of requests, sessions, codes and actions, any limits)

* `TypeCorrect`, and one invariant for each property. `WindowRolls`: what a session has left and how long it
  has gone unused make up the idle window, but for the refresh interval (`Rolling`). `OthersEnd`: a
  request that is about to end the others carries a change no later than the last. `LastIssueOnly`: the codes a request is about to store are of one issue, and it
  can store them only if that is the last (`OneIssue`). `CodesSpentOnce`: `Spec => []CodeSpentOnce`, no code
  is accepted twice but one that was being spent beside a different one. The invariant says of every other
  code that, once accepted, it is not stored, and that no request is about to store it (`Alone`); so
  the write that would accept it again finds it gone. `LinksWorkOnce`: a link that
  is not used has set no password. `PassedOnce`: a challenge that was passed is gone, and nobody is answering it.

*Holdings* (`Holdings_proofs`; any number of tabs, any prices and figures)

* `TypeCorrect`; `StampIsHonest`: `Spec => []StampTellsTheAge`, where a save knows whether its price
  is another than the one it compared with (`ComparedInv`); `ResultsFollow`: `Spec =>
  []ResultFollowsTheFigures`, which relates the stored result to the figures and the sale it is of and says
  nothing of the arithmetic between them; `GainsBanked`: `Spec => GainsStayBanked`.

*Equity* (`Equity_proofs`; any profits, gaps, opening balance and length of day)

* `TypeCorrect`; `SwingsHold`: `Spec => []SwingsAreTheWidest`, from the pass having the highest peak and the lowest trough
  so far (`SwingsInv`); `UnderwaterHolds`: `Spec => []UnderwaterIsTheLongest`, where the heart is that the account
  is below one dated high at most (`OneHighToReturnTo`), so a new point can end one spell only.

*Ledger* (`Ledger_proofs`; any number of rows and tabs, any amounts and calendar)

* `TypeCorrect`: `Spec => []TypeOK`; `SeriesStay`: `Spec => SeriesKeepsItsMonths`, from what one step can make
  of a row (`RowSteps`) and which months a row falls in (`FallsInMonths`).
* `CountIsOfMonths`: `TimesThrough(row, through)` is the number of months up to `through` in which the
  row falls, for every row and calendar.
* `CashAddsUp`: `Spec => []CashIsWhatTheMonthsSay`. A row is counted once more a month later if it
  falls in that month (`OnceMore`), so the cash grows by the balance of the month
  (`CashGrowsByTheMonth`), which is a sum over occurrences made one over rows (`MonthOfShares`).
* `WindowsHold`: `Spec => []RangesAddUp`. A window is the set of what occurs within it
  (`WindowIsRange`); its first day splits off (`WindowsAddUp`); nothing occurs before "maximum"
  begins (`MaximumShowsAll`).
* The sums are folds of the community modules, defined by recursion over an arbitrary choice of
  elements. `SumExists` shows that a function obeying the recursion exists, `AddsAgree` that it
  does not depend on the set it is defined over, `SumOfOne` that the order of the choices does
  not matter; sums of sums, of unions, of parts and under other names follow. Each induction is over
  a set of good values given as a parameter (`NatStrongInduction`, `SubsetInduction`,
  `FiniteInduction`), by way of a least element that is not good.

Assumed throughout are the named assumptions of each module: limits are positive numbers, amounts
are naturals, the refresh interval is within the idle window, the purposes are "swing" and "day", `None` is none of the values.
`OneTab`, `OneSync` and `Provider = "mock"` are hypotheses of the theorems named above and of no other.

Only model-checked is liveness, which the prover does not reach: the fairness part of
`KeepsRunLog`, `RepairNeedsNoBroker`, `EveryCallEnds`, `NoneWaitsForEver` and `MarkedInTheEnd`.
Every safety property of a passing run is a theorem; `RowsDescribeTheirPosition`, `NeverUncounts` and the
three properties of the slots under the hypotheses just named, which those runs satisfy too.

`TypeOK` of TradeSync, Terminal, Quotes, SignIn, Holdings and Equity is proved and in no run.

## 5. What is not modelled, and the plan

Prices and money of the syncs are abstracted, so `computeRisk`, `computeRr`, `computeExcursion` and the symbol
table are represented by *whether* they answer and *from which* deals. A stop leaves
something at risk or nothing; the third class of `risk.ts:192-193`, within a basis point of the entry and
decided only once the specification is known, is left out. Counts in the log, the page
boundaries of MetaApi's lists, queries, wording and rendering are left out. So are the percentages,
streaks, periods, costs and dimensions of the analytics, the journal columns of a holding, and the
categories, owners and currencies of the ledger. Left out as components:

* *Administration and provisioning*: one transaction per operation, under unique constraints; its
  sign-in is that of the trader with a table of its own. *Data protection*: one transaction.
* *Exchange rates*: idempotent upserts keyed by the day; no order of two of them matters.
* *Budgets, goals, learning, consents, day notes, preferences*: writes of one row each. The upsert
  of a budget is two statements in a household of one, under an index that makes the loser fail.
* *Manual trades*: a find and a write, closed by a unique index; nothing a sync touches.
* *Statement import*: text parsing. *Audit*: best-effort records that nothing reads to decide.
* *Tenants, routing, configuration, mail, screens*: pure functions of a request, I/O, rendering. `monthsWithActivity` (`recurring.ts:91`) is called by tests alone.

What comes next:

1. Two accounts in TradeSync, for `ticketsWithExcursions`, which matches tickets over all the
   accounts of a trader; the repair of missing risks beside a sync.
2. The periods and streaks of the analytics, and the arithmetic of `computeRisk` and
   `computeExcursion`, as operators checked against reference definitions.

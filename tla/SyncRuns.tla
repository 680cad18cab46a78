------------------------------ MODULE SyncRuns ------------------------------
(***************************************************************************)
(* One press of refresh over all the accounts a trader has connected:      *)
(* syncMt5 of mt5/sync.ts, with what it writes through db/mt5-accounts.ts, *)
(* db/sync-logs.ts and db/snapshots.ts.  TradeSync models what happens     *)
(* inside one account; here an account's import succeeds or fails as one   *)
(* step, and the subject is what the run records about it.                 *)
(*                                                                         *)
(* Runs overlap (two tabs, a login and a press) and a process may die      *)
(* between any two of its steps.                                           *)
(***************************************************************************)
EXTENDS Integers, FiniteSets

CONSTANTS Accounts,     \* broker accounts (login and server)
          Runs,         \* invocations of syncMt5 that may be in flight at once
          Logs,         \* places for log lines
          Purposes,     \* what an account may be for, besides nothing in particular
          CurrencyOf,   \* [Accounts -> the currency the broker reports]
          None,         \* an absent value (null in the code)
          StaleAfter,   \* failStaleSyncLogs' ten minutes, in ticks of the clock
          MaxCrashes    \* bound on the processes that die

ASSUME AccountAssumption == IsFiniteSet(Accounts)
ASSUME NoneAssumption    == None \notin Accounts \union Logs
ASSUME PurposeAssumption == Purposes \subseteq {"swing", "day"} /\ None \notin {"swing", "day"}
ASSUME StaleAssumption   == StaleAfter \in Nat
ASSUME CrashAssumption   == MaxCrashes \in Nat
\* A place is always free for a new line: each run and each crash leaves at most one open.
ASSUME RoomAssumption    == /\ IsFiniteSet(Logs) /\ IsFiniteSet(Runs)
                            /\ Cardinality(Logs) >= Cardinality(Runs) + MaxCrashes

VARIABLES acct,       \* mt5_accounts: [Accounts -> row, or None before the first connect]
          created,    \* the accounts that have a row, by createdAt
          book,       \* the accounts that have synced trades stored
          orphans,    \* whether trades without an account have a stop but still no risk
          snapshots,  \* whose balances have gone into the daily points since they were last cleared
          log,        \* sync_logs
          run,        \* the state of each invocation
          crashes     \* how many processes have died

accountVars == <<acct, created>>
vars == <<acct, created, book, orphans, snapshots, log, run, crashes>>

Currencies == {CurrencyOf[a] : a \in Accounts}

\* A row.  cred: the ciphertext is not empty, which is what makes a row a connection (IS_CONNECTION).
AccountRow == [cred : BOOLEAN, status : {"connected", "error", "disconnected"},
               purpose : Purposes \union {None}, currency : Currencies \union {None}]

ASSUME RowAssumption == None \notin AccountRow

(***************************************************************************)
(* A log line.  error: an error string is stored; age: ticks since         *)
(* startedAt.  imported is history: how many of the accounts it read the   *)
(* run that finished the line has imported.                                *)
(***************************************************************************)
LogLine == [status : {"none", "running", "success", "error"}, error : BOOLEAN,
            age : 0..(StaleAfter + 1), imported : {"none", "some", "all"}]

NoLine == [status |-> "none", error |-> FALSE, age |-> 0, imported |-> "none"]

PCs == {"idle", "stale", "open", "account", "success", "snapshot", "failure", "repair", "finish"}

Run == [pc : PCs, accounts : SUBSET Accounts, todo : SUBSET Accounts, failed : SUBSET Accounts,
        known : SUBSET Accounts, got : SUBSET Accounts, log : Logs \union {None}]

IdleRun == [pc |-> "idle", accounts |-> {}, todo |-> {}, failed |-> {},
            known |-> {}, got |-> {}, log |-> None]

IsConnection(a) == acct[a] # None /\ acct[a].cred
Connections     == {a \in Accounts : IsConnection(a)}

\* The first of S by createdAt; S holds accounts that have a row.
Place(a)  == CHOOSE i \in DOMAIN created : created[i] = a
Oldest(S) == CHOOSE a \in S : \A b \in S : Place(a) <= Place(b)

Connected(currency) == [cred |-> TRUE, status |-> "connected", purpose |-> None,
                        currency |-> currency]

\* A trader some of whose accounts are connected, whatever earlier syncs have stored.
Init == /\ created \in {s \in UNION {[1..n -> Accounts] : n \in 1..Cardinality(Accounts)} :
                          \A i, j \in DOMAIN s : s[i] = s[j] => i = j}
        /\ acct \in [Accounts -> {None} \union {Connected(c) : c \in Currencies \union {None}}]
        /\ \A a \in Accounts :
              /\ (acct[a] # None) <=> \E i \in DOMAIN created : created[i] = a
              /\ acct[a] # None => acct[a].currency \in {CurrencyOf[a], None}
        /\ book = {} /\ snapshots = {}
        /\ orphans \in BOOLEAN
        /\ log = [l \in Logs |-> NoLine]
        /\ run = [r \in Runs |-> IdleRun]
        /\ crashes = 0

-----------------------------------------------------------------------------
\* Mutant: currencyByAccount with its key and its value swapped.
ReadAccounts_KeysByCurrency(r) ==
  /\ run[r].pc = "idle"
  /\ Connections # {}
  /\ run' = [run EXCEPT ![r] = [IdleRun EXCEPT !.pc = "stale",
               !.accounts = Connections, !.todo = Connections,
               !.known = {acct[a].currency : a \in Connections} \ {None}]]
  /\ UNCHANGED <<acct, created, book, orphans, snapshots, log, crashes>>

\* readCredentialCiphertexts; with no connection the sync is skipped and leaves no trace.
ReadAccounts(r) ==
  /\ run[r].pc = "idle"
  /\ Connections # {}
  /\ run' = [run EXCEPT ![r] = [IdleRun EXCEPT !.pc = "stale",
               !.accounts = Connections, !.todo = Connections,
               !.known = {a \in Connections : acct[a].currency # None}]]
  /\ UNCHANGED <<acct, created, book, orphans, snapshots, log, crashes>>

IsStale(l) == log[l].status = "running" /\ log[l].age > StaleAfter

\* Mutant: no cutoff, every open line is closed.
FailStale_AnyAge(r) ==
  /\ run[r].pc = "stale"
  /\ log' = [l \in Logs |-> IF log[l].status = "running"
                            THEN [log[l] EXCEPT !.status = "error", !.error = TRUE, !.age = 0]
                            ELSE log[l]]
  /\ run' = [run EXCEPT ![r].pc = "open"]
  /\ UNCHANGED <<acct, created, book, orphans, snapshots, crashes>>

\* failStaleSyncLogs, which closes whatever is old and still open.
FailStale(r) ==
  /\ run[r].pc = "stale"
  /\ log' = [l \in Logs |-> IF IsStale(l)
                            THEN [log[l] EXCEPT !.status = "error", !.error = TRUE, !.age = 0]
                            ELSE log[l]]
  /\ run' = [run EXCEPT ![r].pc = "open"]
  /\ UNCHANGED <<acct, created, book, orphans, snapshots, crashes>>

\* A place for a new line: nothing open there, and no run that will still write to it.
IsFree(l) == log[l].status # "running" /\ \A r \in Runs : run[r].log # l
FreePlace == CHOOSE l \in Logs : IsFree(l)

\* startSyncLog.
OpenLog(r) ==
  /\ run[r].pc = "open"
  /\ \E l \in Logs : IsFree(l)
  /\ log' = [log EXCEPT ![FreePlace] = [NoLine EXCEPT !.status = "running"]]
  /\ run' = [run EXCEPT ![r].pc = "account", ![r].log = FreePlace]
  /\ UNCHANGED <<acct, created, book, orphans, snapshots, crashes>>

(***************************************************************************)
(* syncOneAccount up to and including upsertTrades, for the accounts in    *)
(* the order they were created.  It may fail after part of the trades is   *)
(* written; and the broker may have nothing to report.                     *)
(***************************************************************************)
Import(r, ok, wrote) ==
  /\ run[r].pc = "account"
  /\ book' = IF wrote THEN book \union {Oldest(run[r].todo)} ELSE book
  /\ run' = [run EXCEPT ![r].pc = IF ok THEN "success" ELSE "failure"]
  /\ UNCHANGED <<acct, created, orphans, snapshots, log, crashes>>

\* recordSyncSuccess finds the row by its id alone.
RecordSuccess(r) ==
  LET a == Oldest(run[r].todo)
  IN  /\ run[r].pc = "success"
      /\ acct' = [acct EXCEPT ![a].status = "connected", ![a].currency = CurrencyOf[a]]
      /\ run' = [run EXCEPT ![r].pc = "snapshot"]
      /\ UNCHANGED <<created, book, orphans, snapshots, log, crashes>>

NextPC(rest) == IF rest = {} THEN "repair" ELSE "account"

\* recordSnapshot: one point per trader and day, whichever account wrote it last; a failure is
\* swallowed.
RecordSnapshot(r, stored) ==
  LET a    == Oldest(run[r].todo)
      rest == run[r].todo \ {a}
  IN  /\ run[r].pc = "snapshot"
      /\ snapshots' = IF stored THEN snapshots \union {a} ELSE snapshots
      /\ run' = [run EXCEPT ![r].pc = NextPC(rest), ![r].todo = rest, ![r].got = @ \union {a}]
      /\ UNCHANGED <<acct, created, book, orphans, log, crashes>>

\* The catch of syncMt5's loop: recorded against the account, and on to the next.
RecordFailure(r) ==
  LET a    == Oldest(run[r].todo)
      rest == run[r].todo \ {a}
  IN  /\ run[r].pc = "failure"
      /\ acct' = [acct EXCEPT ![a].status = "error"]
      /\ run' = [run EXCEPT ![r].pc = NextPC(rest), ![r].todo = rest, ![r].failed = @ \union {a}]
      /\ UNCHANGED <<created, book, orphans, snapshots, log, crashes>>

\* currencyByAccount: seeded from the rows read at the start, completed by each success.
PricedIn(r) == {CurrencyOf[a] : a \in run[r].known \union run[r].got}

\* Mutant: only the currencies learnt from a broker in this run.
Repair_NeedsASuccess(r) ==
  /\ run[r].pc = "repair"
  /\ orphans' = (orphans /\ Cardinality({CurrencyOf[a] : a \in run[r].got}) # 1)
  /\ run' = [run EXCEPT ![r].pc = "finish"]
  /\ UNCHANGED <<acct, created, book, snapshots, log, crashes>>

\* repairMissingRisk prices a row without an account when all the accounts agree on a currency.
Repair(r) ==
  /\ run[r].pc = "repair"
  /\ orphans' = (orphans /\ Cardinality(PricedIn(r)) # 1)
  /\ run' = [run EXCEPT ![r].pc = "finish"]
  /\ UNCHANGED <<acct, created, book, snapshots, log, crashes>>

HowMany(got, accounts) == IF got = {} THEN "none" ELSE IF got = accounts THEN "all" ELSE "some"

\* Mutant: no error string on a partial success.
FinishLog_HidesTheSilent(r) ==
  LET l      == run[r].log
      failed == run[r].failed
  IN  /\ run[r].pc = "finish"
      /\ log' = [log EXCEPT ![l].status = IF failed = run[r].accounts THEN "error" ELSE "success",
                            ![l].error = @ \/ failed = run[r].accounts, ![l].age = 0,
                            ![l].imported = HowMany(run[r].got, run[r].accounts)]
      /\ run' = [run EXCEPT ![r] = IdleRun]
      /\ UNCHANGED <<acct, created, book, orphans, snapshots, crashes>>

\* finishSyncLog, whatever the line says by now; an error string already there stays.
FinishLog(r) ==
  LET l      == run[r].log
      failed == run[r].failed
  IN  /\ run[r].pc = "finish"
      /\ log' = [log EXCEPT ![l].status = IF failed = run[r].accounts THEN "error" ELSE "success",
                            ![l].error = @ \/ failed # {}, ![l].age = 0,
                            ![l].imported = HowMany(run[r].got, run[r].accounts)]
      /\ run' = [run EXCEPT ![r] = IdleRun]
      /\ UNCHANGED <<acct, created, book, orphans, snapshots, crashes>>

\* The process dies, or the database refuses a write; whatever was written stays.
Crash(r) ==
  /\ run[r].pc # "idle" /\ crashes < MaxCrashes
  /\ crashes' = crashes + 1
  /\ run' = [run EXCEPT ![r] = IdleRun]
  /\ UNCHANGED <<acct, created, book, orphans, snapshots, log>>

(***************************************************************************)
(* Time passes.  What the code takes for granted is the second conjunct: a *)
(* run that has not finished within StaleAfter never will.                 *)
(***************************************************************************)
Tick ==
  /\ \E l \in Logs : log[l].status = "running" /\ log[l].age <= StaleAfter
  /\ \A r \in Runs : run[r].log # None => log[run[r].log].age < StaleAfter
  /\ log' = [l \in Logs |-> IF log[l].status = "running" /\ ~IsStale(l)
                            THEN [log[l] EXCEPT !.age = @ + 1] ELSE log[l]]
  /\ UNCHANGED <<acct, created, book, orphans, snapshots, run, crashes>>

Step(r) == \/ FailStale(r)
           \/ OpenLog(r)
           \/ \E ok, wrote \in BOOLEAN : Import(r, ok, wrote)
           \/ RecordSuccess(r)
           \/ \E stored \in BOOLEAN : RecordSnapshot(r, stored)
           \/ RecordFailure(r)
           \/ Repair(r)
           \/ FinishLog(r)

\* Everything but the press of the button.
Goes == \/ \E r \in Runs : Step(r) \/ Crash(r)
        \/ Tick

Next == Goes \/ \E r \in Runs : ReadAccounts(r)

Spec == Init /\ [][Next]_vars

(***************************************************************************)
(* A process that does not die goes on; time passes; and the trader comes  *)
(* back: someone presses refresh again, or signs in with automatic syncs   *)
(* on.  Without the last nothing would ever look at a line left open.      *)
(***************************************************************************)
Fairness == /\ \A r \in Runs : WF_vars(Step(r))
            /\ WF_vars(\E r \in Runs : ReadAccounts(r))
            /\ WF_vars(Tick)

FairSpec == Spec /\ Fairness

-----------------------------------------------------------------------------
(* Properties. *)

\* The type invariant: the account rows, the log lines and the runs have their types.
TypeOK == /\ acct \in [Accounts -> AccountRow \union {None}]
          /\ \A i \in DOMAIN created : created[i] \in Accounts
          /\ book \subseteq Accounts /\ snapshots \subseteq Accounts /\ orphans \in BOOLEAN
          /\ log \in [Logs -> LogLine]
          /\ run \in [Runs -> Run]
          /\ crashes \in 0..MaxCrashes

(***************************************************************************)
(* The log tells the truth about the run that closed it: a success with no *)
(* error string read every account, one with an error string read some and *)
(* not others, a failure read none.  ("A clean success would hide that a   *)
(* whole account is silent", and a failure "the trades that did arrive".)  *)
(***************************************************************************)
LogTellsTheTruth ==
  \A l \in Logs :
     LET line == log[l]
     IN  /\ line.status = "success" => line.imported = IF line.error THEN "some" ELSE "all"
         /\ line.status = "error" => line.imported = "none"

(***************************************************************************)
(* Pricing the rows no sync can reach does not need a broker: once the     *)
(* only currency there is has been stored against a connected account, the *)
(* rows are priced in the end, though no broker ever answers again.        *)
(***************************************************************************)
RepairNeedsNoBroker == (\E a \in Connections : {acct[a].currency} = Currencies) ~> ~orphans

\* The log lines keep the promise of RunLog, final verdicts and no line open for ever.
Line == INSTANCE RunLog WITH status <- [l \in Logs |-> log[l].status]
KeepsRunLog == Line!Spec

=============================================================================

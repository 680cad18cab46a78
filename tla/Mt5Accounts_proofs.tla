------------------------ MODULE Mt5Accounts_proofs ------------------------
(***************************************************************************)
(* Proofs about SyncRuns and Mt5Accounts, for any number of accounts,      *)
(* overlapping runs, log lines and crashes.                                *)
(*                                                                         *)
(* Of the syncs alone: the types, that the log tells the truth about the   *)
(* runs that close its lines, and that it implements RunLog.  Beside any   *)
(* number of tabs: the types again, and that the log goes on telling the   *)
(* truth while accounts are connected, replaced and disconnected.  Beside  *)
(* one tab at a time: what the settings screen promises of the slots, the  *)
(* trades and the balances.                                                *)
(***************************************************************************)
EXTENDS Mt5Accounts, FiniteSetTheorems, WellFoundedInduction, TLAPS

-----------------------------------------------------------------------------
(* The syncs alone. *)

(***************************************************************************)
(* The inductive invariant.  Every account that has a row has a place in   *)
(* the order of creation, so that Oldest picks one of the accounts it is   *)
(* given.                                                                  *)
(***************************************************************************)
RowsInv == /\ DOMAIN created \subseteq Nat
           /\ \A a \in Accounts : acct[a] # None => \E i \in DOMAIN created : created[i] = a

Looping == {"account", "success", "snapshot", "failure"}
Writing == Looping \union {"repair", "finish"}

\* A run accounts for each of its accounts once: to do, failed or imported.
RunInv(x) == /\ x.log # None <=> x.pc \in Writing
             /\ x.pc \in Looping \union {"stale", "open"} => x.todo # {}
             /\ x.pc \in {"repair", "finish"} => x.todo = {}
             /\ x.pc # "idle" => /\ x.accounts # {}
                                 /\ x.accounts = x.todo \union x.failed \union x.got
             /\ x.todo \intersect (x.failed \union x.got) = {} /\ x.failed \intersect x.got = {}

HasRows(x) == \A a \in x.accounts : acct[a] # None

\* The line of a live run is open and not stale, and no other run's.
LiveInv == /\ \A r \in Runs : run[r].log # None =>
                 log[run[r].log].status = "running" /\ log[run[r].log].age <= StaleAfter
           /\ \A q, r \in Runs : run[q].log # None /\ run[q].log = run[r].log => q = r

\* An open line says nothing yet; a closed one tells the truth.
LineInv(x) == /\ x.status = "running" => ~x.error /\ x.imported = "none"
              /\ x.status = "success" => x.imported = IF x.error THEN "some" ELSE "all"
              /\ x.status = "error" => x.imported = "none"

IInv == /\ TypeOK /\ RowsInv /\ LiveInv
        /\ \A r \in Runs : RunInv(run[r]) /\ HasRows(run[r])
        /\ \A l \in Logs : LineInv(log[l])

-----------------------------------------------------------------------------
(* Lemmas. *)

\* The oldest of some accounts that have rows is one of them.
LEMMA OldestIn ==
  ASSUME RowsInv, NEW S \in SUBSET Accounts, S # {}, \A a \in S : acct[a] # None
  PROVE  Oldest(S) \in S
<1> DEFINE N == {Place(a) : a \in S}
<1>1. \A a \in S : Place(a) \in DOMAIN created
  BY DEF RowsInv, Place
<1>2. N \in SUBSET Nat /\ N # {}
  BY <1>1 DEF RowsInv
<1> DEFINE R == OpToRel(<, Nat)
<1>3. PICK x \in N : \A y \in N : <<y, x>> \notin R
  BY <1>2, NatLessThanWellFounded, WFMin
<1>4. \A i, j \in Nat : <<i, j>> \in R <=> i < j
  BY DEF OpToRel
<1> HIDE DEF R
<1>5. \A y \in N : x \in Nat /\ y \in Nat /\ ~ (y < x)
  BY <1>2, <1>3, <1>4
<1>6. \E a \in S : \A b \in S : Place(a) <= Place(b)
  BY <1>5
<1> QED BY <1>6 DEF Oldest

\* A run in its loop works on an account of its own that has a row.
LEMMA Working ==
  ASSUME IInv, NEW r \in Runs, run[r].pc \in Looping
  PROVE  /\ Oldest(run[r].todo) \in run[r].todo
         /\ Oldest(run[r].todo) \in Accounts
         /\ acct[Oldest(run[r].todo)] \in AccountRow
<1>1. run[r] \in Run /\ RunInv(run[r]) /\ HasRows(run[r])
  BY DEF IInv, TypeOK
<1>2. run[r].todo \in SUBSET Accounts /\ run[r].todo # {} /\ run[r].todo \subseteq run[r].accounts
  BY <1>1 DEF Run, RunInv, Looping
<1>3. Oldest(run[r].todo) \in run[r].todo
  BY <1>1, <1>2, OldestIn DEF IInv, HasRows
<1>4. acct[Oldest(run[r].todo)] \in AccountRow \union {None}
  BY <1>2, <1>3 DEF IInv, TypeOK
<1> QED BY <1>1, <1>2, <1>3, <1>4 DEF HasRows

\* The place chosen for a new line is free, if any is.
LEMMA FreePlaceIsFree ==
  ASSUME \E l \in Logs : IsFree(l)
  PROVE  FreePlace \in Logs /\ IsFree(FreePlace)
BY DEF FreePlace

\* Types of what the actions build.
LEMMA IdleIsRun == IdleRun \in Run /\ RunInv(IdleRun) /\ HasRows(IdleRun)
<1>1. IdleRun \in Run
  BY DEF IdleRun, Run, PCs
<1>2. RunInv(IdleRun)
  BY DEF IdleRun, RunInv, Looping, Writing
<1>3. HasRows(IdleRun)
  BY DEF IdleRun, HasRows
<1> QED BY <1>1, <1>2, <1>3

LEMMA NoLineIsLine == NoLine \in LogLine /\ [NoLine EXCEPT !.status = "running"] \in LogLine
<1>1. 0 \in 0..(StaleAfter + 1)
  BY StaleAssumption
<1> QED BY <1>1 DEF NoLine, LogLine

(***************************************************************************)
(* A step of one run that leaves the log alone, takes no account's row     *)
(* away and lets go of its line at most.                                   *)
(***************************************************************************)
LEMMA RunStep ==
  ASSUME IInv, NEW r \in Runs,
         run' = [run EXCEPT ![r] = run'[r]],
         run'[r] \in Run, RunInv(run'[r]), HasRows(run'[r]), run'[r].log \in {None, run[r].log},
         log' = log, created' = created,
         acct' \in [Accounts -> AccountRow \union {None}],
         \A a \in Accounts : acct[a] # None => acct'[a] # None,
         \A a \in Accounts : acct[a] = None => acct'[a] = None,
         book' \in SUBSET Accounts, snapshots' \in SUBSET Accounts, orphans' \in BOOLEAN,
         crashes' \in 0..MaxCrashes
  PROVE  IInv'
<1>1. run' \in [Runs -> Run] /\ \A q \in Runs \ {r} : run'[q] = run[q]
  BY DEF IInv, TypeOK
<1>2. TypeOK'
  BY <1>1 DEF IInv, TypeOK
<1>3. RowsInv'
  BY DEF IInv, RowsInv
<1>4. LiveInv'
  BY <1>1 DEF IInv, LiveInv
<1>5. \A q \in Runs : RunInv(run'[q])
  BY <1>1 DEF IInv
<1>6. \A q \in Runs : run'[q].accounts \subseteq Accounts
  BY <1>1 DEF Run
<1>7. \A q \in Runs : \A a \in run'[q].accounts : acct'[a] # None
  BY <1>1, <1>6 DEF IInv, HasRows
<1>8. \A l \in Logs : LineInv(log'[l])
  BY DEF IInv
<1> QED BY <1>2, <1>3, <1>4, <1>5, <1>7, <1>8 DEF IInv, HasRows

-----------------------------------------------------------------------------
(* Every initial state satisfies the invariant, and every step preserves it. *)

LEMMA InitInv == Init => IInv
<1> SUFFICES ASSUME Init PROVE IInv
  OBVIOUS
<1>1. Cardinality(Accounts) \in Nat
  BY AccountAssumption, FS_CardinalityType
<1>2. PICK n \in 1..Cardinality(Accounts) : created \in [1..n -> Accounts]
  BY DEF Init
<1>3. n \in Nat /\ DOMAIN created = 1..n /\ \A i \in 1..n : created[i] \in Accounts
  BY <1>1, <1>2
<1>4. \A c \in Currencies \union {None} : Connected(c) \in AccountRow
  BY DEF Connected, AccountRow
<1>5. acct \in [Accounts -> AccountRow \union {None}]
  BY <1>4 DEF Init
<1>6. TypeOK
  <2>1. log \in [Logs -> LogLine]
    BY NoLineIsLine DEF Init
  <2>2. run \in [Runs -> Run]
    BY IdleIsRun DEF Init
  <2> QED BY <1>3, <1>5, <2>1, <2>2, CrashAssumption DEF Init, TypeOK
<1>7. RowsInv
  BY <1>3 DEF Init, RowsInv
<1>8. \A r \in Runs : run[r] = IdleRun
  BY DEF Init
<1>9. LiveInv
  BY <1>8 DEF LiveInv, IdleRun
<1>10. \A l \in Logs : LineInv(log[l])
  BY DEF Init, LineInv, NoLine
<1>11. \A r \in Runs : RunInv(run[r]) /\ HasRows(run[r])
  BY <1>8, IdleIsRun
<1> QED BY <1>6, <1>7, <1>9, <1>10, <1>11 DEF IInv

LEMMA ReadAccountsInv ==
  ASSUME IInv, NEW r \in Runs, ReadAccounts(r)
  PROVE  IInv'
<1> DEFINE x == [IdleRun EXCEPT !.pc = "stale", !.accounts = Connections, !.todo = Connections,
                                !.known = {a \in Connections : acct[a].currency # None}]
<1>1. Connections \in SUBSET Accounts /\ \A a \in Connections : acct[a] # None
  BY DEF Connections, IsConnection
<1>2. run' = [run EXCEPT ![r] = x] /\ Connections # {}
  BY DEF ReadAccounts
<1>3. x \in Run
  BY <1>1 DEF IdleRun, Run, PCs
<1>4. RunInv(x)
  BY <1>2 DEF IdleRun, RunInv, Looping, Writing
<1>5. HasRows(x) /\ x.log = None
  BY <1>1 DEF HasRows, IdleRun
<1>6. run'[r] = x
  BY <1>2 DEF IInv, TypeOK
<1> HIDE DEF x
<1> QED BY <1>2, <1>3, <1>4, <1>5, <1>6, RunStep DEF ReadAccounts, IInv, TypeOK

LEMMA ImportInv ==
  ASSUME IInv, NEW r \in Runs, NEW ok \in BOOLEAN, NEW wrote \in BOOLEAN, Import(r, ok, wrote)
  PROVE  IInv'
<1> DEFINE x == [run[r] EXCEPT !.pc = IF ok THEN "success" ELSE "failure"]
<1>1. run[r] \in Run /\ RunInv(run[r]) /\ HasRows(run[r]) /\ run[r].pc = "account"
  BY DEF IInv, TypeOK, Import
<1>2. run' = [run EXCEPT ![r] = x]
  BY DEF Import
<1>3. x \in Run
  BY <1>1 DEF Run, PCs
<1>4. RunInv(x)
  BY <1>1 DEF Run, RunInv, Looping, Writing
<1>5. HasRows(x) /\ x.log = run[r].log
  BY <1>1 DEF HasRows, Run
<1>6. run'[r] = x
  BY <1>2 DEF IInv, TypeOK
<1>7. book' \in SUBSET Accounts
  BY <1>1, Working DEF Import, IInv, TypeOK, Looping
<1> HIDE DEF x
<1> QED BY <1>2, <1>3, <1>4, <1>5, <1>6, <1>7, RunStep DEF Import, IInv, TypeOK

LEMMA RecordSuccessInv ==
  ASSUME IInv, NEW r \in Runs, RecordSuccess(r)
  PROVE  IInv'
<1> DEFINE a == Oldest(run[r].todo)
           x == [run[r] EXCEPT !.pc = "snapshot"]
<1>1. run[r] \in Run /\ RunInv(run[r]) /\ HasRows(run[r]) /\ run[r].pc = "success"
  BY DEF IInv, TypeOK, RecordSuccess
<1>2. run' = [run EXCEPT ![r] = x]
  BY DEF RecordSuccess
<1>3. x \in Run
  BY <1>1 DEF Run, PCs
<1>4. RunInv(x)
  BY <1>1 DEF Run, RunInv, Looping, Writing
<1>5. HasRows(x) /\ x.log = run[r].log
  BY <1>1 DEF HasRows, Run
<1>6. run'[r] = x
  BY <1>2 DEF IInv, TypeOK
<1>7. a \in Accounts /\ acct[a] \in AccountRow
  BY <1>1, Working DEF Looping
<1>8. [acct[a] EXCEPT !.status = "connected", !.currency = CurrencyOf[a]] \in AccountRow
  BY <1>7 DEF AccountRow, Currencies
<1>9. acct' = [acct EXCEPT ![a] = [acct[a] EXCEPT !.status = "connected",
                                                  !.currency = CurrencyOf[a]]]
  BY <1>7 DEF RecordSuccess, IInv, TypeOK
<1>10. /\ acct' \in [Accounts -> AccountRow \union {None}]
       /\ \A b \in Accounts : acct[b] # None => acct'[b] # None
       /\ \A b \in Accounts : acct[b] = None => acct'[b] = None
  BY <1>7, <1>8, <1>9, RowAssumption DEF IInv, TypeOK
<1> HIDE DEF x
<1> QED BY <1>2, <1>3, <1>4, <1>5, <1>6, <1>10, RunStep DEF RecordSuccess, IInv, TypeOK


LEMMA RecordSnapshotInv ==
  ASSUME IInv, NEW r \in Runs, NEW stored \in BOOLEAN, RecordSnapshot(r, stored)
  PROVE  IInv'
<1> DEFINE a    == Oldest(run[r].todo)
           rest == run[r].todo \ {a}
           x    == [run[r] EXCEPT !.pc = NextPC(rest), !.todo = rest, !.got = @ \union {a}]
<1>1. run[r] \in Run /\ RunInv(run[r]) /\ HasRows(run[r]) /\ run[r].pc = "snapshot"
  BY DEF IInv, TypeOK, RecordSnapshot
<1>2. a \in run[r].todo /\ a \in Accounts
  BY <1>1, Working DEF Looping
<1>3. run' = [run EXCEPT ![r] = x]
  BY <1>1 DEF RecordSnapshot, IInv, TypeOK
<1>4. x \in Run
  BY <1>1, <1>2 DEF Run, PCs, NextPC
<1>5. RunInv(x)
  BY <1>1, <1>2 DEF Run, RunInv, Looping, Writing, NextPC
<1>6. HasRows(x) /\ x.log = run[r].log
  BY <1>1 DEF HasRows, Run
<1>7. run'[r] = x
  BY <1>3 DEF IInv, TypeOK
<1>8. snapshots' \in SUBSET Accounts
  BY <1>2 DEF RecordSnapshot, IInv, TypeOK
<1> HIDE DEF x
<1> QED BY <1>3, <1>4, <1>5, <1>6, <1>7, <1>8, RunStep DEF RecordSnapshot, IInv, TypeOK

LEMMA RecordFailureInv ==
  ASSUME IInv, NEW r \in Runs, RecordFailure(r)
  PROVE  IInv'
<1> DEFINE a    == Oldest(run[r].todo)
           rest == run[r].todo \ {a}
           x    == [run[r] EXCEPT !.pc = NextPC(rest), !.todo = rest, !.failed = @ \union {a}]
<1>1. run[r] \in Run /\ RunInv(run[r]) /\ HasRows(run[r]) /\ run[r].pc = "failure"
  BY DEF IInv, TypeOK, RecordFailure
<1>2. a \in run[r].todo /\ a \in Accounts /\ acct[a] \in AccountRow
  BY <1>1, Working DEF Looping
<1>3. run' = [run EXCEPT ![r] = x]
  BY <1>1 DEF RecordFailure, IInv, TypeOK
<1>4. x \in Run
  BY <1>1, <1>2 DEF Run, PCs, NextPC
<1>5. RunInv(x)
  BY <1>1, <1>2 DEF Run, RunInv, Looping, Writing, NextPC
<1>6. HasRows(x) /\ x.log = run[r].log
  BY <1>1 DEF HasRows, Run
<1>7. run'[r] = x
  BY <1>3 DEF IInv, TypeOK
<1>8. [acct[a] EXCEPT !.status = "error"] \in AccountRow
  BY <1>2 DEF AccountRow
<1>9. acct' = [acct EXCEPT ![a] = [acct[a] EXCEPT !.status = "error"]]
  BY <1>2 DEF RecordFailure, IInv, TypeOK
<1>10. /\ acct' \in [Accounts -> AccountRow \union {None}]
       /\ \A b \in Accounts : acct[b] # None => acct'[b] # None
       /\ \A b \in Accounts : acct[b] = None => acct'[b] = None
  BY <1>2, <1>8, <1>9, RowAssumption DEF IInv, TypeOK
<1> HIDE DEF x
<1> QED BY <1>3, <1>4, <1>5, <1>6, <1>7, <1>10, RunStep DEF RecordFailure, IInv, TypeOK

LEMMA RepairInv ==
  ASSUME IInv, NEW r \in Runs, Repair(r)
  PROVE  IInv'
<1> DEFINE x == [run[r] EXCEPT !.pc = "finish"]
<1>1. run[r] \in Run /\ RunInv(run[r]) /\ HasRows(run[r]) /\ run[r].pc = "repair"
  BY DEF IInv, TypeOK, Repair
<1>2. run' = [run EXCEPT ![r] = x]
  BY DEF Repair
<1>3. x \in Run
  BY <1>1 DEF Run, PCs
<1>4. RunInv(x)
  BY <1>1 DEF Run, RunInv, Looping, Writing
<1>5. HasRows(x) /\ x.log = run[r].log
  BY <1>1 DEF HasRows, Run
<1>6. run'[r] = x
  BY <1>2 DEF IInv, TypeOK
<1>7. orphans' \in BOOLEAN
  BY Zenon DEF Repair
<1> HIDE DEF x
<1> QED BY <1>2, <1>3, <1>4, <1>5, <1>6, <1>7, RunStep DEF Repair, IInv, TypeOK

LEMMA CrashInv ==
  ASSUME IInv, NEW r \in Runs, Crash(r)
  PROVE  IInv'
<1>1. run' = [run EXCEPT ![r] = IdleRun] /\ run'[r] = IdleRun
  BY DEF Crash, IInv, TypeOK
<1>2. crashes' \in 0..MaxCrashes
  BY CrashAssumption DEF Crash, IInv, TypeOK
<1>3. IdleRun.log = None
  BY DEF IdleRun
<1> QED BY <1>1, <1>2, <1>3, IdleIsRun, RunStep DEF Crash, IInv, TypeOK

LEMMA FailStaleInv ==
  ASSUME IInv, NEW r \in Runs, FailStale(r)
  PROVE  IInv'
<1> DEFINE x == [run[r] EXCEPT !.pc = "open"]
           Closed(l) == [log[l] EXCEPT !.status = "error", !.error = TRUE, !.age = 0]
<1>1. run[r] \in Run /\ RunInv(run[r]) /\ HasRows(run[r]) /\ run[r].pc = "stale"
  BY DEF IInv, TypeOK, FailStale
<1>2. run' = [run EXCEPT ![r] = x] /\ run' \in [Runs -> Run] /\ run'[r] = x
  BY <1>1 DEF FailStale, IInv, TypeOK, Run, PCs
<1>3. RunInv(x) /\ x.log = None /\ x.accounts = run[r].accounts
  BY <1>1 DEF Run, RunInv, Looping, Writing
<1>4. \A l \in Logs : log[l] \in LogLine /\ LineInv(log[l])
  BY DEF IInv, TypeOK
<1>5. \A l \in Logs : log'[l] = IF IsStale(l) THEN Closed(l) ELSE log[l]
  BY DEF FailStale
<1>6. \A l \in Logs : IsStale(l) => Closed(l) \in LogLine /\ LineInv(Closed(l))
  <2> SUFFICES ASSUME NEW l \in Logs, IsStale(l) PROVE Closed(l) \in LogLine /\ LineInv(Closed(l))
    OBVIOUS
  <2>1. 0 \in 0..(StaleAfter + 1)
    BY StaleAssumption
  <2>2. log[l].imported = "none"
    BY <1>4 DEF IsStale, LineInv
  <2> QED BY <1>4, <2>1, <2>2 DEF LogLine, LineInv
<1> HIDE DEF x, Closed
<1>7. \A l \in Logs : log'[l] \in LogLine /\ LineInv(log'[l])
  BY <1>4, <1>5, <1>6
<1>8. log' \in [Logs -> LogLine]
  BY <1>7 DEF FailStale
<1>9. TypeOK'
  BY <1>2, <1>8 DEF FailStale, IInv, TypeOK
<1>10. \A q \in Runs : run[q].log # None => run[q].log \in Logs /\ ~IsStale(run[q].log)
  BY StaleAssumption DEF IInv, TypeOK, Run, LiveInv, IsStale, LogLine
<1>11. LiveInv'
  BY <1>2, <1>3, <1>5, <1>10 DEF IInv, TypeOK, LiveInv
<1>12. RowsInv'
  BY DEF FailStale, IInv, RowsInv
<1>13. \A q \in Runs : RunInv(run'[q]) /\ \A a \in run'[q].accounts : acct'[a] # None
  BY <1>1, <1>2, <1>3 DEF FailStale, IInv, TypeOK, HasRows
<1> QED BY <1>7, <1>9, <1>11, <1>12, <1>13 DEF IInv, HasRows

LEMMA OpenLogInv ==
  ASSUME IInv, NEW r \in Runs, OpenLog(r)
  PROVE  IInv'
<1> DEFINE f == FreePlace
           x == [run[r] EXCEPT !.pc = "account", !.log = f]
           y == [NoLine EXCEPT !.status = "running"]
<1>1. run[r] \in Run /\ RunInv(run[r]) /\ HasRows(run[r]) /\ run[r].pc = "open"
  BY DEF IInv, TypeOK, OpenLog
<1>2. f \in Logs /\ (\A q \in Runs : run[q].log # f) /\ f # None
  BY FreePlaceIsFree, NoneAssumption DEF OpenLog, IsFree
<1>3. x \in Run /\ x.log = f /\ x.accounts = run[r].accounts
  BY <1>1, <1>2 DEF Run, PCs
<1>4. RunInv(x)
  BY <1>1, <1>2 DEF Run, RunInv, Looping, Writing
<1>5. run' = [run EXCEPT ![r] = x] /\ log' = [log EXCEPT ![f] = y]
  BY DEF OpenLog, IInv, TypeOK
<1>6. y \in LogLine /\ LineInv(y) /\ y.status = "running" /\ y.age <= StaleAfter
  BY NoLineIsLine, StaleAssumption DEF NoLine, LineInv
<1> HIDE DEF f, x, y
<1>7. run' \in [Runs -> Run] /\ run'[r] = x /\ \A q \in Runs \ {r} : run'[q] = run[q]
  BY <1>3, <1>5 DEF IInv, TypeOK
<1>8. log' \in [Logs -> LogLine] /\ log'[f] = y /\ \A l \in Logs \ {f} : log'[l] = log[l]
  BY <1>2, <1>5, <1>6 DEF IInv, TypeOK
<1>9. TypeOK'
  BY <1>7, <1>8 DEF OpenLog, IInv, TypeOK
<1>10. \A q \in Runs \ {r} : run[q].log # None => run[q].log \in Logs \ {f}
  BY <1>2 DEF IInv, TypeOK, Run
<1>11. LiveInv'
  BY <1>2, <1>3, <1>6, <1>7, <1>8, <1>10 DEF IInv, LiveInv
<1>12. RowsInv'
  BY DEF OpenLog, IInv, RowsInv
<1>13. \A q \in Runs : RunInv(run'[q]) /\ \A a \in run'[q].accounts : acct'[a] # None
  BY <1>1, <1>3, <1>4, <1>7 DEF OpenLog, IInv, HasRows
<1>14. \A l \in Logs : LineInv(log'[l])
  BY <1>6, <1>8 DEF IInv
<1> QED BY <1>9, <1>11, <1>12, <1>13, <1>14 DEF IInv, HasRows

\* The line a run finishes: its own, which is open, and what it will say is the truth.
LEMMA Finishing ==
  ASSUME IInv, NEW r \in Runs, FinishLog(r)
  PROVE  LET l == run[r].log
         IN  /\ l \in Logs /\ log[l].status = "running"
             /\ \A q \in Runs \ {r} : run[q].log # l
             /\ log' \in [Logs -> LogLine]
             /\ \A k \in Logs \ {l} : log'[k] = log[k]
             /\ log'[l].status \in {"success", "error"}
             /\ LineInv(log'[l])
<1> DEFINE l == run[r].log
           failed == run[r].failed
           y == [log[l] EXCEPT
                   !.status = IF failed = run[r].accounts THEN "error" ELSE "success",
                   !.error = @ \/ failed # {}, !.age = 0,
                   !.imported = HowMany(run[r].got, run[r].accounts)]
<1>1. run[r] \in Run /\ RunInv(run[r]) /\ run[r].pc = "finish"
  BY DEF IInv, TypeOK, FinishLog
<1>2. l \in Logs /\ log[l].status = "running"
  BY <1>1 DEF Run, RunInv, Writing, IInv, LiveInv
<1>3. \A q \in Runs \ {r} : run[q].log # l
  BY <1>2, NoneAssumption DEF IInv, LiveInv
<1>4. log[l] \in LogLine /\ log[l].error = FALSE
  BY <1>2 DEF IInv, TypeOK, LineInv
<1>5. log' = [log EXCEPT ![l] = y]
  BY <1>2 DEF FinishLog, IInv, TypeOK
<1>6. y \in LogLine
  <2>1. 0 \in 0..(StaleAfter + 1)
    BY StaleAssumption
  <2>2. HowMany(run[r].got, run[r].accounts) \in {"none", "some", "all"}
    BY DEF HowMany
  <2>3. (log[l].error \/ failed # {}) \in BOOLEAN
    OBVIOUS
  <2> QED BY <1>4, <2>1, <2>2, <2>3 DEF LogLine
<1>7. /\ y.status = IF failed = run[r].accounts THEN "error" ELSE "success"
      /\ y.error = (failed # {})
      /\ y.imported = HowMany(run[r].got, run[r].accounts)
  BY <1>4 DEF LogLine
<1>8. /\ run[r].accounts = failed \union run[r].got /\ run[r].accounts # {}
      /\ failed \intersect run[r].got = {}
  BY <1>1 DEF RunInv
<1> HIDE DEF y, failed
<1>9. LineInv(y) /\ y.status \in {"success", "error"}
  BY <1>7, <1>8 DEF LineInv, HowMany
<1>10. /\ log'[l] = y /\ log' \in [Logs -> LogLine]
       /\ \A k \in Logs \ {l} : log'[k] = log[k]
  BY <1>2, <1>5, <1>6 DEF IInv, TypeOK
<1> QED BY <1>2, <1>3, <1>9, <1>10

LEMMA FinishLogInv ==
  ASSUME IInv, NEW r \in Runs, FinishLog(r)
  PROVE  IInv'
<1> DEFINE l == run[r].log
<1>1. /\ l \in Logs /\ log' \in [Logs -> LogLine] /\ LineInv(log'[l])
      /\ \A q \in Runs \ {r} : run[q].log # l
      /\ \A k \in Logs \ {l} : log'[k] = log[k]
  BY Finishing
<1>2. /\ run' \in [Runs -> Run] /\ run'[r] = IdleRun
      /\ \A q \in Runs \ {r} : run'[q] = run[q]
  BY IdleIsRun DEF FinishLog, IInv, TypeOK
<1> HIDE DEF l
<1>3. TypeOK'
  BY <1>1, <1>2 DEF FinishLog, IInv, TypeOK
<1>4. \A q \in Runs \ {r} : run[q].log # None => run[q].log \in Logs \ {l}
  BY <1>1 DEF IInv, TypeOK, Run
<1>5. LiveInv'
  BY <1>1, <1>2, <1>4 DEF IInv, LiveInv, IdleRun
<1>6. RowsInv'
  BY DEF FinishLog, IInv, RowsInv
<1>7. \A q \in Runs : RunInv(run'[q]) /\ \A a \in run'[q].accounts : acct'[a] # None
  BY <1>2, IdleIsRun DEF FinishLog, IInv, HasRows
<1>8. \A k \in Logs : LineInv(log'[k])
  BY <1>1 DEF IInv
<1> QED BY <1>3, <1>5, <1>6, <1>7, <1>8 DEF IInv, HasRows

LEMMA TickInv ==
  ASSUME IInv, Tick
  PROVE  IInv'
<1> DEFINE Older(l) == [log[l] EXCEPT !.age = @ + 1]
           Ages(l)  == log[l].status = "running" /\ ~IsStale(l)
<1>1. \A l \in Logs : log[l] \in LogLine /\ LineInv(log[l])
  BY DEF IInv, TypeOK
<1>2. \A l \in Logs : log'[l] = IF Ages(l) THEN Older(l) ELSE log[l]
  BY DEF Tick
<1>3. \A l \in Logs : Ages(l) => /\ Older(l) \in LogLine /\ LineInv(Older(l))
                                 /\ Older(l).status = "running" /\ Older(l).age = log[l].age + 1
  <2> SUFFICES ASSUME NEW l \in Logs, Ages(l)
               PROVE  /\ Older(l) \in LogLine /\ LineInv(Older(l))
                      /\ Older(l).status = "running" /\ Older(l).age = log[l].age + 1
    OBVIOUS
  <2>1. log[l].age + 1 \in 0..(StaleAfter + 1)
    BY <1>1, StaleAssumption DEF LogLine, IsStale
  <2> QED BY <1>1, <2>1 DEF LogLine, LineInv
<1> HIDE DEF Older
<1>4. \A l \in Logs : log'[l] \in LogLine /\ LineInv(log'[l])
  BY <1>1, <1>2, <1>3
<1>5. log' \in [Logs -> LogLine]
  BY <1>4 DEF Tick
<1>6. TypeOK'
  BY <1>5 DEF Tick, IInv, TypeOK
<1>7. ASSUME NEW q \in Runs, run[q].log # None
      PROVE  log'[run[q].log].status = "running" /\ log'[run[q].log].age <= StaleAfter
  <2>1. run[q].log \in Logs /\ log[run[q].log].age \in Nat
    BY <1>1, <1>7, StaleAssumption DEF IInv, TypeOK, Run, LogLine
  <2>2. log[run[q].log].status = "running" /\ log[run[q].log].age < StaleAfter
    BY <1>7 DEF IInv, LiveInv, Tick
  <2>3. Ages(run[q].log)
    BY <2>1, <2>2, StaleAssumption DEF IsStale
  <2> QED BY <1>2, <1>3, <2>1, <2>2, <2>3, StaleAssumption
<1>8. LiveInv'
  BY <1>7 DEF Tick, IInv, LiveInv
<1>9. RowsInv'
  BY DEF Tick, IInv, RowsInv
<1>10. \A q \in Runs : RunInv(run'[q]) /\ \A a \in run'[q].accounts : acct'[a] # None
  BY DEF Tick, IInv, HasRows
<1> QED BY <1>4, <1>6, <1>8, <1>9, <1>10 DEF IInv, HasRows

LEMMA NextInv == IInv /\ [Next]_vars => IInv'
<1> SUFFICES ASSUME IInv, [Next]_vars PROVE IInv'
  OBVIOUS
<1>1. ASSUME NEW r \in Runs, Step(r) PROVE IInv'
  <2>1. CASE FailStale(r)
    BY <2>1, FailStaleInv
  <2>2. CASE OpenLog(r)
    BY <2>2, OpenLogInv
  <2>3. ASSUME NEW ok \in BOOLEAN, NEW wrote \in BOOLEAN, Import(r, ok, wrote) PROVE IInv'
    BY <2>3, ImportInv
  <2>4. CASE RecordSuccess(r)
    BY <2>4, RecordSuccessInv
  <2>5. ASSUME NEW stored \in BOOLEAN, RecordSnapshot(r, stored) PROVE IInv'
    BY <2>5, RecordSnapshotInv
  <2>6. CASE RecordFailure(r)
    BY <2>6, RecordFailureInv
  <2>7. CASE Repair(r)
    BY <2>7, RepairInv
  <2>8. CASE FinishLog(r)
    BY <2>8, FinishLogInv
  <2> QED BY <1>1, <2>1, <2>2, <2>3, <2>4, <2>5, <2>6, <2>7, <2>8 DEF Step
<1>2. ASSUME NEW r \in Runs, Crash(r) PROVE IInv'
  BY <1>2, CrashInv
<1>3. CASE Tick
  BY <1>3, TickInv
<1>4. ASSUME NEW r \in Runs, ReadAccounts(r) PROVE IInv'
  BY <1>4, ReadAccountsInv
<1>5. CASE UNCHANGED vars
  BY <1>5 DEF vars, IInv, TypeOK, RowsInv, LiveInv, HasRows
<1> QED BY <1>1, <1>2, <1>3, <1>4, <1>5 DEF Next, Goes

-----------------------------------------------------------------------------
(* The theorems. *)

\* The invariant holds in every state of every behaviour of syncMt5.
THEOREM Invariance == Spec => []IInv
<1> QED BY InitInv, NextInv, PTL DEF Spec

\* The account rows, the log lines and the runs have their types.
THEOREM TypeCorrect == Spec => []TypeOK
<1>1. IInv => TypeOK
  BY DEF IInv
<1> QED BY <1>1, Invariance, PTL

(***************************************************************************)
(* Whatever crashed, overlapped or was presumed dead, a closed line says   *)
(* how much of what the run set out to read it has imported (finishSyncLog *)
(* and failStaleSyncLogs).                                                 *)
(***************************************************************************)
THEOREM LogIsTrue == Spec => []LogTellsTheTruth
<1>1. IInv => LogTellsTheTruth
  BY DEF IInv, LineInv, LogTellsTheTruth
<1> QED BY <1>1, Invariance, PTL

(***************************************************************************)
(* The log of the syncs implements RunLog's safety: lines open as running, *)
(* and are closed once, with a verdict that is final.  That no line stays  *)
(* open for ever is left to TLC.                                           *)
(***************************************************************************)
THEOREM ImplementsRunLog == Spec => Line!Safety
<1> DEFINE st == [l \in Logs |-> log[l].status]
<1>1. Init => Line!Init
  BY DEF Init, NoLine, Line!Init
<1>2. ASSUME IInv, NEW r \in Runs, FailStale(r) PROVE Line!Next \/ st' = st
  <2> DEFINE S == {l \in Logs : IsStale(l)}
  <2>1. st' = [l \in Logs |-> IF l \in S THEN "error" ELSE st[l]]
    BY <1>2 DEF FailStale, IInv, TypeOK, LogLine
  <2>2. CASE S = {}
    BY <2>1, <2>2
  <2>3. CASE S # {}
    <3>1. \A l \in S : st[l] = "running"
      BY DEF IsStale
    <3>2. Line!Close(S, "error")
      BY <2>1, <2>3, <3>1 DEF Line!Close
    <3> QED BY <3>2 DEF Line!Next, Line!Verdicts
  <2> QED BY <2>2, <2>3
<1>3. ASSUME IInv, NEW r \in Runs, OpenLog(r) PROVE Line!Next
  <2>1. PICK f \in Logs : f = FreePlace /\ log[f].status # "running"
    BY <1>3, FreePlaceIsFree DEF OpenLog, IsFree
  <2>2. log' = [log EXCEPT ![f] = [NoLine EXCEPT !.status = "running"]]
    BY <1>3, <2>1 DEF OpenLog
  <2>3. st' = [st EXCEPT ![f] = "running"]
    BY <1>3, <2>1, <2>2 DEF NoLine, IInv, TypeOK
  <2>4. Line!Open(f)
    BY <2>1, <2>3 DEF Line!Open
  <2> QED BY <2>1, <2>4 DEF Line!Next
<1>4. ASSUME IInv, NEW r \in Runs, FinishLog(r) PROVE Line!Next
  <2> DEFINE l == run[r].log
             S == {l}
  <2>1. /\ l \in Logs /\ log[l].status = "running"
        /\ \A k \in Logs \ {l} : log'[k] = log[k]
        /\ log'[l].status \in {"success", "error"}
    BY <1>4, Finishing
  <2> HIDE DEF l
  <2>2. st' = [k \in Logs |-> IF k \in S THEN log'[l].status ELSE st[k]]
    BY <2>1
  <2>3. S # {} /\ S \in SUBSET Logs /\ \A k \in S : st[k] = "running"
    BY <2>1
  <2>4. PICK verdict \in {"success", "error"} : log'[l].status = verdict
    BY <2>1
  <2>5. Line!Close(S, verdict)
    BY <2>2, <2>3, <2>4 DEF Line!Close
  <2> HIDE DEF S, st
  <2> QED BY <2>3, <2>5 DEF Line!Next, Line!Verdicts
<1>5. ASSUME Tick PROVE st' = st
  BY <1>5 DEF Tick
<1>6. ASSUME IInv, [Next]_vars PROVE Line!Next \/ st' = st
  <2>1. ASSUME NEW r \in Runs, Step(r) PROVE Line!Next \/ st' = st
    <3>1. CASE log' = log
      BY <3>1
    <3> QED BY <1>2, <1>3, <1>4, <1>6, <2>1, <3>1
            DEF Step, Import, RecordSuccess, RecordSnapshot, RecordFailure, Repair
  <2>2. CASE log' = log
    BY <2>2
  <2> QED BY <1>5, <1>6, <2>1, <2>2 DEF Next, Goes, Crash, ReadAccounts, vars
<1>7. IInv /\ [Next]_vars => [Line!Next]_st
  BY <1>6
<1> QED BY <1>1, <1>7, Invariance, PTL DEF Spec, Line!Safety

-----------------------------------------------------------------------------
(* The syncs beside the tabs. *)

(***************************************************************************)
(* What a server action has in hand: an account it is about and, when it   *)
(* retires or deletes, the one that was there, which has a row.            *)
(***************************************************************************)
TabInv(x) ==
  /\ x.pc # "idle" => x.account \in Accounts
  /\ x.pc \in {"retire", "delete"} \/ x.wipe => x.old # None
  /\ x.old # None => acct[x.old] # None

TabsInv == /\ IInv
           /\ created \in Seq(Accounts)
           /\ tab \in [Tabs -> Tab] /\ submissions \in 0..MaxSubmissions
           /\ \A t \in Tabs : TabInv(tab[t])

-----------------------------------------------------------------------------
\* Types of what the actions build.
LEMMA IdleIsTab == IdleTab \in Tab /\ TabInv(IdleTab)
<1>1. IdleTab \in Tab
  BY DEF IdleTab, Tab, TabPCs
<1>2. TabInv(IdleTab)
  BY DEF IdleTab, TabInv
<1> QED BY <1>1, <1>2

\* The oldest of some connections is one of them, or None if there are none.
LEMMA OldestOrNoneIn ==
  ASSUME RowsInv, NEW S \in SUBSET Connections
  PROVE  /\ S # {} => OldestOrNone(S) \in S
         /\ S = {} => OldestOrNone(S) = None
<1>1. S \in SUBSET Accounts /\ \A a \in S : acct[a] # None
  BY DEF Connections, IsConnection
<1> QED BY <1>1, OldestIn DEF OldestOrNone

\* What connectMt5Action finds in the slot is a connection, or nothing.
LEMMA SlotTypes ==
  ASSUME RowsInv, NEW purpose
  PROVE  InThisSlot(purpose) \in Connections \union {None}
<1>1. \A S \in SUBSET Connections : OldestOrNone(S) \in Connections \union {None}
  BY OldestOrNoneIn
<1>2. /\ For(Connections, "swing") \in SUBSET Connections
      /\ For(Connections, None) \in SUBSET Connections
      /\ For(Connections, "day") \in SUBSET Connections
      /\ For(Connections, None) \ {InSwing(Connections)} \in SUBSET Connections
  BY DEF For
<1>3. InSwing(Connections) \in Connections \union {None}
  BY <1>1, <1>2 DEF InSwing
<1>4. InDay(Connections) \in Connections \union {None}
  BY <1>1, <1>2 DEF InDay
<1> QED BY <1>1, <1>3, <1>4 DEF InThisSlot, OccupantOfSlot

(***************************************************************************)
(* A step that leaves the runs and the log alone, and takes no account's   *)
(* row away, keeps the invariant of the syncs.                             *)
(***************************************************************************)
LEMMA AccountStep ==
  ASSUME IInv, run' = run, log' = log,
         acct' \in [Accounts -> AccountRow \union {None}],
         \A a \in Accounts : acct[a] # None => acct'[a] # None,
         created' \in Seq(Accounts),
         \A a \in Accounts : acct'[a] # None => \E i \in DOMAIN created' : created'[i] = a,
         book' \in SUBSET Accounts, snapshots' \in SUBSET Accounts, orphans' \in BOOLEAN,
         crashes' \in 0..MaxCrashes
  PROVE  IInv'
<1>1. DOMAIN created' \subseteq Nat /\ \A i \in DOMAIN created' : created'[i] \in Accounts
  OBVIOUS
<1>2. TypeOK'
  BY <1>1 DEF IInv, TypeOK
<1>3. RowsInv'
  BY <1>1 DEF RowsInv
<1>4. LiveInv'
  BY DEF IInv, LiveInv
<1>5. \A r \in Runs : RunInv(run'[r]) /\ \A a \in run'[r].accounts : a \in Accounts /\ acct'[a] # None
  BY DEF IInv, TypeOK, Run, HasRows
<1> QED BY <1>2, <1>3, <1>4, <1>5 DEF IInv, HasRows

\* A step of one tab.
LEMMA TabStep ==
  ASSUME TabsInv, IInv', created' \in Seq(Accounts), NEW t \in Tabs,
         tab' = [tab EXCEPT ![t] = tab'[t]], tab'[t] \in Tab, TabInv(tab[t])',
         submissions' \in 0..MaxSubmissions,
         \A a \in Accounts : acct[a] # None => acct'[a] # None
  PROVE  TabsInv'
<1>1. tab' \in [Tabs -> Tab] /\ \A u \in Tabs \ {t} : tab'[u] = tab[u]
  BY DEF TabsInv
<1>2. \A u \in Tabs \ {t} : tab[u].old # None => tab[u].old \in Accounts
  BY DEF TabsInv, Tab
<1>3. \A u \in Tabs \ {t} : TabInv(tab[u])'
  BY <1>1, <1>2 DEF TabsInv, TabInv
<1> QED BY <1>1, <1>3 DEF TabsInv, TabInv

(***************************************************************************)
(* What a sync leaves alone: it connects and disconnects nobody, moves     *)
(* nobody to another slot and deletes nothing.                             *)
(***************************************************************************)
LEMMA SyncsKeepRows ==
  ASSUME IInv, [Next]_vars
  PROVE  /\ created' = created /\ book \subseteq book' /\ snapshots \subseteq snapshots'
         /\ \A a \in Accounts :
               /\ acct'[a] = None <=> acct[a] = None
               /\ acct[a] # None => acct'[a].cred = acct[a].cred
               /\ acct[a] # None => acct'[a].purpose = acct[a].purpose
<1> DEFINE Same == \A a \in Accounts :
                     /\ acct'[a] = None <=> acct[a] = None
                     /\ acct[a] # None => acct'[a].cred = acct[a].cred
                     /\ acct[a] # None => acct'[a].purpose = acct[a].purpose
<1>0. acct \in [Accounts -> AccountRow \union {None}]
  BY DEF IInv, TypeOK
<1>1. ASSUME NEW r \in Runs, RecordSuccess(r) PROVE Same
  <2> DEFINE a == Oldest(run[r].todo)
  <2>1. a \in Accounts /\ acct[a] \in AccountRow
    BY <1>1, Working DEF RecordSuccess, Looping
  <2> HIDE DEF a
  <2>2. acct' = [acct EXCEPT ![a].status = "connected", ![a].currency = CurrencyOf[a]]
    BY <1>1 DEF RecordSuccess, a
  <2>3. acct'[a] = [acct[a] EXCEPT !.status = "connected", !.currency = CurrencyOf[a]]
    BY <1>0, <2>1, <2>2
  <2>4. acct'[a] \in AccountRow /\ acct'[a].cred = acct[a].cred
        /\ acct'[a].purpose = acct[a].purpose
    <3>1. CurrencyOf[a] \in Currencies
      BY <2>1 DEF Currencies
    <3> QED BY <2>1, <2>3, <3>1 DEF AccountRow
  <2>5. \A b \in Accounts \ {a} : acct'[b] = acct[b]
    BY <1>0, <2>2
  <2> QED BY <2>1, <2>4, <2>5, RowAssumption
<1>2. ASSUME NEW r \in Runs, RecordFailure(r) PROVE Same
  <2> DEFINE a == Oldest(run[r].todo)
  <2>1. a \in Accounts /\ acct[a] \in AccountRow
    BY <1>2, Working DEF RecordFailure, Looping
  <2> HIDE DEF a
  <2>2. acct' = [acct EXCEPT ![a].status = "error"]
    BY <1>2 DEF RecordFailure, a
  <2>3. acct'[a] = [acct[a] EXCEPT !.status = "error"]
    BY <1>0, <2>1, <2>2
  <2>4. acct'[a] \in AccountRow /\ acct'[a].cred = acct[a].cred
        /\ acct'[a].purpose = acct[a].purpose
    BY <2>1, <2>3 DEF AccountRow
  <2>5. \A b \in Accounts \ {a} : acct'[b] = acct[b]
    BY <1>0, <2>2
  <2> QED BY <2>1, <2>4, <2>5, RowAssumption
<1>3. ASSUME acct' = acct PROVE Same
  BY <1>3
<1>4. Same
  BY <1>1, <1>2, <1>3 DEF Next, Goes, Step, Crash, Tick, ReadAccounts, FailStale, OpenLog,
     Import, RecordSnapshot, Repair, FinishLog, vars
<1>5. created' = created
  BY DEF Next, Goes, Step, Crash, Tick, ReadAccounts, FailStale, OpenLog, Import,
     RecordSuccess, RecordSnapshot, RecordFailure, Repair, FinishLog, vars
<1>6. ASSUME NEW r \in Runs, \/ \E ok, wrote \in BOOLEAN : Import(r, ok, wrote)
                             \/ \E stored \in BOOLEAN : RecordSnapshot(r, stored)
      PROVE  book \subseteq book' /\ snapshots \subseteq snapshots'
  BY <1>6 DEF Import, RecordSnapshot
<1>7. book \subseteq book' /\ snapshots \subseteq snapshots'
  <2>1. \/ UNCHANGED <<book, snapshots>>
        \/ \E r \in Runs : \/ \E ok, wrote \in BOOLEAN : Import(r, ok, wrote)
                          \/ \E stored \in BOOLEAN : RecordSnapshot(r, stored)
    BY DEF Next, Goes, Step, Crash, Tick, ReadAccounts, FailStale, OpenLog, RecordSuccess,
       RecordFailure, Repair, FinishLog, vars
  <2> QED BY <1>6, <2>1
<1> QED BY <1>4, <1>5, <1>7

-----------------------------------------------------------------------------
(* The types, whatever the tabs do beside the syncs. *)

LEMMA InitTabsInv == InitTabs => TabsInv
<1> SUFFICES ASSUME InitTabs PROVE TabsInv
  OBVIOUS
<1>1. created = <<>> /\ \A a \in Accounts : acct[a] = None
  BY DEF InitTabs
<1>2. log \in [Logs -> LogLine] /\ \A l \in Logs : LineInv(log[l])
  BY NoLineIsLine DEF InitTabs, LineInv, NoLine
<1>3. run \in [Runs -> Run] /\ \A r \in Runs : run[r] = IdleRun
  BY IdleIsRun DEF InitTabs
<1>4. TypeOK
  BY <1>1, <1>2, <1>3, CrashAssumption DEF InitTabs, TypeOK
<1>5. RowsInv
  BY <1>1 DEF RowsInv
<1>6. LiveInv
  BY <1>3 DEF LiveInv, IdleRun
<1>7. IInv
  BY <1>2, <1>3, <1>4, <1>5, <1>6, IdleIsRun DEF IInv
<1>8. created \in Seq(Accounts) /\ submissions \in 0..MaxSubmissions
  BY <1>1, SubmissionsAssumption DEF InitTabs
<1> QED BY <1>7, <1>8, IdleIsTab DEF InitTabs, TabsInv

LEMMA ConnectInv ==
  ASSUME TabsInv, NEW t \in Tabs, NEW a \in Accounts, NEW purpose \in Purposes \union {None},
         Connect(t, a, purpose)
  PROVE  TabsInv'
<1> DEFINE old == InThisSlot(purpose)
           replaces == old \notin {None, a}
           x == [pc |-> IF replaces THEN "retire" ELSE "count", account |-> a,
                 purpose |-> purpose, old |-> IF replaces THEN old ELSE None,
                 wipe |-> replaces, alone |-> Cardinality(Connections) = 1,
                 connecting |-> TRUE]
<1>1. tab' = [tab EXCEPT ![t] = x] /\ tab'[t] = x /\ UNCHANGED vars
  BY DEF Connect, TabsInv
<1>2. old \in Connections \union {None} /\ Connections \subseteq Accounts
      /\ \A b \in Connections : acct[b] # None
  BY SlotTypes DEF TabsInv, IInv, Connections, IsConnection
<1>3. replaces \in BOOLEAN /\ (Cardinality(Connections) = 1) \in BOOLEAN
  OBVIOUS
<1> HIDE DEF old
<1>4. x \in Tab
  BY <1>2, <1>3 DEF Tab, TabPCs
<1>5. TabInv(tab[t])'
  <2>1. x.account = a /\ (x.pc = "retire" \/ x.wipe => x.old = old) /\ x.old \in {None, old}
        /\ x.pc # "delete" /\ (x.pc = "retire" \/ x.wipe => old # None)
    OBVIOUS
  <2> HIDE DEF x
  <2> QED BY <1>1, <1>2, <2>1 DEF TabInv, vars
<1> HIDE DEF x
<1>6. IInv' /\ created' \in Seq(Accounts) /\ acct' = acct
  BY <1>1, NextInv DEF TabsInv, vars
<1>7. submissions' \in 0..MaxSubmissions
  BY SubmissionsAssumption DEF Connect, Submit, TabsInv
<1> QED BY <1>1, <1>4, <1>5, <1>6, <1>7, TabStep

LEMMA DisconnectInv ==
  ASSUME TabsInv, NEW t \in Tabs, NEW a \in Accounts, NEW removeData \in BOOLEAN,
         Disconnect(t, a, removeData)
  PROVE  TabsInv'
<1> DEFINE others == {b \in Connections \ {a} : acct[b].status = "connected"}
           x == [IdleTab EXCEPT !.pc = "retire", !.account = a, !.old = a, !.wipe = removeData,
                                !.alone = (others = {})]
<1>1. tab' = [tab EXCEPT ![t] = x] /\ tab'[t] = x /\ UNCHANGED vars /\ acct[a] # None
  BY DEF Disconnect, IsConnection, TabsInv
<1>2. (others = {}) \in BOOLEAN
  OBVIOUS
<1> HIDE DEF others
<1>3. x \in Tab
  BY <1>2 DEF Tab, TabPCs, IdleTab
<1>4. TabInv(tab[t])'
  <2>1. x.account = a /\ x.old = a
    BY DEF IdleTab
  <2> HIDE DEF x
  <2> QED BY <1>1, <2>1, NoneAssumption DEF TabInv, vars
<1> HIDE DEF x
<1>5. IInv' /\ created' \in Seq(Accounts) /\ acct' = acct
  BY <1>1, NextInv DEF TabsInv, vars
<1>6. submissions' \in 0..MaxSubmissions
  BY SubmissionsAssumption DEF Disconnect, Submit, TabsInv
<1> QED BY <1>1, <1>3, <1>4, <1>5, <1>6, TabStep

\* The row of the account that is retired stays one, with nothing to connect with.
LEMMA Retiring ==
  ASSUME TabsInv, NEW t \in Tabs, Retire(t)
  PROVE  LET old == tab[t].old
         IN  /\ old \in Accounts /\ acct[old] \in AccountRow /\ acct'[old] \in AccountRow
             /\ ~acct'[old].cred /\ acct'[old].purpose = acct[old].purpose
             /\ \A a \in Accounts \ {old} : acct'[a] = acct[a]
             /\ acct' \in [Accounts -> AccountRow \union {None}]
<1> DEFINE old == tab[t].old
           row == [acct[old] EXCEPT !.cred = FALSE, !.status = "disconnected"]
<1>1. tab[t] \in Tab /\ tab[t].pc = "retire" /\ TabInv(tab[t])
      /\ acct \in [Accounts -> AccountRow \union {None}]
  BY DEF Retire, TabsInv, IInv, TypeOK
<1>2. old \in Accounts /\ acct[old] \in AccountRow
  BY <1>1 DEF Tab, TabInv
<1>3. row \in AccountRow /\ ~row.cred /\ row.purpose = acct[old].purpose
  BY <1>2 DEF AccountRow
<1>4. acct' = [acct EXCEPT ![old] = row]
  BY <1>1, <1>2 DEF Retire
<1> HIDE DEF row, old
<1> QED BY <1>1, <1>2, <1>3, <1>4 DEF old

LEMMA RetireInv ==
  ASSUME TabsInv, NEW t \in Tabs, Retire(t)
  PROVE  TabsInv'
<1> DEFINE x == IF tab[t].connecting THEN [tab[t] EXCEPT !.pc = "count"]
                ELSE IF tab[t].wipe THEN [tab[t] EXCEPT !.pc = "delete"] ELSE IdleTab
<1>1. /\ acct' \in [Accounts -> AccountRow \union {None}]
      /\ \A a \in Accounts : acct[a] # None <=> acct'[a] # None
  BY Retiring, RowAssumption
<1>2. tab[t] \in Tab /\ tab[t].pc = "retire" /\ TabInv(tab[t])
      /\ tab' = [tab EXCEPT ![t] = x] /\ tab'[t] = x
  BY DEF Retire, TabsInv
<1>3. x \in Tab
  BY <1>2, IdleIsTab DEF Tab, TabPCs
<1>4. TabInv(tab[t])'
  BY <1>1, <1>2 DEF Tab, TabInv, IdleTab
<1> HIDE DEF x
<1>5. IInv'
  BY <1>1, AccountStep DEF Retire, TabsInv, IInv, TypeOK, RowsInv
<1> QED BY <1>1, <1>2, <1>3, <1>4, <1>5, TabStep DEF Retire, TabsInv

LEMMA CountInv ==
  ASSUME TabsInv, NEW t \in Tabs, Count(t)
  PROVE  TabsInv'
<1>0. PICK x \in {IdleTab, [tab[t] EXCEPT !.pc = "upsert"]} :
        tab' = [tab EXCEPT ![t] = x] /\ tab'[t] = x
  BY DEF Count, TabsInv
<1>1. tab[t] \in Tab /\ TabInv(tab[t]) /\ tab[t].pc = "count" /\ UNCHANGED vars
  BY DEF Count, TabsInv, vars
<1>2. x \in Tab
  BY <1>1, IdleIsTab DEF Tab, TabPCs
<1>3. TabInv(tab[t])'
  BY <1>0, <1>1 DEF Tab, TabInv, IdleTab, vars
<1>4. IInv' /\ created' \in Seq(Accounts) /\ acct' = acct
  BY <1>1, NextInv DEF TabsInv, vars
<1> QED BY <1>0, <1>2, <1>3, <1>4, TabStep DEF Count, TabsInv

\* The account that is connected has a row, and all the others keep theirs.
LEMMA Upserting ==
  ASSUME TabsInv, NEW t \in Tabs, Upsert(t)
  PROVE  LET a == tab[t].account
         IN  /\ a \in Accounts /\ acct'[a] \in AccountRow
             /\ acct'[a].cred /\ acct'[a].purpose = tab[t].purpose
             /\ \A b \in Accounts \ {a} : acct'[b] = acct[b]
             /\ acct' \in [Accounts -> AccountRow \union {None}]
             /\ created' = IF acct[a] = None THEN Append(created, a) ELSE created
<1> DEFINE a   == tab[t].account
           row == [cred |-> TRUE, status |-> "connected", purpose |-> tab[t].purpose,
                   currency |-> CurrencyOf[a]]
<1>1. tab[t] \in Tab /\ tab[t].pc = "upsert" /\ TabInv(tab[t])
      /\ acct \in [Accounts -> AccountRow \union {None}]
  BY DEF Upsert, TabsInv, IInv, TypeOK
<1>2. a \in Accounts /\ tab[t].purpose \in Purposes \union {None}
  BY <1>1 DEF Tab, TabInv
<1>3. CurrencyOf[a] \in Currencies
  BY <1>2 DEF Currencies
<1>4. row \in AccountRow /\ row.cred /\ row.purpose = tab[t].purpose
  BY <1>2, <1>3 DEF AccountRow
<1>5. acct' = [acct EXCEPT ![a] = row]
  BY DEF Upsert
<1>6. created' = IF acct[a] = None THEN Append(created, a) ELSE created
  BY DEF Upsert
<1> HIDE DEF row, a
<1>7. acct'[a] = row /\ acct' \in [Accounts -> AccountRow \union {None}]
      /\ \A b \in Accounts \ {a} : acct'[b] = acct[b]
  BY <1>1, <1>2, <1>4, <1>5
<1> QED BY <1>2, <1>4, <1>6, <1>7 DEF a

LEMMA UpsertInv ==
  ASSUME TabsInv, NEW t \in Tabs, Upsert(t)
  PROVE  TabsInv'
<1> DEFINE a == tab[t].account
           x == [tab[t] EXCEPT !.pc = IF tab[t].wipe THEN "delete" ELSE "sync"]
<1>1. /\ a \in Accounts /\ acct'[a] # None
      /\ \A b \in Accounts \ {a} : acct'[b] = acct[b]
      /\ acct' \in [Accounts -> AccountRow \union {None}]
      /\ created' = IF acct[a] = None THEN Append(created, a) ELSE created
  BY Upserting, RowAssumption
<1>2. tab[t] \in Tab /\ TabInv(tab[t]) /\ tab' = [tab EXCEPT ![t] = x] /\ tab'[t] = x
  BY DEF Upsert, TabsInv
<1>3. x \in Tab
  BY <1>2 DEF Tab, TabPCs
<1>4. TabInv(tab[t])'
  BY <1>1, <1>2 DEF Tab, TabInv
<1> HIDE DEF x
<1>5. created' \in Seq(Accounts)
      /\ \A b \in Accounts : acct'[b] # None => \E i \in DOMAIN created' : created'[i] = b
  <2> HIDE DEF a
  <2>0. created \in Seq(Accounts)
        /\ \A b \in Accounts : acct[b] # None => \E i \in DOMAIN created : created[i] = b
    BY DEF TabsInv, IInv, RowsInv
  <2>1. CASE acct[a] # None
    BY <1>1, <2>0, <2>1
  <2>2. CASE acct[a] = None
    <3>1. created' = Append(created, a)
      BY <1>1, <2>2
    <3>2. /\ created' \in Seq(Accounts) /\ DOMAIN created \subseteq DOMAIN created'
          /\ \A i \in DOMAIN created : created'[i] = created[i]
          /\ \E i \in DOMAIN created' : created'[i] = a
      BY <1>1, <2>0, <3>1
    <3> QED BY <1>1, <2>0, <3>2
  <2> QED BY <2>1, <2>2
<1>6. IInv'
  BY <1>1, <1>5, AccountStep DEF Upsert, TabsInv, IInv, TypeOK
<1> QED BY <1>1, <1>2, <1>3, <1>4, <1>5, <1>6, TabStep DEF Upsert, TabsInv

LEMMA DeleteTradesInv ==
  ASSUME TabsInv, NEW t \in Tabs, DeleteTrades(t)
  PROVE  TabsInv'
<1>0. PICK x \in {[tab[t] EXCEPT !.pc = "snapshots"], [tab[t] EXCEPT !.pc = "sync"], IdleTab} :
        tab' = [tab EXCEPT ![t] = x] /\ tab'[t] = x
  BY DEF DeleteTrades, TabsInv
<1>1. tab[t] \in Tab /\ TabInv(tab[t]) /\ tab[t].pc = "delete"
  BY DEF DeleteTrades, TabsInv
<1>2. x \in Tab
  BY <1>1, IdleIsTab DEF Tab, TabPCs
<1>3. TabInv(tab[t])'
  BY <1>0, <1>1 DEF Tab, TabInv, IdleTab, DeleteTrades
<1>4. IInv'
  BY AccountStep DEF DeleteTrades, TabsInv, IInv, TypeOK, RowsInv
<1> QED BY <1>0, <1>2, <1>3, <1>4, TabStep DEF DeleteTrades, TabsInv

LEMMA ClearSnapshotsInv ==
  ASSUME TabsInv, NEW t \in Tabs, ClearSnapshots(t)
  PROVE  TabsInv'
<1>0. PICK x \in {[tab[t] EXCEPT !.pc = "sync"], IdleTab} :
        tab' = [tab EXCEPT ![t] = x] /\ tab'[t] = x
  BY DEF ClearSnapshots, TabsInv
<1>1. tab[t] \in Tab /\ TabInv(tab[t]) /\ tab[t].pc = "snapshots"
  BY DEF ClearSnapshots, TabsInv
<1>2. x \in Tab
  BY <1>1, IdleIsTab DEF Tab, TabPCs
<1>3. TabInv(tab[t])'
  BY <1>0, <1>1 DEF Tab, TabInv, IdleTab, ClearSnapshots
<1>4. IInv'
  BY AccountStep DEF ClearSnapshots, TabsInv, IInv, TypeOK, RowsInv
<1> QED BY <1>0, <1>2, <1>3, <1>4, TabStep DEF ClearSnapshots, TabsInv

LEMMA BackfillInv ==
  ASSUME TabsInv, NEW t \in Tabs, Backfill(t)
  PROVE  TabsInv'
<1>1. tab' = [tab EXCEPT ![t] = IdleTab] /\ tab'[t] = IdleTab /\ submissions' = submissions
  BY DEF Backfill, TabsInv
<1>2. (\E r \in Runs : ReadAccounts(r)) \/ UNCHANGED vars
  BY DEF Backfill
<1>3. IInv' /\ created' = created /\ acct' = acct
  BY <1>2, NextInv DEF TabsInv, Next, vars, ReadAccounts
<1>4. TabInv(tab[t])'
  BY <1>1 DEF TabInv, IdleTab
<1> QED BY <1>1, <1>3, <1>4, IdleIsTab, TabStep DEF TabsInv

LEMMA CrashTabInv ==
  ASSUME TabsInv, NEW t \in Tabs, CrashTab(t)
  PROVE  TabsInv'
<1>1. tab' = [tab EXCEPT ![t] = IdleTab] /\ tab'[t] = IdleTab /\ submissions' = submissions
  BY DEF CrashTab, TabsInv
<1>2. crashes' \in 0..MaxCrashes
  BY CrashAssumption DEF CrashTab, TabsInv, IInv, TypeOK
<1>3. IInv'
  BY <1>2, AccountStep DEF CrashTab, TabsInv, IInv, TypeOK, RowsInv
<1>4. TabInv(tab[t])'
  BY <1>1 DEF TabInv, IdleTab
<1> QED BY <1>1, <1>3, <1>4, IdleIsTab, TabStep DEF CrashTab, TabsInv

\* A step of the syncs, whether or not a press of refresh began one.
LEMMA SyncsInv ==
  ASSUME TabsInv, [Next]_vars, tab' = tab, submissions' \in 0..MaxSubmissions
  PROVE  TabsInv'
<1>1. IInv'
  BY NextInv DEF TabsInv
<1>2. created' = created /\ \A a \in Accounts : acct'[a] = None <=> acct[a] = None
  BY SyncsKeepRows DEF TabsInv
<1>3. \A t \in Tabs : tab[t].old # None => tab[t].old \in Accounts
  BY DEF TabsInv, Tab
<1>4. \A t \in Tabs : TabInv(tab[t])'
  BY <1>2, <1>3 DEF TabsInv, TabInv
<1> QED BY <1>1, <1>2, <1>4 DEF TabsInv

LEMMA NextTabsInv == TabsInv /\ [NextTabs]_allVars => TabsInv'
<1> SUFFICES ASSUME TabsInv, [NextTabs]_allVars PROVE TabsInv'
  OBVIOUS
<1>1. ASSUME NEW t \in Tabs, Settings(t) PROVE TabsInv'
  BY <1>1, ConnectInv, DisconnectInv, RetireInv, CountInv, UpsertInv, DeleteTradesInv,
     ClearSnapshotsInv, BackfillInv, CrashTabInv DEF Settings
<1>2. ASSUME NEW r \in Runs, Refresh(r) PROVE TabsInv'
  <2>1. submissions' \in 0..MaxSubmissions
    BY <1>2, SubmissionsAssumption DEF Refresh, Submit, TabsInv
  <2> QED BY <1>2, <2>1, SyncsInv DEF Refresh, Next
<1>3. CASE Goes /\ UNCHANGED <<tab, submissions>>
  BY <1>3, SyncsInv DEF Next, TabsInv
<1>4. CASE UNCHANGED allVars
  BY <1>4, SyncsInv DEF allVars, vars, TabsInv
<1> QED BY <1>1, <1>2, <1>3, <1>4 DEF NextTabs

\* The invariant of the syncs and of the tabs holds throughout, for any number of tabs.
THEOREM TabsInvariance == SpecTabs => []TabsInv
<1> QED BY InitTabsInv, NextTabsInv, PTL DEF SpecTabs

\* The account rows, the log lines, the runs and the server actions have their types.
THEOREM TabsTypeCorrect == SpecTabs => []TypeOKTabs
<1>1. TabsInv => TypeOKTabs
  BY DEF TabsInv, IInv, TypeOKTabs
<1> QED BY <1>1, TabsInvariance, PTL

(***************************************************************************)
(* The log goes on telling the truth while accounts come and go under the  *)
(* syncs: a run reports on the accounts it set out to read.                *)
(***************************************************************************)
THEOREM LogStaysTrue == SpecTabs => []LogTellsTheTruth
<1>1. TabsInv => LogTellsTheTruth
  BY DEF TabsInv, IInv, LineInv, LogTellsTheTruth
<1> QED BY <1>1, TabsInvariance, PTL

-----------------------------------------------------------------------------
(* What holds of one tab at a time. *)

\* The trader has one settings screen open.
OneTab == \A t, u \in Tabs : t = u

TwoConnections == \A a, b, c \in Connections : a = b \/ b = c \/ a = c

\* No two connections claim the same slot.
OwnSlots == \A a, b \in Connections :
               acct[a].purpose = acct[b].purpose /\ acct[a].purpose # None => a = b

(***************************************************************************)
(* A server action that connects has the slot to itself from the moment it *)
(* has retired the account that was there, and room for one more from the  *)
(* moment it has counted; what it retired stays so until it is done; and   *)
(* if it was alone, there is nobody but the old account and the new one.   *)
(***************************************************************************)
SlotInv(x) ==
  /\ x.pc \in {"count", "upsert"} => x.connecting
  /\ x.connecting => x.old # x.account
  /\ x.connecting /\ x.pc \in {"retire", "count", "upsert"} /\ x.purpose # None =>
        \A b \in Connections : acct[b].purpose = x.purpose =>
           b = x.account \/ (x.pc = "retire" /\ b = x.old)
  /\ x.pc = "upsert" => IsConnection(x.account) \/ \A a, b \in Connections : a = b
  /\ x.old # None /\ x.pc \notin {"idle", "retire"} => ~IsConnection(x.old)
  /\ x.connecting /\ x.pc \in {"delete", "snapshots", "sync"} => IsConnection(x.account)
  /\ x.pc \in {"delete", "snapshots"} => x.wipe
  /\ x.pc = "snapshots" => x.alone
  /\ x.connecting /\ x.wipe /\ x.alone => Connections \subseteq {x.old, x.account}

SlotsInv == TwoConnections /\ OwnSlots /\ \A t \in Tabs : SlotInv(tab[t])

\* The account in a slot that a connection claims is that connection.
LEMMA ClaimedSlot ==
  ASSUME RowsInv, OwnSlots, NEW b \in Connections, acct[b].purpose \in {"swing", "day"}
  PROVE  OccupantOfSlot(Connections, acct[b].purpose) = b
<1>1. For(Connections, acct[b].purpose) = {b}
  BY PurposeAssumption DEF OwnSlots, For
<1>2. OldestOrNone({b}) = b
  BY OldestOrNoneIn
<1> QED BY <1>1, <1>2 DEF OccupantOfSlot, InSwing, InDay

\* Three accounts cannot all be connected, so the two slots show every one that is.
LEMMA SlotsShowAll ==
  ASSUME TabsInv, TwoConnections, OwnSlots
  PROVE  EveryConnectionDrawn
<1> SUFFICES ASSUME NEW a \in Connections
             PROVE  a \in {InSwing(Connections), InDay(Connections)}
  BY DEF EveryConnectionDrawn
<1>0. RowsInv /\ acct[a].purpose \in Purposes \union {None}
  BY DEF TabsInv, IInv, TypeOK, AccountRow, Connections, IsConnection
<1>1. CASE acct[a].purpose # None
  <2>1. acct[a].purpose \in {"swing", "day"}
    BY <1>0, <1>1, PurposeAssumption
  <2> QED BY <1>0, <2>1, ClaimedSlot DEF OccupantOfSlot
<1>2. CASE acct[a].purpose = None
  <2> DEFINE S == IF For(Connections, "swing") # {} THEN For(Connections, "swing")
                  ELSE For(Connections, None)
             D == IF For(Connections, "day") # {} THEN For(Connections, "day")
                  ELSE For(Connections, None) \ {InSwing(Connections)}
  <2>1. S \in SUBSET Connections /\ D \in SUBSET Connections
        /\ InSwing(Connections) = OldestOrNone(S) /\ InDay(Connections) = OldestOrNone(D)
    BY DEF For, InSwing, InDay
  <2>2. a \in For(Connections, None)
    BY <1>2 DEF For
  <2>3. InSwing(Connections) \in S
    BY <1>0, <2>1, <2>2, OldestOrNoneIn
  <2> SUFFICES ASSUME a # InSwing(Connections) PROVE a = InDay(Connections)
    OBVIOUS
  <2>4. InDay(Connections) \in D
    BY <1>0, <2>1, <2>2, OldestOrNoneIn
  <2>5. InDay(Connections) # InSwing(Connections)
    BY <2>3, <2>4, PurposeAssumption DEF For
  <2> QED BY <2>1, <2>3, <2>4, <2>5 DEF TwoConnections
<1> QED BY <1>1, <1>2

\* Sets with one element, as far as counting tells.
LEMMA CountsToOne ==
  ASSUME NEW S, IsFiniteSet(S), Cardinality(S) <= 1
  PROVE  \A x, y \in S : x = y
<1> SUFFICES ASSUME NEW x \in S PROVE S = {x}
  OBVIOUS
<1>1. IsFiniteSet(S \ {x}) /\ Cardinality(S \ {x}) = Cardinality(S) - 1
  BY FS_RemoveElement
<1>2. Cardinality(S \ {x}) \in Nat /\ Cardinality(S) \in Nat
  BY <1>1, FS_CardinalityType
<1>3. Cardinality(S \ {x}) = 0
  BY <1>1, <1>2
<1>4. S \ {x} = {}
  BY <1>1, <1>3, FS_EmptySet
<1> QED BY <1>4

LEMMA ConnectionsFinite == IsFiniteSet(Connections)
BY AccountAssumption, FS_Subset DEF Connections

\* With one tab, what a step of it makes of its own state is all there is to show.
LEMMA OneTabStep ==
  ASSUME OneTab, NEW t \in Tabs, TwoConnections', OwnSlots', SlotInv(tab[t])'
  PROVE  SlotsInv'
BY DEF OneTab, SlotsInv

\* Rows that keep their credentials and their purposes keep the slots as they are.
LEMMA SameSlots ==
  ASSUME TabsInv, TwoConnections, OwnSlots,
         \A a \in Accounts :
            /\ acct'[a] = None <=> acct[a] = None
            /\ acct[a] # None => acct'[a].cred = acct[a].cred
            /\ acct[a] # None => acct'[a].purpose = acct[a].purpose
  PROVE  /\ Connections' = Connections
         /\ \A a \in Accounts : IsConnection(a)' <=> IsConnection(a)
         /\ \A a \in Connections : acct'[a].purpose = acct[a].purpose
         /\ TwoConnections' /\ OwnSlots'
<1>1. /\ \A a \in Accounts : IsConnection(a)' <=> IsConnection(a)
      /\ \A a \in Connections : a \in Accounts /\ acct[a] # None
  BY DEF IsConnection, Connections
<1>2. Connections' = Connections
  BY <1>1 DEF Connections
<1>3. \A a \in Connections : acct'[a].purpose = acct[a].purpose
  BY <1>1
<1> QED BY <1>1, <1>2, <1>3 DEF TwoConnections, OwnSlots

\* ... and so does a tab that leaves them alone.
LEMMA SlotKept ==
  ASSUME TabsInv, SlotsInv, NEW t \in Tabs, tab'[t] = tab[t],
         Connections' = Connections,
         \A a \in Accounts : IsConnection(a)' <=> IsConnection(a),
         \A a \in Connections : acct'[a].purpose = acct[a].purpose
  PROVE  SlotInv(tab[t])'
<1>1. /\ tab[t].account # None => tab[t].account \in Accounts
      /\ tab[t].old # None => tab[t].old \in Accounts
      /\ tab[t].pc # "idle" => tab[t].account \in Accounts
  BY DEF TabsInv, TabInv, Tab
<1>2. tab[t].pc \in TabPCs
  BY DEF TabsInv, Tab
<1> QED BY <1>1, <1>2 DEF SlotsInv, SlotInv, TabPCs

\* A tab that has nothing in hand promises nothing.
LEMMA IdleSlot ==
  ASSUME NEW t \in Tabs, tab'[t] = IdleTab
  PROVE  SlotInv(tab[t])'
BY NoneAssumption DEF SlotInv, IdleTab

\* What connectMt5Action finds in the slot is all that claims it.
LEMMA ConnectSlots ==
  ASSUME OneTab, TabsInv, SlotsInv, NEW t \in Tabs, NEW a \in Accounts,
         NEW purpose \in Purposes \union {None}, Connect(t, a, purpose)
  PROVE  SlotsInv'
<1> DEFINE old == InThisSlot(purpose)
           replaces == old \notin {None, a}
           x == [pc |-> IF replaces THEN "retire" ELSE "count", account |-> a,
                 purpose |-> purpose, old |-> IF replaces THEN old ELSE None,
                 wipe |-> replaces, alone |-> Cardinality(Connections) = 1,
                 connecting |-> TRUE]
<1>1. UNCHANGED <<acct, created, book, snapshots>> /\ tab'[t] = x /\ RowsInv
  BY DEF Connect, vars, TabsInv, IInv
<1>2. old \in Connections \union {None} /\ a # None
  BY <1>1, SlotTypes, NoneAssumption
<1>3. /\ x.account = a /\ x.purpose = purpose /\ x.connecting /\ x.wipe = replaces
      /\ x.alone = (Cardinality(Connections) = 1)
      /\ x.pc = IF replaces THEN "retire" ELSE "count"
      /\ x.old = IF replaces THEN old ELSE None
  OBVIOUS
<1>4. ASSUME purpose # None, NEW b \in Connections, acct[b].purpose = purpose
      PROVE  b = a \/ (replaces /\ b = old)
  <2>1. purpose \in {"swing", "day"}
    BY <1>4, PurposeAssumption
  <2>2. old = b
    BY <1>1, <1>4, <2>1, ClaimedSlot DEF SlotsInv, InThisSlot
  <2> QED BY <2>2, NoneAssumption DEF Connections
<1>5. ASSUME replaces, Cardinality(Connections) = 1 PROVE Connections \subseteq {old, a}
  BY <1>2, <1>5, ConnectionsFinite, CountsToOne
<1>6. Connections' = Connections /\ TwoConnections' /\ OwnSlots'
      /\ \A b \in Accounts : IsConnection(b)' <=> IsConnection(b)
  BY <1>1 DEF SlotsInv, TwoConnections, OwnSlots, Connections, IsConnection
<1> HIDE DEF x, old
<1>7. SlotInv(tab[t])'
  BY <1>1, <1>2, <1>3, <1>4, <1>5, <1>6 DEF SlotInv
<1> QED BY <1>6, <1>7, OneTabStep

LEMMA DisconnectSlots ==
  ASSUME OneTab, TabsInv, SlotsInv, NEW t \in Tabs, NEW a \in Accounts,
         NEW removeData \in BOOLEAN, Disconnect(t, a, removeData)
  PROVE  SlotsInv'
<1>1. acct' = acct /\ tab'[t].pc = "retire" /\ ~tab'[t].connecting
  BY DEF Disconnect, vars, TabsInv, IdleTab
<1>2. TwoConnections' /\ OwnSlots'
  BY <1>1, SameSlots DEF SlotsInv
<1>3. SlotInv(tab[t])'
  BY <1>1 DEF SlotInv
<1> QED BY <1>2, <1>3, OneTabStep

LEMMA RetireSlots ==
  ASSUME OneTab, TabsInv, SlotsInv, NEW t \in Tabs, Retire(t)
  PROVE  SlotsInv'
<1>0. PICK x \in Tab : x = tab[t]
  BY DEF TabsInv
<1>1. /\ x.old \in Accounts /\ ~acct'[x.old].cred
      /\ \A a \in Accounts \ {x.old} : acct'[a] = acct[a]
  BY <1>0, Retiring
<1>2. /\ Connections' = Connections \ {x.old} /\ ~IsConnection(x.old)'
      /\ \A a \in Connections' : acct'[a] = acct[a]
  <2>1. /\ ~IsConnection(x.old)'
        /\ \A a \in Accounts \ {x.old} : IsConnection(a)' <=> IsConnection(a)
    BY <1>1 DEF IsConnection
  <2>2. Connections' = Connections \ {x.old}
    BY <2>1 DEF Connections
  <2> QED BY <1>1, <2>1, <2>2 DEF Connections
<1>3. TwoConnections' /\ OwnSlots'
  BY <1>2 DEF SlotsInv, TwoConnections, OwnSlots
<1>4. x.pc = "retire" /\ SlotInv(x)
  BY <1>0 DEF Retire, SlotsInv
<1>5. tab'[t] = IF x.connecting THEN [x EXCEPT !.pc = "count"]
                ELSE IF x.wipe THEN [x EXCEPT !.pc = "delete"] ELSE IdleTab
  BY <1>0 DEF Retire, TabsInv
<1>6. CASE x.connecting
  <2>1. tab'[t] = [x EXCEPT !.pc = "count"]
    BY <1>5, <1>6
  <2>2. /\ tab'[t].pc = "count" /\ tab'[t].connecting /\ tab'[t].old = x.old
        /\ tab'[t].account = x.account /\ tab'[t].purpose = x.purpose
        /\ tab'[t].wipe = x.wipe /\ tab'[t].alone = x.alone
    BY <1>4, <1>6, <2>1 DEF Tab
  <2>3. SlotInv(tab[t])'
    BY <1>2, <1>4, <1>6, <2>2 DEF SlotInv
  <2> QED BY <1>3, <2>3, OneTabStep
<1>7. CASE ~x.connecting /\ x.wipe
  <2>1. tab'[t].pc = "delete" /\ ~tab'[t].connecting /\ tab'[t].old = x.old /\ tab'[t].wipe
    BY <1>4, <1>5, <1>7 DEF Tab
  <2>2. SlotInv(tab[t])'
    BY <1>2, <2>1 DEF SlotInv
  <2> QED BY <1>3, <2>2, OneTabStep
<1>8. CASE ~x.connecting /\ ~x.wipe
  BY <1>3, <1>5, <1>8, IdleSlot, OneTabStep
<1> QED BY <1>6, <1>7, <1>8

LEMMA CountSlots ==
  ASSUME OneTab, TabsInv, SlotsInv, NEW t \in Tabs, Count(t)
  PROVE  SlotsInv'
<1> DEFINE x == tab[t]
           full == ~IsConnection(x.account) /\ Cardinality(Connections) >= MAX_MT5_ACCOUNTS
<1>1. acct' = acct /\ x.pc = "count" /\ x \in Tab /\ SlotInv(x)
      /\ tab'[t] = IF full THEN IdleTab ELSE [x EXCEPT !.pc = "upsert"]
  BY DEF Count, TabsInv, SlotsInv
<1>2. Connections' = Connections /\ TwoConnections' /\ OwnSlots'
      /\ \A a : IsConnection(a)' <=> IsConnection(a)
  BY <1>1 DEF SlotsInv, TwoConnections, OwnSlots, Connections, IsConnection
<1>3. CASE full
  BY <1>1, <1>2, <1>3, IdleSlot, OneTabStep
<1>4. CASE ~full
  <2>1. /\ tab'[t].pc = "upsert" /\ tab'[t].connecting = x.connecting /\ tab'[t].old = x.old
        /\ tab'[t].account = x.account /\ tab'[t].purpose = x.purpose
        /\ tab'[t].wipe = x.wipe /\ tab'[t].alone = x.alone
    BY <1>1, <1>4 DEF Tab
  <2>2. IsConnection(x.account) \/ \A a, b \in Connections : a = b
    <3> SUFFICES ASSUME ~IsConnection(x.account) PROVE \A a, b \in Connections : a = b
      OBVIOUS
    <3>1. Cardinality(Connections) \in Nat
      BY ConnectionsFinite, FS_CardinalityType
    <3>2. Cardinality(Connections) <= 1
      BY <1>4, <3>1 DEF MAX_MT5_ACCOUNTS
    <3> QED BY <3>2, ConnectionsFinite, CountsToOne
  <2> HIDE DEF x
  <2>3. SlotInv(tab[t])'
    BY <1>1, <1>2, <2>1, <2>2 DEF SlotInv
  <2> QED BY <1>2, <2>3, OneTabStep
<1> QED BY <1>3, <1>4

LEMMA UpsertSlots ==
  ASSUME OneTab, TabsInv, SlotsInv, NEW t \in Tabs, Upsert(t)
  PROVE  SlotsInv'
<1>0. PICK x \in Tab, a \in Accounts : x = tab[t] /\ a = x.account
  BY DEF Upsert, TabsInv, TabInv
<1>1. /\ a \in Accounts /\ acct'[a] # None /\ acct'[a].cred /\ acct'[a].purpose = x.purpose
      /\ \A b \in Accounts \ {a} : acct'[b] = acct[b]
  BY <1>0, Upserting, RowAssumption
<1>2. x.pc = "upsert" /\ SlotInv(x)
      /\ tab'[t] = [x EXCEPT !.pc = IF x.wipe THEN "delete" ELSE "sync"]
  BY <1>0 DEF Upsert, TabsInv, SlotsInv
<1>3. /\ Connections' = Connections \union {a} /\ IsConnection(a)'
      /\ \A b \in Accounts \ {a} : IsConnection(b)' <=> IsConnection(b)
      /\ \A b \in Connections' : b # a => b \in Connections /\ acct'[b] = acct[b]
  <2>1. /\ IsConnection(a)'
        /\ \A b \in Accounts \ {a} : IsConnection(b)' <=> IsConnection(b)
    BY <1>1 DEF IsConnection
  <2>2. Connections' = Connections \union {a}
    BY <1>1, <2>1 DEF Connections
  <2> QED BY <1>1, <2>1, <2>2 DEF Connections
<1>4. /\ tab'[t].pc = IF x.wipe THEN "delete" ELSE "sync"
      /\ tab'[t].connecting = x.connecting
      /\ tab'[t].account = a /\ tab'[t].old = x.old
      /\ tab'[t].wipe = x.wipe /\ tab'[t].alone = x.alone
  BY <1>0, <1>2 DEF Tab
<1>5. x.old # None => x.old \in Accounts
  BY DEF Tab
<1>6. IsConnection(a) <=> a \in Connections
  BY <1>1 DEF Connections
<1>7. TwoConnections'
  BY <1>0, <1>2, <1>3, <1>6 DEF SlotsInv, TwoConnections, SlotInv
<1>8. OwnSlots'
  BY <1>0, <1>1, <1>2, <1>3 DEF SlotsInv, OwnSlots, SlotInv
<1>9. SlotInv(tab[t])'
  BY <1>0, <1>2, <1>3, <1>4, <1>5 DEF SlotInv
<1> QED BY <1>7, <1>8, <1>9, OneTabStep

LEMMA DeleteSlots ==
  ASSUME OneTab, TabsInv, SlotsInv, NEW t \in Tabs, DeleteTrades(t) \/ ClearSnapshots(t)
  PROVE  SlotsInv'
<1>0. PICK x \in Tab : x = tab[t]
  BY DEF TabsInv
<1>1. acct' = acct /\ x.pc \in {"delete", "snapshots"} /\ SlotInv(x)
  BY <1>0 DEF DeleteTrades, ClearSnapshots, SlotsInv
<1>2. Connections' = Connections /\ TwoConnections' /\ OwnSlots'
      /\ \A a : IsConnection(a)' <=> IsConnection(a)
  BY <1>1 DEF SlotsInv, TwoConnections, OwnSlots, Connections, IsConnection
<1>3. PICK y \in {IdleTab, [x EXCEPT !.pc = "snapshots"], [x EXCEPT !.pc = "sync"]} :
        tab'[t] = y /\ (y.pc = "snapshots" => x.alone)
  <2>1. [x EXCEPT !.pc = "sync"].pc = "sync" /\ IdleTab.pc = "idle"
    BY DEF Tab, IdleTab
  <2>2. tab'[t] \in {IdleTab, [x EXCEPT !.pc = "snapshots"], [x EXCEPT !.pc = "sync"]}
        /\ (x.alone \/ tab'[t] \in {IdleTab, [x EXCEPT !.pc = "sync"]})
    BY <1>0, <1>1 DEF DeleteTrades, ClearSnapshots, TabsInv
  <2> QED BY <2>1, <2>2
<1>4. CASE y = IdleTab
  BY <1>2, <1>3, <1>4, IdleSlot, OneTabStep
<1>5. CASE y # IdleTab
  <2>1. /\ tab'[t].pc \in {"snapshots", "sync"} /\ tab'[t].connecting = x.connecting
        /\ tab'[t].account = x.account /\ tab'[t].old = x.old
        /\ tab'[t].wipe = x.wipe /\ tab'[t].alone = x.alone
    BY <1>3, <1>5 DEF Tab
  <2>2. tab'[t].pc = "snapshots" => x.alone
    BY <1>3, <1>5 DEF Tab
  <2>3. SlotInv(tab[t])'
    BY <1>1, <1>2, <2>1, <2>2 DEF SlotInv
  <2> QED BY <1>2, <2>3, OneTabStep
<1> QED BY <1>4, <1>5

LEMMA EndSlots ==
  ASSUME OneTab, TabsInv, SlotsInv, NEW t \in Tabs, Backfill(t) \/ CrashTab(t)
  PROVE  SlotsInv'
<1>1. acct' = acct /\ tab'[t] = IdleTab
  BY DEF Backfill, CrashTab, TabsInv, ReadAccounts, vars
<1>2. TwoConnections' /\ OwnSlots'
  BY <1>1, SameSlots DEF SlotsInv
<1> QED BY <1>1, <1>2, IdleSlot, OneTabStep

LEMMA SyncsSlots ==
  ASSUME TabsInv, SlotsInv, [Next]_vars, tab' = tab
  PROVE  SlotsInv'
<1>1. \A a \in Accounts : /\ acct'[a] = None <=> acct[a] = None
                          /\ acct[a] # None => acct'[a].cred = acct[a].cred
                          /\ acct[a] # None => acct'[a].purpose = acct[a].purpose
  BY SyncsKeepRows DEF TabsInv
<1>2. /\ Connections' = Connections
      /\ \A a \in Accounts : IsConnection(a)' <=> IsConnection(a)
      /\ \A a \in Connections : acct'[a].purpose = acct[a].purpose
      /\ TwoConnections' /\ OwnSlots'
  BY <1>1, SameSlots DEF SlotsInv
<1>3. \A t \in Tabs : SlotInv(tab[t])'
  BY <1>2, SlotKept
<1> QED BY <1>2, <1>3 DEF SlotsInv

LEMMA InitSlots == InitTabs => SlotsInv
<1> SUFFICES ASSUME InitTabs PROVE SlotsInv
  OBVIOUS
<1>1. Connections = {}
  BY DEF InitTabs, Connections, IsConnection
<1>2. \A t \in Tabs : SlotInv(tab[t])
  BY NoneAssumption DEF InitTabs, SlotInv, IdleTab
<1> QED BY <1>1, <1>2 DEF SlotsInv, TwoConnections, OwnSlots

LEMMA NextSlots == OneTab /\ TabsInv /\ SlotsInv /\ [NextTabs]_allVars => SlotsInv'
<1> SUFFICES ASSUME OneTab, TabsInv, SlotsInv, [NextTabs]_allVars PROVE SlotsInv'
  OBVIOUS
<1>1. ASSUME NEW t \in Tabs, Settings(t) PROVE SlotsInv'
  BY <1>1, ConnectSlots, DisconnectSlots, RetireSlots, CountSlots, UpsertSlots, DeleteSlots,
     EndSlots DEF Settings
<1>2. ASSUME NEW r \in Runs, Refresh(r) PROVE SlotsInv'
  BY <1>2, SyncsSlots DEF Refresh, Next
<1>3. CASE Goes /\ UNCHANGED <<tab, submissions>>
  BY <1>3, SyncsSlots DEF Next
<1>4. CASE UNCHANGED allVars
  BY <1>4, SyncsSlots DEF allVars, vars
<1> QED BY <1>1, <1>2, <1>3, <1>4 DEF NextTabs

\* With one tab, the slots keep their invariant throughout.
THEOREM SlotsInvariance ==
  ASSUME OneTab
  PROVE  SpecTabs => [](TabsInv /\ SlotsInv)
<1>1. InitTabs => TabsInv /\ SlotsInv
  BY InitTabsInv, InitSlots
<1>2. (TabsInv /\ SlotsInv) /\ [NextTabs]_allVars => (TabsInv /\ SlotsInv)'
  BY NextTabsInv, NextSlots
<1> QED BY <1>1, <1>2, PTL DEF SpecTabs

(***************************************************************************)
(* With one tab the settings screen draws every connection, and there are  *)
(* never three: findReplacedAccount, the count and the upsert see to it,   *)
(* though any of them may be the last thing the action does.               *)
(***************************************************************************)
THEOREM ConnectionsAreDrawn ==
  ASSUME OneTab
  PROVE  SpecTabs => []EveryConnectionDrawn
<1>1. TabsInv /\ SlotsInv => EveryConnectionDrawn
  BY SlotsShowAll DEF SlotsInv
<1> QED BY <1>1, SlotsInvariance, PTL

(***************************************************************************)
(* With one tab, trades are only deleted for an account that has been      *)
(* disconnected and, if it was replaced, whose replacement is connected.   *)
(***************************************************************************)
THEOREM BooksOutliveTheirAccounts ==
  ASSUME OneTab
  PROVE  SpecTabs => OnlyRetiredBooksGo
<1>1. TabsInv /\ SlotsInv /\ [NextTabs]_allVars =>
        [\A a \in book \ book' :
           /\ ~IsConnection(a)
           /\ \E t \in Tabs : /\ tab[t].old = a
                              /\ tab[t].connecting => IsConnection(tab[t].account)]_allVars
  <2> SUFFICES ASSUME TabsInv, SlotsInv, NextTabs, NEW a \in book \ book'
               PROVE  /\ ~IsConnection(a)
                      /\ \E t \in Tabs : /\ tab[t].old = a
                                         /\ tab[t].connecting => IsConnection(tab[t].account)
    OBVIOUS
  <2>1. ASSUME [Next]_vars PROVE FALSE
    BY <2>1, SyncsKeepRows DEF TabsInv
  <2>2. PICK t \in Tabs : DeleteTrades(t)
    <3>1. ~Goes /\ \A r \in Runs : ~Refresh(r)
      BY <2>1 DEF Next, Refresh
    <3>2. PICK t \in Tabs : Settings(t)
      BY <3>1 DEF NextTabs
    <3>3. DeleteTrades(t)
      BY <2>1, <3>2 DEF Settings, Connect, Disconnect, Retire, Count, Upsert, ClearSnapshots,
                        Backfill, CrashTab, Next, vars
    <3> QED BY <3>3
  <2>3. tab[t].old = a /\ tab[t].pc = "delete" /\ TabInv(tab[t]) /\ SlotInv(tab[t])
    BY <2>2 DEF DeleteTrades, TabsInv, SlotsInv
  <2> QED BY <2>3 DEF TabInv, SlotInv
<1> QED BY <1>1, SlotsInvariance, PTL DEF SpecTabs, OnlyRetiredBooksGo

(***************************************************************************)
(* With one tab, replacing an account clears the daily points only if they *)
(* can hold no connection's balances but those of the new account itself.  *)
(***************************************************************************)
THEOREM BalancesOfTheOtherSlotStay ==
  ASSUME OneTab
  PROVE  SpecTabs => ReplacingKeepsBalances
<1>1. TabsInv /\ SlotsInv =>
        \A t \in Tabs :
           tab[t].pc = "snapshots" /\ tab[t].connecting /\ snapshots # {} /\ snapshots' = {}
             => \A a \in snapshots : IsConnection(a) => tab[t].account = a
  <2> SUFFICES ASSUME TabsInv, SlotsInv, NEW t \in Tabs, tab[t].pc = "snapshots",
                      tab[t].connecting, NEW a \in snapshots, IsConnection(a)
               PROVE  tab[t].account = a
    OBVIOUS
  <2>1. SlotInv(tab[t]) /\ TabInv(tab[t]) /\ a \in Connections
    BY DEF SlotsInv, TabsInv, IInv, TypeOK, Connections
  <2>2. tab[t].old # a /\ a \in {tab[t].old, tab[t].account}
    BY <2>1, NoneAssumption DEF SlotInv, TabInv, Connections
  <2> QED BY <2>2
<1> QED BY <1>1, SlotsInvariance, PTL DEF SpecTabs, ReplacingKeepsBalances
=============================================================================

---------------------------- MODULE Mt5Accounts ----------------------------
(***************************************************************************)
(* The trader's two slots: connecting, replacing and disconnecting an MT5  *)
(* account (settings/mt5-actions.ts, db/mt5-accounts.ts, mt5/slots.ts),    *)
(* composed with the syncs of SyncRuns that go on beside them.  Every      *)
(* await of the two server actions is a step of its own, and the action    *)
(* may die between any two.                                                *)
(***************************************************************************)
EXTENDS SyncRuns, Sequences

CONSTANTS Tabs,           \* server actions on the settings screen that may be in flight at once
          MaxSubmissions  \* bound on the submissions and refreshes

ASSUME SubmissionsAssumption == MaxSubmissions \in Nat

VARIABLES tab,            \* the state of each server action
          submissions     \* how many there have been

allVars == <<acct, created, book, orphans, snapshots, log, run, crashes, tab, submissions>>

MAX_MT5_ACCOUNTS == 2

TabPCs == {"idle", "retire", "count", "upsert", "delete", "snapshots", "sync"}

(***************************************************************************)
(* account: the one the action is about; purpose: the slot it goes to;     *)
(* old: the account whose row is being retired; wipe: its trades are to be *)
(* deleted; alone: no other account was connected when the action looked;  *)
(* connecting: it is connectMt5Action rather than disconnectMt5Action.     *)
(***************************************************************************)
Tab == [pc : TabPCs, account : Accounts \union {None}, purpose : Purposes \union {None},
        old : Accounts \union {None}, wipe : BOOLEAN, alone : BOOLEAN, connecting : BOOLEAN]

IdleTab == [pc |-> "idle", account |-> None, purpose |-> None, old |-> None,
            wipe |-> FALSE, alone |-> FALSE, connecting |-> FALSE]

InitTabs == /\ acct = [a \in Accounts |-> None] /\ created = <<>>
            /\ book = {} /\ snapshots = {} /\ orphans = TRUE
            /\ log = [l \in Logs |-> NoLine]
            /\ run = [r \in Runs |-> IdleRun]
            /\ crashes = 0
            /\ tab = [t \in Tabs |-> IdleTab]
            /\ submissions = 0

\* Another submission of a form, or press of refresh.
Submit == submissions < MaxSubmissions /\ submissions' = submissions + 1

-----------------------------------------------------------------------------
(* The two slots, in drawing order: accountsBySlot. *)

For(S, purpose) == {a \in S : acct[a].purpose = purpose}
OldestOrNone(S) == IF S = {} THEN None ELSE Oldest(S)

\* An account with no purpose takes the first slot that nothing claims.
InSwing(S) == OldestOrNone(IF For(S, "swing") # {} THEN For(S, "swing") ELSE For(S, None))
InDay(S)   == OldestOrNone(IF For(S, "day") # {} THEN For(S, "day")
                           ELSE For(S, None) \ {InSwing(S)})

OccupantOfSlot(S, purpose) == IF purpose = "swing" THEN InSwing(S) ELSE InDay(S)

\* What connectMt5Action replaces: with no purpose submitted, the first connection.
InThisSlot(purpose) == IF purpose = None THEN OldestOrNone(Connections)
                       ELSE OccupantOfSlot(Connections, purpose)

-----------------------------------------------------------------------------
(* connectMt5Action. *)

\* Mutants: the account in the slot is left connected; the other slot is not looked at.
Connect_Beside(t, a, purpose) ==
  LET old == InThisSlot(purpose)
      replaces == old \notin {None, a}
  IN  /\ tab[t].pc = "idle" /\ Submit
      /\ tab' = [tab EXCEPT ![t] =
           [pc |-> "count", account |-> a, purpose |-> purpose,
            old |-> IF replaces THEN old ELSE None, wipe |-> replaces,
            alone |-> Cardinality(Connections) = 1, connecting |-> TRUE]]
      /\ UNCHANGED vars

Connect_ClearsAll(t, a, purpose) ==
  LET old == InThisSlot(purpose)
      replaces == old \notin {None, a}
  IN  /\ tab[t].pc = "idle" /\ Submit
      /\ tab' = [tab EXCEPT ![t] =
           [pc |-> IF replaces THEN "retire" ELSE "count", account |-> a, purpose |-> purpose,
            old |-> IF replaces THEN old ELSE None, wipe |-> replaces,
            alone |-> TRUE, connecting |-> TRUE]]
      /\ UNCHANGED vars

(***************************************************************************)
(* The credentials were verified; the slot is read.  A submission that     *)
(* would replace another account, and was not confirmed, only asks.        *)
(***************************************************************************)
Connect(t, a, purpose) ==
  LET old == InThisSlot(purpose)
      replaces == old \notin {None, a}
  IN  /\ tab[t].pc = "idle" /\ Submit
      /\ tab' = [tab EXCEPT ![t] =
           [pc |-> IF replaces THEN "retire" ELSE "count", account |-> a, purpose |-> purpose,
            old |-> IF replaces THEN old ELSE None, wipe |-> replaces,
            alone |-> Cardinality(Connections) = 1, connecting |-> TRUE]]
      /\ UNCHANGED vars

\* Mutant: the book goes before the new account is connected.
Retire_ThenDeletes(t) ==
  /\ tab[t].pc = "retire"
  /\ acct' = [acct EXCEPT ![tab[t].old].cred = FALSE, ![tab[t].old].status = "disconnected"]
  /\ tab' = [tab EXCEPT ![t] = IF @.wipe THEN [@ EXCEPT !.pc = "delete"] ELSE IdleTab]
  /\ UNCHANGED <<created, book, orphans, snapshots, log, run, crashes, submissions>>

\* disconnectMt5Account: the row stays, the credential goes.
Retire(t) ==
  /\ tab[t].pc = "retire"
  /\ acct' = [acct EXCEPT ![tab[t].old].cred = FALSE, ![tab[t].old].status = "disconnected"]
  /\ tab' = [tab EXCEPT ![t] =
               IF @.connecting THEN [@ EXCEPT !.pc = "count"]
               ELSE IF @.wipe THEN [@ EXCEPT !.pc = "delete"] ELSE IdleTab]
  /\ UNCHANGED <<created, book, orphans, snapshots, log, run, crashes, submissions>>

\* connectMt5Account counts first: only an account that is not connected already is refused.
Count(t) ==
  /\ tab[t].pc = "count"
  /\ tab' = [tab EXCEPT ![t] =
       IF ~IsConnection(@.account) /\ Cardinality(Connections) >= MAX_MT5_ACCOUNTS
       THEN IdleTab ELSE [@ EXCEPT !.pc = "upsert"]]
  /\ UNCHANGED <<acct, created, book, orphans, snapshots, log, run, crashes, submissions>>

\* ... and then upserts, which finds a disconnected row by login and server and revives it.
Upsert(t) ==
  LET a == tab[t].account
  IN  /\ tab[t].pc = "upsert"
      /\ acct' = [acct EXCEPT ![a] = [cred |-> TRUE, status |-> "connected",
                                      purpose |-> tab[t].purpose, currency |-> CurrencyOf[a]]]
      /\ created' = IF acct[a] = None THEN Append(created, a) ELSE created
      /\ tab' = [tab EXCEPT ![t].pc = IF tab[t].wipe THEN "delete" ELSE "sync"]
      /\ UNCHANGED <<book, orphans, snapshots, log, run, crashes, submissions>>

\* deleteTradesForAccount, for the account that was retired.
DeleteTrades(t) ==
  LET x == tab[t]
  IN  /\ x.pc = "delete"
      /\ book' = book \ {x.old}
      /\ tab' = [tab EXCEPT ![t] = IF x.alone THEN [x EXCEPT !.pc = "snapshots"]
                                   ELSE IF x.connecting THEN [x EXCEPT !.pc = "sync"]
                                   ELSE IdleTab]
      /\ UNCHANGED <<acct, created, orphans, snapshots, log, run, crashes, submissions>>

\* deleteAllSnapshots: a point has no account, so it is all of them or none.
ClearSnapshots(t) ==
  /\ tab[t].pc = "snapshots"
  /\ snapshots' = {}
  /\ tab' = [tab EXCEPT ![t] = IF @.connecting THEN [@ EXCEPT !.pc = "sync"] ELSE IdleTab]
  /\ UNCHANGED <<acct, created, book, orphans, log, run, crashes, submissions>>

\* The action ends in a backfill, which another tab may have left nothing to do.  The tab
\* waits for it, and the trader has others.
Backfill(t) ==
  /\ tab[t].pc = "sync"
  /\ \/ \E r \in Runs : ReadAccounts(r)
     \/ Connections = {} /\ UNCHANGED vars
  /\ tab' = [tab EXCEPT ![t] = IdleTab]
  /\ UNCHANGED submissions

(***************************************************************************)
(* disconnectMt5Action.  Only accounts that are connected with no error on *)
(* their last sync count as others.                                        *)
(***************************************************************************)
Disconnect(t, a, removeData) ==
  LET others == {b \in Connections \ {a} : acct[b].status = "connected"}
  IN  /\ tab[t].pc = "idle" /\ Submit
      /\ IsConnection(a)
      /\ tab' = [tab EXCEPT ![t] =
           [IdleTab EXCEPT !.pc = "retire", !.account = a, !.old = a, !.wipe = removeData,
                           !.alone = (others = {})]]
      /\ UNCHANGED vars

\* The server action dies, or the database refuses a write.
CrashTab(t) ==
  /\ tab[t].pc # "idle" /\ crashes < MaxCrashes
  /\ crashes' = crashes + 1
  /\ tab' = [tab EXCEPT ![t] = IdleTab]
  /\ UNCHANGED <<acct, created, book, orphans, snapshots, log, run, submissions>>

Settings(t) == \/ \E a \in Accounts, purpose \in Purposes \union {None} : Connect(t, a, purpose)
               \/ \E a \in Accounts, removeData \in BOOLEAN : Disconnect(t, a, removeData)
               \/ Retire(t)
               \/ Count(t)
               \/ Upsert(t)
               \/ DeleteTrades(t)
               \/ ClearSnapshots(t)
               \/ Backfill(t)
               \/ CrashTab(t)

\* refreshSyncAction, from any page.
Refresh(r) == ReadAccounts(r) /\ Submit /\ UNCHANGED tab

NextTabs == \/ Goes /\ UNCHANGED <<tab, submissions>>
            \/ \E r \in Runs : Refresh(r)
            \/ \E t \in Tabs : Settings(t)

SpecTabs == InitTabs /\ [][NextTabs]_allVars

-----------------------------------------------------------------------------
(* Properties. *)

\* The type invariant: that of the syncs, and the server actions have their type.
TypeOKTabs == TypeOK /\ tab \in [Tabs -> Tab] /\ submissions \in 0..MaxSubmissions

(***************************************************************************)
(* With one tab, every connection is drawn in one of the two slots of the  *)
(* settings screen: none is "connected, syncing, counted against the limit *)
(* and drawn nowhere at all".  An action that died half-way included.      *)
(* So with one tab there are never more than two.                          *)
(***************************************************************************)
EveryConnectionDrawn == Connections \subseteq {InSwing(Connections), InDay(Connections)}

(***************************************************************************)
(* A trade book is deleted only once its account is no longer a connection *)
(* (the next sync would import it again) and, when the account is being    *)
(* replaced, once its replacement is one (until then the slot's history    *)
(* has to be there for a trader who must connect again).                   *)
(***************************************************************************)
OnlyRetiredBooksGo ==
  [][\A a \in book \ book' :
       /\ ~IsConnection(a)
       /\ \E t \in Tabs : /\ tab[t].old = a
                          /\ tab[t].connecting => IsConnection(tab[t].account)]_allVars

\* Disconnecting is durable: "a disconnected account cannot be synced", so nothing can put
\* back the rows that went with it.
OnlyConnectionsAreSynced == [][book' \ book \subseteq Connections]_allVars

(***************************************************************************)
(* Replacing the account of one slot does not take the balance history of  *)
(* the account connected in the other one.                                 *)
(***************************************************************************)
ReplacingKeepsBalances ==
  [][\A t \in Tabs :
       tab[t].pc = "snapshots" /\ tab[t].connecting /\ snapshots # {} /\ snapshots' = {}
         => \A a \in snapshots : IsConnection(a) => tab[t].account = a]_allVars

=============================================================================

------------------------------ MODULE Terminal ------------------------------
(***************************************************************************)
(* The life of one trader's MetaApi terminal (mt5/metaapi/provider.ts)     *)
(* under the syncs and verifications of one server process: it is found or *)
(* created, deployed, waited for, read and undeployed again.  A call is a  *)
(* run of syncOneAccount or of verify; its legs are the provider methods   *)
(* it calls, two of them at once (Promise.all), and every await of a leg   *)
(* is a step of its own.                                                   *)
(*                                                                         *)
(* No caller hands the provider an account id: recordSyncSuccess can store *)
(* one and is never given one, so every leg resolves through the memo.     *)
(***************************************************************************)
EXTENDS Naturals, FiniteSets

CONSTANTS Calls,        \* syncs and verifications, each made at most once
          Ids,          \* the registrations MetaApi will accept
          None,
          ReadyTimeout, \* polls that fit in readyTimeoutMs
          KeepDeployed, \* METAAPI_KEEP_DEPLOYED
          MaxTroubles   \* bound on failed requests and terminals going down

\* The provider methods a call uses.
Legs == {"state", "deals", "specs", "release"}

ASSUME IdsAssumption     == None \notin Ids
ASSUME NoneAssumption    == None \notin Calls \X Legs
ASSUME TimeoutAssumption == ReadyTimeout \in Nat /\ MaxTroubles \in Nat
ASSUME KeepAssumption    == KeepDeployed \in BOOLEAN

VARIABLES terminal,     \* what MetaApi says of each registration
          memo,         \* the leg whose provisioning `resolved` remembers, or None
          leg,          \* the provider methods of each call
          call,         \* the callers
          troubles,     \* how much has gone wrong at MetaApi
          overlapped    \* history: two calls have been under way at once

vars == <<terminal, memo, leg, call, troubles, overlapped>>

(***************************************************************************)
(* "stopped" is every state that waitUntilReady answers with a deploy,     *)
(* "starting" is DEPLOYING, or DEPLOYED and not yet CONNECTED; "readable"  *)
(* is "connected" once the client API has caught up with the provisioning  *)
(* API, which until then answers 504.                                      *)
(***************************************************************************)
Statuses == {"absent", "stopped", "starting", "connected", "readable"}

Registered == {i \in Ids : terminal[i] # "absent"}

(***************************************************************************)
(* find, create and settle are the steps of provisionAccount; wait is the  *)
(* waitUntilReady of readableAccountId.  on: whose provisioning the leg    *)
(* awaits; id: the registration it got; polls: how many fit before the     *)
(* deadline; asked: whether it has sent a deploy, or is about to; result:  *)
(* what the provisioning it started itself came to.                        *)
(***************************************************************************)
LegPCs == {"idle", "find", "create", "settle", "await", "wait", "read", "undeploy",
           "done", "failed"}

\* Where a leg is in provisionAccount.
Provisions == {"find", "create", "settle"}

Leg == [pc : LegPCs, on : (Calls \X Legs) \union {None}, id : Ids \union {None},
        polls : 0..ReadyTimeout, asked : {"no", "now", "yes"},
        result : {"none", "pending", "failed", "ok"}]

IdleLeg == [pc |-> "idle", on |-> None, id |-> None, polls |-> 0, asked |-> "no",
            result |-> "none"]

Call == [pc : {"idle", "fetch", "price", "release", "over"},
         kind : {"sync", "verify"}, ok : BOOLEAN]

\* The registration that the next account to be created gets.
Free(t) == CHOOSE i \in Ids : t[i] = "absent"

\* Earlier calls may have registered the account, and left it stopped or running.
Nothing == [i \in Ids |-> "absent"]
Init == /\ terminal \in {[Nothing EXCEPT ![Free(Nothing)] = s] :
                            s \in {"absent", "stopped", "readable"}}
        /\ memo = None
        /\ leg = [c \in Calls |-> [l \in Legs |-> IdleLeg]]
        /\ call = [c \in Calls |-> [pc |-> "idle", kind |-> "sync", ok |-> FALSE]]
        /\ troubles = 0
        /\ overlapped = FALSE

Ended(c, l) == leg[c][l].pc \in {"done", "failed"}

\* A leg goes on after its caller has given up on it: Promise.all does not stop the other.
Busy(c) == \/ call[c].pc \notin {"idle", "over"}
           \/ \E l \in Legs : leg[c][l].pc # "idle" /\ ~Ended(c, l)

Quiet == \A c \in Calls : ~Busy(c)

Trouble == troubles < MaxTroubles /\ troubles' = troubles + 1

-----------------------------------------------------------------------------
(* The provider. *)

\* A leg as resolveAccountId leaves it when the memo holds m, and what it leaves in the memo.
Provisioning == [IdleLeg EXCEPT !.pc = "find", !.polls = ReadyTimeout,
                                !.result = "pending"]
Resolving(m) == IF m = None THEN Provisioning
                            ELSE [IdleLeg EXCEPT !.pc = "await", !.on = m]
MemoAfter(c, l, m) == IF m = None THEN <<c, l>> ELSE m

\* The leg r once it goes on to pc with registration i and polls to spend.
GoesOn(r, pc, i, polls) == [IdleLeg EXCEPT !.pc = pc, !.id = i, !.polls = polls,
                                           !.result = r.result]

\* The leg r once it has ended: only what its provisioning came to is still of use.
Ends(r, pc) == GoesOn(r, pc, IF r.result = "ok" THEN r.id ELSE None, 0)

Becomes(c, l, r) == leg' = [leg EXCEPT ![c][l] = r]

\* Mutants: a failed provisioning stays in the memo; it never tells who shares it.
Rejects_Remembers(c, l) == LET r == leg[c][l] IN
  /\ Becomes(c, l, Ends([r EXCEPT !.result = IF @ = "pending" THEN "failed" ELSE @], "failed"))
  /\ memo' = memo

Rejects_TellsNobody(c, l) == /\ Becomes(c, l, Ends(leg[c][l], "failed"))
                             /\ memo' = IF leg[c][l].pc \in Provisions THEN None ELSE memo

\* A rejected provisioning is forgotten, whichever one the memo holds by then.
Rejects(c, l) == LET r == leg[c][l] IN
  IF r.pc \in Provisions
  THEN /\ Becomes(c, l, Ends([r EXCEPT !.result = "failed"], "failed"))
       /\ memo' = None
  ELSE /\ Becomes(c, l, Ends(r, "failed"))
       /\ memo' = memo

\* Mutant: no listed account is recognised as this trader's.
Find_MatchesNothing(c, l) == /\ leg[c][l].pc = "find"
                             /\ Becomes(c, l, [leg[c][l] EXCEPT !.pc = "create"])
                             /\ UNCHANGED <<terminal, memo, call, troubles, overlapped>>

\* findAccount.
Find(c, l) == LET r == leg[c][l] IN
  /\ r.pc = "find"
  /\ IF Registered = {} THEN Becomes(c, l, [r EXCEPT !.pc = "create"])
     ELSE \E i \in Registered : Becomes(c, l, [r EXCEPT !.pc = "settle", !.id = i])
  /\ UNCHANGED <<terminal, memo, call, troubles, overlapped>>

\* createAccount, answered 201: the account is registered and starts.
Create(c, l) == LET r == leg[c][l] IN
  /\ r.pc = "create"
  /\ Registered # Ids
  /\ terminal' = [terminal EXCEPT ![Free(terminal)] = "starting"]
  /\ Becomes(c, l, [r EXCEPT !.pc = "settle", !.id = Free(terminal)])
  /\ UNCHANGED <<memo, call, troubles, overlapped>>

\* Mutant: a deadline that every poll sets again.
GivesUpOrSleeps_Renewed(c, l, r) == Becomes(c, l, [r EXCEPT !.polls = ReadyTimeout])
                                    /\ memo' = memo

\* Out of time, or asleep until the next poll.
GivesUpOrSleeps(c, l, r) ==
  IF r.polls = 0 THEN Rejects(c, l)
  ELSE /\ Becomes(c, l, [r EXCEPT !.polls = @ - 1])
       /\ memo' = memo

\* createAccount, answered 202: the broker's settings are still being detected.
Detecting(c, l) == /\ leg[c][l].pc = "create"
                   /\ GivesUpOrSleeps(c, l, leg[c][l])
                   /\ UNCHANGED <<terminal, call, troubles, overlapped>>

\* createAccount registered the account and the answer was lost.
LostAnswer(c, l) == /\ leg[c][l].pc = "create"
                    /\ Trouble
                    /\ Registered # Ids
                    /\ terminal' = [terminal EXCEPT ![Free(terminal)] = "starting"]
                    /\ Rejects(c, l)
                    /\ UNCHANGED <<call, overlapped>>

\* Mutant: whoever shares a provisioning reads at once, as before readableAccountId.
Await_ReadsAtOnce(c, l) == LET r == leg[c][l]  o == leg[r.on[1]][r.on[2]] IN
  /\ r.pc = "await"
  /\ o.result \in {"ok", "failed"}
  /\ IF o.result = "ok" THEN Becomes(c, l, GoesOn(r, "read", o.id, ReadyTimeout))
                        ELSE Becomes(c, l, Ends(r, "failed"))
  /\ UNCHANGED <<terminal, memo, call, troubles, overlapped>>

\* A leg is woken by the provisioning it awaits, with its id or with its error.
Await(c, l) == LET r == leg[c][l]  o == leg[r.on[1]][r.on[2]] IN
  /\ r.pc = "await"
  /\ o.result \in {"ok", "failed"}
  /\ IF o.result = "ok" THEN Becomes(c, l, GoesOn(r, "wait", o.id, ReadyTimeout))
                        ELSE Becomes(c, l, Ends(r, "failed"))
  /\ UNCHANGED <<terminal, memo, call, troubles, overlapped>>

IsReady(i) == terminal[i] \in {"connected", "readable"}

\* waitUntilReady sees a terminal that is up: the caller goes on.
Ready(c, l) == LET r == leg[c][l] IN
  /\ r.pc \in {"settle", "wait"} /\ r.asked # "now" /\ IsReady(r.id)
  /\ Becomes(c, l, IF r.pc = "wait" THEN GoesOn(r, "read", r.id, ReadyTimeout)
                   ELSE LET ok == [r EXCEPT !.result = "ok"] IN
                        IF l = "release" THEN GoesOn(ok, "undeploy", r.id, 0)
                                         ELSE GoesOn(ok, "wait", r.id, ReadyTimeout))
  /\ UNCHANGED <<terminal, memo, call, troubles, overlapped>>

\* waitUntilReady sees one that is not, and asks once for a stopped one to be deployed.
NotReady(c, l) == LET r == leg[c][l] IN
  /\ r.pc \in {"settle", "wait"} /\ r.asked # "now" /\ ~IsReady(r.id)
  /\ IF r.asked = "no" /\ terminal[r.id] = "stopped"
     THEN Becomes(c, l, [r EXCEPT !.asked = "now"]) /\ memo' = memo
     ELSE GivesUpOrSleeps(c, l, r)
  /\ UNCHANGED <<terminal, call, troubles, overlapped>>

\* The deploy that was decided on the last poll; ignored by a terminal that is up.
Deploy(c, l) == LET r == leg[c][l] IN
  /\ r.asked = "now" /\ r.pc \in {"settle", "wait"}
  /\ terminal' = [terminal EXCEPT ![r.id] = IF @ = "stopped" THEN "starting" ELSE @]
  /\ GivesUpOrSleeps(c, l, [r EXCEPT !.asked = "yes"])
  /\ UNCHANGED <<call, troubles, overlapped>>

(***************************************************************************)
(* readWhileWakingUp: 504 is retried until its own deadline.  The symbol   *)
(* specifications are asked for once and do without an answer.             *)
(***************************************************************************)
Read(c, l) == LET r == leg[c][l] IN
  /\ r.pc = "read"
  /\ IF l = "specs" \/ terminal[r.id] = "readable"
     THEN Becomes(c, l, Ends(r, "done")) /\ memo' = memo
     ELSE GivesUpOrSleeps(c, l, r)
  /\ UNCHANGED <<terminal, call, troubles, overlapped>>

\* The request release is for.
Undeploy(c, l) == LET r == leg[c][l] IN
  /\ r.pc = "undeploy"
  /\ terminal' = [terminal EXCEPT ![r.id] = "stopped"]
  /\ Becomes(c, l, Ends(r, "done"))
  /\ UNCHANGED <<memo, call, troubles, overlapped>>

\* Any request may fail with an answer that is not retried.
Fails(c, l) == /\ leg[c][l].pc \in {"find", "create", "settle", "wait", "read", "undeploy"}
               /\ Trouble
               /\ Rejects(c, l)
               /\ UNCHANGED <<terminal, call, overlapped>>

LegStep(c, l) == \/ Find(c, l) \/ Create(c, l) \/ Detecting(c, l) \/ LostAnswer(c, l)
                 \/ Await(c, l) \/ Ready(c, l) \/ NotReady(c, l) \/ Deploy(c, l)
                 \/ Read(c, l) \/ Undeploy(c, l) \/ Fails(c, l)

-----------------------------------------------------------------------------
(* The callers: syncOneAccount, and verify in connectMt5Action. *)

\* The legs that call c waits for first.
Fetched(c) == IF call[c].kind = "sync" THEN {"state", "deals"} ELSE {"state"}

\* Both legs of a sync start before either of them awaits anything.
Begin(c) == \E kind \in {"sync", "verify"} :
  LET m == MemoAfter(c, "state", memo) IN
  /\ call[c].pc = "idle"
  /\ c = CHOOSE d \in Calls : call[d].pc = "idle"
  /\ call' = [call EXCEPT ![c] = [@ EXCEPT !.pc = "fetch", !.kind = kind]]
  /\ leg' = [leg EXCEPT ![c]["state"] = Resolving(memo),
                        ![c]["deals"] = IF kind = "sync" THEN Resolving(m) ELSE @]
  /\ memo' = m
  /\ overlapped' = (overlapped \/ ~Quiet)
  /\ UNCHANGED <<terminal, troubles>>

GoesTo(c, pc, ok) == call' = [call EXCEPT ![c] = [@ EXCEPT !.pc = pc, !.ok = ok]]

(***************************************************************************)
(* release forgets the remembered provisioning and then resolves the id,   *)
(* so it always provisions afresh, and is itself what the memo holds next. *)
(***************************************************************************)
HandsBack(c, ok) ==
  IF KeepDeployed THEN GoesTo(c, "over", ok) /\ UNCHANGED <<leg, memo>>
  ELSE /\ GoesTo(c, "release", ok)
       /\ Becomes(c, "release", Provisioning)
       /\ memo' = <<c, "release">>

\* fetchSpecOverrides asks for the symbols of the deals, and for nothing if there are none.
Prices(c) == /\ GoesTo(c, "price", FALSE)
             /\ \/ UNCHANGED <<leg, memo>>
                \/ /\ Becomes(c, "specs", Resolving(memo))
                   /\ memo' = MemoAfter(c, "specs", memo)

\* Mutant: the first answer will do, as with Promise.any.
GotAll_FirstAnswer(c) ==
  /\ call[c].pc = "fetch"
  /\ \E l \in Fetched(c) : leg[c][l].pc = "done"
  /\ IF call[c].kind = "verify" THEN GoesTo(c, "over", TRUE) /\ UNCHANGED <<leg, memo>>
     ELSE Prices(c)
  /\ UNCHANGED <<terminal, troubles, overlapped>>

\* Everything was read: verify answers, a sync goes on to the symbol specifications.
GotAll(c) ==
  /\ call[c].pc = "fetch"
  /\ \A l \in Fetched(c) : leg[c][l].pc = "done"
  /\ IF call[c].kind = "verify" THEN GoesTo(c, "over", TRUE) /\ UNCHANGED <<leg, memo>>
     ELSE Prices(c)
  /\ UNCHANGED <<terminal, troubles, overlapped>>

\* The first rejection is the call's, whatever the other leg is still doing.
GotError(c) ==
  /\ call[c].pc = "fetch"
  /\ \E l \in Fetched(c) : leg[c][l].pc = "failed"
  /\ IF call[c].kind = "verify" THEN GoesTo(c, "over", FALSE) /\ UNCHANGED <<leg, memo>>
                                ELSE HandsBack(c, FALSE)
  /\ UNCHANGED <<terminal, troubles, overlapped>>

\* With the specifications or without them the trades are written, or are not, and the
\* terminal is handed back.
Priced(c) == /\ call[c].pc = "price"
             /\ Ended(c, "specs") \/ leg[c]["specs"].pc = "idle"
             /\ \E ok \in BOOLEAN : HandsBack(c, ok)
             /\ UNCHANGED <<terminal, troubles, overlapped>>

\* release never throws: the sync ends as it would have.
Released(c) == /\ call[c].pc = "release"
               /\ Ended(c, "release")
               /\ GoesTo(c, "over", call[c].ok)
               /\ UNCHANGED <<terminal, memo, leg, troubles, overlapped>>

\* What the process does for call c once it has begun.
Runs(c) == GotAll(c) \/ GotError(c) \/ Priced(c) \/ Released(c) \/ \E l \in Legs : LegStep(c, l)

-----------------------------------------------------------------------------
(* MetaApi. *)

\* The terminal gets nearer to answering.
Wake(i) == /\ terminal[i] \in {"starting", "connected"}
           /\ terminal' = [terminal EXCEPT ![i] = IF @ = "starting" THEN "connected"
                                                                    ELSE "readable"]
           /\ UNCHANGED <<memo, leg, call, troubles, overlapped>>

\* It fails to deploy, or loses its broker.
GoesDown(i) == /\ Trouble
               /\ terminal[i] \in {"starting", "connected", "readable"}
               /\ terminal' = [terminal EXCEPT ![i] = IF @ = "starting" THEN "stopped"
                                                                        ELSE "starting"]
               /\ UNCHANGED <<memo, leg, call, overlapped>>

Next == \/ \E c \in Calls : Begin(c) \/ Runs(c)
        \/ \E i \in Ids : Wake(i) \/ GoesDown(i)

(***************************************************************************)
(* The event loop goes on while any call has a step to take.  Nothing is   *)
(* assumed of MetaApi, which need never bring a terminal up, nor of the    *)
(* trader.                                                                 *)
(***************************************************************************)
Spec == Init /\ [][Next]_vars /\ WF_vars(\E c \in Calls : Runs(c))

-----------------------------------------------------------------------------
(* Properties. *)

TypeOK == /\ terminal \in [Ids -> Statuses]
          /\ memo \in (Calls \X Legs) \union {None}
          /\ leg \in [Calls -> [Legs -> Leg]]
          /\ call \in [Calls -> Call]
          /\ troubles \in 0..MaxTroubles
          /\ overlapped \in BOOLEAN

(***************************************************************************)
(* "A failed provision must not be remembered, or one bad password poisons *)
(* the process": the memo never answers with a provisioning that failed,   *)
(* although releases replace and rejections delete what others put there.  *)
(***************************************************************************)
FailureIsForgotten == memo # None => leg[memo[1]][memo[2]].result \in {"pending", "ok"}

(***************************************************************************)
(* A leg that shares the provisioning of another leg awaits one that is    *)
(* still being carried on or has come to something, though the memo may    *)
(* have been emptied, refilled and emptied again in the meantime.          *)
(***************************************************************************)
AwaitedIsCarriedOn ==
  \A c \in Calls, l \in Legs : leg[c][l].pc = "await" =>
     LET o == leg[leg[c][l].on[1]][leg[c][l].on[2]]
     IN  o.pc \in Provisions \/ o.result \in {"ok", "failed"}

(***************************************************************************)
(* A call that has the process to itself never comes to read a terminal    *)
(* that has to be deployed first, whatever the calls before it left behind *)
(* (a sync stops the terminal, and the next one must not read it as it     *)
(* stands); and none stops the terminal it is reading but MetaApi itself.  *)
(***************************************************************************)
ReadsStopped(c, l) == /\ leg[c][l].pc = "read" /\ call[c].pc \in {"fetch", "price"}
                      /\ terminal[leg[c][l].id] = "stopped"

ReadsWhatIsUp ==
  [][~overlapped' => \A c \in Calls, l \in Legs :
       ReadsStopped(c, l)' => ReadsStopped(c, l) \/ \E i \in Ids : GoesDown(i)]_vars

(***************************************************************************)
(* The trader's account is registered with MetaApi once, however often     *)
(* provisioning fails half-way, loses its answer and is tried again, as    *)
(* long as no two calls overlap.                                           *)
(***************************************************************************)
RegistersOnce == ~overlapped => Cardinality(Registered) <= 1

(***************************************************************************)
(* After a sync that succeeded, overlapped by no call, and whose release   *)
(* went through, no terminal is left running until the next call begins.   *)
(***************************************************************************)
Freed(c) == call[c].ok /\ leg[c]["release"].pc = "done"

GoodSyncHandsBack ==
  (/\ Quiet /\ ~overlapped
   /\ \E c \in Calls : call[c].pc = "over"
   /\ \A c \in Calls : call[c].pc = "over" => Freed(c))
     => \A i \in Ids : terminal[i] \in {"absent", "stopped"}

(***************************************************************************)
(* Every call that begins ends, with an answer or an error, and so does    *)
(* every leg it left behind, though MetaApi may never bring the terminal   *)
(* up: the deadlines bound every wait, and no leg awaits a provisioning    *)
(* that nobody carries on.                                                 *)
(***************************************************************************)
EveryCallEnds == []<>Quiet

=============================================================================

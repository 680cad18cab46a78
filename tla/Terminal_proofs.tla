-------------------------- MODULE Terminal_proofs --------------------------
(***************************************************************************)
(* Proofs about Terminal, for any number of calls and registrations, any   *)
(* deadline and any number of troubles: its types, that the memo never     *)
(* remembers a failed provisioning, and that no leg awaits one that nobody *)
(* carries on.                                                             *)
(*                                                                         *)
(* While no two calls overlap: that one account is registered at most,     *)
(* that a sync that succeeds has handed the terminal back, and that no leg *)
(* reads a terminal that was stopped unless MetaApi stopped it under the   *)
(* read.                                                                   *)
(***************************************************************************)
EXTENDS Terminal, FiniteSetTheorems, TLAPS

(***************************************************************************)
(* What both safety properties rest on: a leg's result follows where it    *)
(* is, and a call starts a leg only where none was started before, so that *)
(* no leg the memo or another leg refers to is ever started over.          *)
(***************************************************************************)
ResultsFollow ==
  \A c \in Calls, l \in Legs :
     /\ leg[c][l].pc = "idle" => leg[c][l].result = "none"
     /\ leg[c][l].result = "pending" => leg[c][l].pc \in Provisions

LegsInOrder ==
  \A c \in Calls :
     /\ call[c].pc = "idle" => \A l \in Legs : leg[c][l].pc = "idle"
     /\ call[c].pc = "fetch" => leg[c]["specs"].pc = "idle"
     /\ call[c].pc \in {"fetch", "price"} => leg[c]["release"].pc = "idle"

AwaitsStarted ==
  \A c \in Calls, l \in Legs : leg[c][l].pc = "await" =>
     /\ leg[c][l].on # None
     /\ leg[leg[c][l].on[1]][leg[c][l].on[2]].result # "none"

IInv == TypeOK /\ ResultsFollow /\ LegsInOrder /\ AwaitsStarted /\ FailureIsForgotten

-----------------------------------------------------------------------------
\* What one step of leg l of call c does to the leg and to the memo.
LegMoves(c, l, r) ==
  /\ r \in Leg
  /\ leg' = [leg EXCEPT ![c][l] = r]
  /\ leg[c][l].pc # "idle"
  /\ r.pc \notin {"idle", "await"}
  /\ r.result = "pending" => r.pc \in Provisions
  /\ leg[c][l].result # "none" => r.result # "none"
  /\ \/ memo' = None
     \/ memo' = memo /\ (r.result = "failed" => leg[c][l].result = "failed")

\* Records of legs built by the provider's helpers are legs.
LEMMA HelperTypes ==
  /\ IdleLeg \in Leg
  /\ Provisioning \in Leg
  /\ \A r \in Leg, pc \in LegPCs, i \in Ids \union {None}, n \in 0..ReadyTimeout :
       /\ GoesOn(r, pc, i, n) \in Leg
       /\ GoesOn(r, pc, i, n).pc = pc
       /\ GoesOn(r, pc, i, n).result = r.result
  /\ \A r \in Leg, pc \in LegPCs :
       /\ Ends(r, pc) \in Leg
       /\ Ends(r, pc).pc = pc
       /\ Ends(r, pc).result = r.result
<1>1. 0 \in 0..ReadyTimeout /\ ReadyTimeout \in 0..ReadyTimeout
  BY TimeoutAssumption
<1>2. IdleLeg \in Leg
  BY <1>1 DEF IdleLeg, Leg, LegPCs
<1>3. Provisioning \in Leg
  BY <1>1, <1>2 DEF Provisioning, IdleLeg, Leg, LegPCs
<1>4. ASSUME NEW r \in Leg, NEW pc \in LegPCs, NEW i \in Ids \union {None},
             NEW n \in 0..ReadyTimeout
      PROVE  /\ GoesOn(r, pc, i, n) \in Leg
             /\ GoesOn(r, pc, i, n).pc = pc
             /\ GoesOn(r, pc, i, n).result = r.result
  BY <1>2 DEF GoesOn, IdleLeg, Leg
<1>5. ASSUME NEW r \in Leg, NEW pc \in LegPCs
      PROVE  /\ Ends(r, pc) \in Leg
             /\ Ends(r, pc).pc = pc
             /\ Ends(r, pc).result = r.result
  <2>1. (IF r.result = "ok" THEN r.id ELSE None) \in Ids \union {None}
    BY DEF Leg
  <2>2. QED BY <1>1, <1>4, <2>1 DEF Ends
<1>6. QED BY <1>2, <1>3, <1>4, <1>5

\* A rejection is such a step.
LEMMA RejectionMoves ==
  ASSUME TypeOK, ResultsFollow, NEW c \in Calls, NEW l \in Legs,
         leg[c][l].pc # "idle", Rejects(c, l)
  PROVE  \E r \in Leg : LegMoves(c, l, r)
<1> DEFINE r == leg[c][l]
<1>1. r \in Leg
  BY DEF TypeOK
<1>2. "failed" \in LegPCs
  BY DEF LegPCs
<1>3. CASE r.pc \in Provisions
  <2> DEFINE q == [r EXCEPT !.result = "failed"]
  <2>1. q \in Leg /\ q.result = "failed"
    BY <1>1 DEF Leg
  <2>2. leg' = [leg EXCEPT ![c][l] = Ends(q, "failed")] /\ memo' = None
    BY <1>3 DEF Rejects, Becomes
  <2>3. Ends(q, "failed") \in Leg /\ Ends(q, "failed").pc = "failed"
        /\ Ends(q, "failed").result = "failed"
    BY <1>2, <2>1, HelperTypes
  <2>4. LegMoves(c, l, Ends(q, "failed"))
    BY <2>2, <2>3 DEF LegMoves
  <2>5. QED BY <2>3, <2>4
<1>4. CASE r.pc \notin Provisions
  <2>1. leg' = [leg EXCEPT ![c][l] = Ends(r, "failed")] /\ memo' = memo
    BY <1>4 DEF Rejects, Becomes
  <2>2. Ends(r, "failed") \in Leg /\ Ends(r, "failed").pc = "failed"
        /\ Ends(r, "failed").result = r.result
    BY <1>1, <1>2, HelperTypes
  <2>3. r.result # "pending"
    BY <1>4 DEF ResultsFollow
  <2>4. LegMoves(c, l, Ends(r, "failed"))
    BY <2>1, <2>2, <2>3 DEF LegMoves
  <2>5. QED BY <2>2, <2>4
<1>5. QED BY <1>3, <1>4

\* A poll that gives up or goes to sleep is such a step.
LEMMA PollMoves ==
  ASSUME TypeOK, ResultsFollow, NEW c \in Calls, NEW l \in Legs, NEW q \in Leg,
         leg[c][l].pc \notin {"idle", "await"}, q.pc = leg[c][l].pc,
         q.result = leg[c][l].result, GivesUpOrSleeps(c, l, q)
  PROVE  \E r \in Leg : LegMoves(c, l, r)
<1>1. CASE q.polls = 0
  BY <1>1, RejectionMoves DEF GivesUpOrSleeps
<1>2. CASE q.polls # 0
  <2> DEFINE p == [q EXCEPT !.polls = @ - 1]
  <2>1. q.polls - 1 \in 0..ReadyTimeout
    BY <1>2, TimeoutAssumption DEF Leg
  <2>2. p \in Leg /\ p.pc = q.pc /\ p.result = q.result
    BY <2>1 DEF Leg
  <2>3. leg' = [leg EXCEPT ![c][l] = p] /\ memo' = memo
    BY <1>2 DEF GivesUpOrSleeps, Becomes
  <2>4. p.result = "pending" => p.pc \in Provisions
    BY <2>2 DEF ResultsFollow
  <2>5. LegMoves(c, l, p)
    BY <2>2, <2>3, <2>4 DEF LegMoves
  <2>6. QED BY <2>2, <2>5
<1>3. QED BY <1>1, <1>2

\* Every step of a leg is such a step, and leaves the calls alone.
LEMMA StepMoves ==
  ASSUME TypeOK, ResultsFollow, AwaitsStarted, NEW c \in Calls, NEW l \in Legs, LegStep(c, l)
  PROVE  /\ call' = call /\ overlapped' = overlapped
         /\ \E r \in Leg : LegMoves(c, l, r)
<1> DEFINE r == leg[c][l]
<1>1. r \in Leg
  BY DEF TypeOK
<1>2. call' = call /\ overlapped' = overlapped
  BY DEF LegStep, Find, Create, Detecting, LostAnswer, Await, Ready, NotReady, Deploy, Read,
         Undeploy, Fails
<1>3. r.result = "pending" => r.pc \in Provisions
  BY DEF ResultsFollow
<1>4. {"wait", "read", "undeploy", "done", "failed", "create", "settle"} \subseteq LegPCs
      /\ ReadyTimeout \in 0..ReadyTimeout /\ 0 \in 0..ReadyTimeout
  BY TimeoutAssumption DEF LegPCs
<1>5. CASE Find(c, l)
  <2>1. PICK q \in Leg : /\ leg' = [leg EXCEPT ![c][l] = q] /\ memo' = memo
                         /\ q.pc \in {"create", "settle"} /\ q.result = r.result
    <3>1. [r EXCEPT !.pc = "create"] \in Leg
      BY <1>1, <1>4 DEF Leg
    <3>2. \A i \in Ids : [r EXCEPT !.pc = "settle", !.id = i] \in Leg
      BY <1>1, <1>4 DEF Leg
    <3>3. CASE Registered = {}
      <4>1. leg' = [leg EXCEPT ![c][l] = [r EXCEPT !.pc = "create"]] /\ memo' = memo
        BY <1>5, <3>3 DEF Find, Becomes
      <4>2. QED BY <1>1, <3>1, <4>1 DEF Leg
    <3>4. CASE Registered # {}
      <4>1. PICK i \in Ids : leg' = [leg EXCEPT ![c][l] = [r EXCEPT !.pc = "settle", !.id = i]]
                             /\ memo' = memo
        BY <1>5, <3>4 DEF Find, Becomes, Registered
      <4>2. QED BY <1>1, <3>2, <4>1 DEF Leg
    <3>5. QED BY <3>3, <3>4
  <2>2. LegMoves(c, l, q)
    BY <1>5, <2>1 DEF LegMoves, Find, Provisions
  <2>3. QED BY <1>2, <2>2
<1>6. CASE Create(c, l)
  <2> DEFINE q == [r EXCEPT !.pc = "settle", !.id = Free(terminal)]
  <2>1. Free(terminal) \in Ids
    BY <1>6 DEF Create, Free, Registered
  <2>2. q \in Leg /\ q.pc = "settle" /\ q.result = r.result
    BY <1>1, <1>4, <2>1 DEF Leg
  <2>3. leg' = [leg EXCEPT ![c][l] = q] /\ memo' = memo /\ r.pc = "create"
    BY <1>6 DEF Create, Becomes
  <2>4. LegMoves(c, l, q)
    BY <2>2, <2>3 DEF LegMoves, Provisions
  <2>5. QED BY <1>2, <2>2, <2>4
<1>7. CASE Detecting(c, l)
  <2>1. r.pc = "create" /\ GivesUpOrSleeps(c, l, r)
    BY <1>7 DEF Detecting
  <2>2. QED BY <1>1, <1>2, <2>1, PollMoves
<1>8. CASE LostAnswer(c, l)
  <2>1. r.pc = "create" /\ Rejects(c, l)
    BY <1>8 DEF LostAnswer
  <2>2. QED BY <1>2, <2>1, RejectionMoves
<1>9. CASE Await(c, l)
  <2> DEFINE o == leg[r.on[1]][r.on[2]]
  <2>1. r.pc = "await" /\ memo' = memo
    BY <1>9 DEF Await
  <2>2. r.on \in Calls \X Legs
    BY <1>1, <2>1 DEF AwaitsStarted, Leg
  <2>3. r.on[1] \in Calls /\ r.on[2] \in Legs
    BY <2>2
  <2>4. o.id \in Ids \union {None}
    BY <2>3 DEF TypeOK, Leg
  <2>5. PICK q \in Leg : /\ leg' = [leg EXCEPT ![c][l] = q]
                         /\ q.pc \in {"wait", "failed"} /\ q.result = r.result
    <3>1. CASE o.result = "ok"
      <4>1. leg' = [leg EXCEPT ![c][l] = GoesOn(r, "wait", o.id, ReadyTimeout)]
        BY <1>9, <3>1 DEF Await, Becomes
      <4>2. GoesOn(r, "wait", o.id, ReadyTimeout) \in Leg
            /\ GoesOn(r, "wait", o.id, ReadyTimeout).pc = "wait"
            /\ GoesOn(r, "wait", o.id, ReadyTimeout).result = r.result
        BY <1>1, <1>4, <2>4 DEF GoesOn, IdleLeg, Leg
      <4>3. QED BY <4>1, <4>2
    <3>2. CASE o.result # "ok"
      <4>1. leg' = [leg EXCEPT ![c][l] = Ends(r, "failed")]
        BY <1>9, <3>2 DEF Await, Becomes
      <4>2. Ends(r, "failed") \in Leg
            /\ Ends(r, "failed").pc = "failed"
            /\ Ends(r, "failed").result = r.result
        BY <1>1, <1>4, HelperTypes
      <4>3. QED BY <4>1, <4>2
    <3>3. QED BY <3>1, <3>2
  <2>6. q.result # "pending"
    BY <1>3, <2>1, <2>5 DEF Provisions
  <2>7. LegMoves(c, l, q)
    BY <2>1, <2>5, <2>6 DEF LegMoves
  <2>8. QED BY <1>2, <2>7
<1>10. CASE Ready(c, l)
  <2>1. r.pc \in {"settle", "wait"} /\ memo' = memo /\ r.id \in Ids \union {None}
    BY <1>1, <1>10 DEF Ready, Leg
  <2>2. PICK q \in Leg : /\ leg' = [leg EXCEPT ![c][l] = q]
                         /\ q.pc \in {"wait", "read", "undeploy"}
                         /\ q.result = "ok" \/ (r.pc = "wait" /\ q.result = r.result)
    <3> DEFINE ok == [r EXCEPT !.result = "ok"]
    <3>1. ok \in Leg /\ ok.result = "ok"
      BY <1>1 DEF Leg
    <3>2. CASE r.pc = "wait"
      <4>1. leg' = [leg EXCEPT ![c][l] = GoesOn(r, "read", r.id, ReadyTimeout)]
        BY <1>10, <3>2 DEF Ready, Becomes
      <4>2. GoesOn(r, "read", r.id, ReadyTimeout) \in Leg
            /\ GoesOn(r, "read", r.id, ReadyTimeout).pc = "read"
            /\ GoesOn(r, "read", r.id, ReadyTimeout).result = r.result
        BY <1>1, <1>4, <2>1, <3>2 DEF GoesOn, IdleLeg, Leg
      <4>3. QED BY <3>2, <4>1, <4>2
    <3>3. CASE r.pc # "wait" /\ l = "release"
      <4>1. leg' = [leg EXCEPT ![c][l] = GoesOn(ok, "undeploy", r.id, 0)]
        BY <1>10, <3>3 DEF Ready, Becomes
      <4>2. GoesOn(ok, "undeploy", r.id, 0) \in Leg
            /\ GoesOn(ok, "undeploy", r.id, 0).pc = "undeploy"
            /\ GoesOn(ok, "undeploy", r.id, 0).result = "ok"
        BY <1>4, <2>1, <3>1 DEF GoesOn, IdleLeg, Leg
      <4>3. QED BY <4>1, <4>2
    <3>4. CASE r.pc # "wait" /\ l # "release"
      <4>1. leg' = [leg EXCEPT ![c][l] = GoesOn(ok, "wait", r.id, ReadyTimeout)]
        BY <1>10, <3>4 DEF Ready, Becomes
      <4>2. GoesOn(ok, "wait", r.id, ReadyTimeout) \in Leg
            /\ GoesOn(ok, "wait", r.id, ReadyTimeout).pc = "wait"
            /\ GoesOn(ok, "wait", r.id, ReadyTimeout).result = "ok"
        BY <1>4, <2>1, <3>1 DEF GoesOn, IdleLeg, Leg
      <4>3. QED BY <4>1, <4>2
    <3>5. QED BY <3>2, <3>3, <3>4
  <2>3. q.result # "pending"
    BY <1>3, <2>2 DEF Provisions
  <2>4. LegMoves(c, l, q)
    BY <2>1, <2>2, <2>3 DEF LegMoves
  <2>5. QED BY <1>2, <2>4
<1>11. CASE NotReady(c, l)
  <2>1. r.pc \in {"settle", "wait"}
    BY <1>11 DEF NotReady
  <2>2. CASE r.asked = "no" /\ terminal[r.id] = "stopped"
    <3> DEFINE q == [r EXCEPT !.asked = "now"]
    <3>1. q \in Leg /\ q.pc = r.pc /\ q.result = r.result
      BY <1>1 DEF Leg
    <3>2. leg' = [leg EXCEPT ![c][l] = q] /\ memo' = memo
      BY <1>11, <2>2 DEF NotReady, Becomes
    <3>3. LegMoves(c, l, q)
      BY <1>3, <2>1, <3>1, <3>2 DEF LegMoves
    <3>4. QED BY <1>2, <3>1, <3>3
  <2>3. CASE ~(r.asked = "no" /\ terminal[r.id] = "stopped")
    <3>1. GivesUpOrSleeps(c, l, r)
      BY <1>11, <2>3 DEF NotReady
    <3>2. QED BY <1>1, <1>2, <2>1, <3>1, PollMoves
  <2>4. QED BY <2>2, <2>3
<1>12. CASE Deploy(c, l)
  <2> DEFINE q == [r EXCEPT !.asked = "yes"]
  <2>1. r.pc \in {"settle", "wait"} /\ GivesUpOrSleeps(c, l, q)
    BY <1>12 DEF Deploy
  <2>2. q \in Leg /\ q.pc = r.pc /\ q.result = r.result
    BY <1>1 DEF Leg
  <2>3. QED BY <1>2, <2>1, <2>2, PollMoves
<1>13. CASE Read(c, l)
  <2>1. r.pc = "read"
    BY <1>13 DEF Read
  <2>2. CASE l = "specs" \/ terminal[r.id] = "readable"
    <3>1. leg' = [leg EXCEPT ![c][l] = Ends(r, "done")] /\ memo' = memo
      BY <1>13, <2>2 DEF Read, Becomes
    <3>2. Ends(r, "done") \in Leg /\ Ends(r, "done").pc = "done"
          /\ Ends(r, "done").result = r.result
      BY <1>1, <1>4, HelperTypes
    <3>3. r.result # "pending"
      BY <1>3, <2>1 DEF Provisions
    <3>4. LegMoves(c, l, Ends(r, "done"))
      BY <2>1, <3>1, <3>2, <3>3 DEF LegMoves
    <3>5. QED BY <1>2, <3>2, <3>4
  <2>3. CASE ~(l = "specs" \/ terminal[r.id] = "readable")
    <3>1. GivesUpOrSleeps(c, l, r)
      BY <1>13, <2>3 DEF Read
    <3>2. QED BY <1>1, <1>2, <2>1, <3>1, PollMoves
  <2>4. QED BY <2>2, <2>3
<1>14. CASE Undeploy(c, l)
  <2>1. r.pc = "undeploy" /\ memo' = memo
        /\ leg' = [leg EXCEPT ![c][l] = Ends(r, "done")]
    BY <1>14 DEF Undeploy, Becomes
  <2>2. Ends(r, "done") \in Leg /\ Ends(r, "done").pc = "done"
        /\ Ends(r, "done").result = r.result
    BY <1>1, <1>4, HelperTypes
  <2>3. r.result # "pending"
    BY <1>3, <2>1 DEF Provisions
  <2>4. LegMoves(c, l, Ends(r, "done"))
    BY <2>1, <2>2, <2>3 DEF LegMoves
  <2>5. QED BY <1>2, <2>2, <2>4
<1>15. CASE Fails(c, l)
  <2>1. r.pc # "idle" /\ Rejects(c, l)
    BY <1>15 DEF Fails
  <2>2. QED BY <1>2, <2>1, RejectionMoves
<1>16. QED BY <1>5, <1>6, <1>7, <1>8, <1>9, <1>10, <1>11, <1>12, <1>13, <1>14, <1>15 DEF LegStep

\* The provider only ever moves a terminal from one status to another.
LEMMA TerminalTypes ==
  ASSUME TypeOK, NEW c \in Calls, NEW l \in Legs, LegStep(c, l)
  PROVE  terminal' \in [Ids -> Statuses] /\ troubles' \in 0..MaxTroubles
<1>1. terminal' \in [Ids -> Statuses]
  <2>1. terminal \in [Ids -> Statuses]
    BY DEF TypeOK
  <2>2. CASE terminal' = terminal
    BY <2>1, <2>2
  <2>4. CASE Deploy(c, l)
    <3> DEFINE i == leg[c][l].id
    <3>1. terminal' = [terminal EXCEPT ![i] = IF @ = "stopped" THEN "starting" ELSE @]
      BY <2>4 DEF Deploy
    <3>2. QED BY <2>1, <3>1 DEF Statuses
  <2>5. CASE Create(c, l) \/ LostAnswer(c, l)
    <3>1. Free(terminal) \in Ids
      BY <2>5 DEF Create, LostAnswer, Free, Registered
    <3>2. terminal' = [terminal EXCEPT ![Free(terminal)] = "starting"]
      BY <2>5 DEF Create, LostAnswer
    <3>3. QED BY <2>1, <3>1, <3>2 DEF Statuses
  <2>6. CASE Undeploy(c, l)
    <3>1. terminal' = [terminal EXCEPT ![leg[c][l].id] = "stopped"]
      BY <2>6 DEF Undeploy
    <3>2. QED BY <2>1, <3>1 DEF Statuses
  <2>7. QED BY <2>2, <2>4, <2>5, <2>6
            DEF LegStep, Find, Detecting, Await, Ready, NotReady, Read, Fails
<1>2. troubles' \in 0..MaxTroubles
  <2>1. troubles \in 0..MaxTroubles
    BY DEF TypeOK
  <2>2. CASE troubles' = troubles
    BY <2>1, <2>2
  <2>3. CASE Trouble
    BY <2>1, <2>3, TimeoutAssumption DEF Trouble
  <2>4. QED BY <2>2, <2>3 DEF LegStep, Find, Create, Detecting, LostAnswer, Await, Ready,
                             NotReady, Deploy, Read, Undeploy, Fails
<1>3. QED BY <1>1, <1>2

-----------------------------------------------------------------------------
\* Each part of the invariant survives a leg that moves.
LEMMA MovePreserves ==
  ASSUME IInv, NEW c \in Calls, NEW l \in Legs, NEW r \in Leg, LegMoves(c, l, r),
         call' = call
  PROVE  /\ leg' \in [Calls -> [Legs -> Leg]]
         /\ memo' \in (Calls \X Legs) \union {None}
         /\ ResultsFollow' /\ LegsInOrder' /\ AwaitsStarted' /\ FailureIsForgotten'
<1>0. /\ leg \in [Calls -> [Legs -> Leg]] /\ memo \in (Calls \X Legs) \union {None}
      /\ leg' = [leg EXCEPT ![c][l] = r]
  BY DEF IInv, TypeOK, LegMoves
<1>1. leg' \in [Calls -> [Legs -> Leg]]
  BY <1>0
<1>2. memo' \in (Calls \X Legs) \union {None}
  BY <1>0 DEF LegMoves
<1>3. \A d \in Calls, m \in Legs :
        leg'[d][m] = IF d = c /\ m = l THEN r ELSE leg[d][m]
  BY <1>0
<1>4. ResultsFollow'
  BY <1>3 DEF IInv, ResultsFollow, LegMoves
<1>5. LegsInOrder'
  <2>1. \A d \in Calls, m \in Legs : leg[d][m].pc = "idle" => leg'[d][m].pc = "idle"
    BY <1>3 DEF LegMoves
  <2>2. {"specs", "release"} \subseteq Legs
    BY DEF Legs
  <2>3. QED BY <2>1, <2>2 DEF IInv, LegsInOrder
<1>6. \A d \in Calls, m \in Legs : leg[d][m].result # "none" => leg'[d][m].result # "none"
  BY <1>3 DEF LegMoves
<1>7. AwaitsStarted'
  <2> SUFFICES ASSUME NEW d \in Calls, NEW m \in Legs, leg'[d][m].pc = "await"
               PROVE  /\ leg'[d][m].on # None
                      /\ leg'[leg'[d][m].on[1]][leg'[d][m].on[2]].result # "none"
    BY DEF AwaitsStarted
  <2>1. leg'[d][m] = leg[d][m]
    BY <1>3 DEF LegMoves
  <2> DEFINE on == leg[d][m].on
  <2>2. on # None /\ leg[on[1]][on[2]].result # "none"
    BY <2>1 DEF IInv, AwaitsStarted
  <2>3. on \in (Calls \X Legs) \union {None}
    BY <1>0 DEF Leg
  <2>4. on[1] \in Calls /\ on[2] \in Legs
    BY <2>2, <2>3
  <2>5. leg'[on[1]][on[2]].result # "none"
    BY <1>6, <2>2, <2>4
  <2>6. QED BY <2>1, <2>2, <2>5
<1>8. FailureIsForgotten'
  <2>1. CASE memo' = None
    BY <2>1 DEF FailureIsForgotten
  <2>2. CASE memo' # None
    <3>1. memo' = memo /\ (r.result = "failed" => leg[c][l].result = "failed")
      BY <2>2 DEF LegMoves
    <3>2. memo[1] \in Calls /\ memo[2] \in Legs
      BY <1>0, <2>2, <3>1
    <3>3. leg[memo[1]][memo[2]].result \in {"pending", "ok"}
      BY <2>2, <3>1 DEF IInv, FailureIsForgotten
    <3>4. leg'[memo[1]][memo[2]].result \in {"pending", "ok"}
      <4>1. CASE memo[1] = c /\ memo[2] = l
        <5>1. leg'[memo[1]][memo[2]] = r /\ leg[c][l].result \in {"pending", "ok"}
          BY <1>3, <3>2, <3>3, <4>1
        <5>2. r.result \in {"none", "pending", "failed", "ok"}
          BY DEF Leg
        <5>3. r.result # "none" /\ r.result # "failed"
          BY <3>1, <5>1 DEF LegMoves
        <5>4. QED BY <5>1, <5>2, <5>3
      <4>2. CASE ~(memo[1] = c /\ memo[2] = l)
        BY <1>3, <3>2, <3>3, <4>2
      <4>3. QED BY <4>1, <4>2
    <3>5. QED BY <3>1, <3>4 DEF FailureIsForgotten
  <2>3. QED BY <2>1, <2>2
<1>9. QED BY <1>1, <1>2, <1>4, <1>5, <1>7, <1>8

-----------------------------------------------------------------------------
(* ... and a call that starts some of its legs. *)

\* A leg that was never started before provisions, or awaits what the memo now holds.
Starts(r, m) == \/ r = Provisioning
                \/ m # None /\ r = [IdleLeg EXCEPT !.pc = "await", !.on = m]

\* A leg that starts by awaiting another is a leg.
LEMMA AwaitingTypes ==
  ASSUME NEW m \in (Calls \X Legs) \union {None}
  PROVE  LET w == [IdleLeg EXCEPT !.pc = "await", !.on = m]
         IN  w \in Leg /\ w.pc = "await" /\ w.result = "none" /\ w.on = m
<1>1. 0 \in 0..ReadyTimeout
  BY TimeoutAssumption
<1>2. QED BY <1>1 DEF IdleLeg, Leg, LegPCs

\* No leg that the memo or a waiting leg refers to is among those that start.
LEMMA StartPreserves ==
  ASSUME IInv, NEW c \in Calls, NEW f \in [Legs -> Leg],
         leg' = [leg EXCEPT ![c] = f],
         \A l \in Legs : f[l] = leg[c][l] \/ (leg[c][l].pc = "idle" /\ Starts(f[l], memo')),
         memo' = memo \/ \E l \in Legs : memo' = <<c, l>> /\ f[l] = Provisioning
  PROVE  /\ leg' \in [Calls -> [Legs -> Leg]]
         /\ memo' \in (Calls \X Legs) \union {None}
         /\ ResultsFollow' /\ AwaitsStarted' /\ FailureIsForgotten'
<1>0. /\ leg \in [Calls -> [Legs -> Leg]] /\ memo \in (Calls \X Legs) \union {None}
  BY DEF IInv, TypeOK
<1>1. leg' \in [Calls -> [Legs -> Leg]]
  BY <1>0
<1>2. memo' \in (Calls \X Legs) \union {None}
  BY <1>0
<1>3. \A d \in Calls, m \in Legs :
        leg'[d][m] = leg[d][m] \/ (leg[d][m].pc = "idle" /\ Starts(leg'[d][m], memo'))
  BY <1>0
<1>4. /\ Provisioning.pc = "find" /\ Provisioning.result = "pending"
  BY DEF Provisioning, IdleLeg
<1>5. \A d \in Calls, m \in Legs :
        leg[d][m].result # "none" => leg'[d][m] = leg[d][m]
  BY <1>3 DEF IInv, ResultsFollow
<1>s. \A r : Starts(r, memo') => \/ r.pc = "find" /\ r.result = "pending"
                                \/ /\ memo' # None /\ r.on = memo'
                                   /\ r.pc = "await" /\ r.result = "none"
  <2>1. LET w == [IdleLeg EXCEPT !.pc = "await", !.on = memo']
        IN  w.pc = "await" /\ w.result = "none" /\ w.on = memo'
    BY DEF IdleLeg
  <2>2. QED BY <1>4, <2>1 DEF Starts
<1>6. ResultsFollow'
  <2> SUFFICES ASSUME NEW d \in Calls, NEW m \in Legs
               PROVE  /\ leg'[d][m].pc = "idle" => leg'[d][m].result = "none"
                      /\ leg'[d][m].result = "pending" => leg'[d][m].pc \in Provisions
    BY DEF ResultsFollow
  <2>1. CASE leg'[d][m] = leg[d][m]
    BY <2>1 DEF IInv, ResultsFollow
  <2>2. CASE Starts(leg'[d][m], memo')
    BY <1>s, <2>2 DEF Provisions
  <2>3. QED BY <1>3, <2>1, <2>2
<1>7. FailureIsForgotten'
  <2>1. CASE memo' = memo /\ memo # None
    <3>1. memo[1] \in Calls /\ memo[2] \in Legs
      BY <1>0, <2>1
    <3>2. leg[memo[1]][memo[2]].result \in {"pending", "ok"}
      BY <2>1 DEF IInv, FailureIsForgotten
    <3>3. leg'[memo[1]][memo[2]] = leg[memo[1]][memo[2]]
      BY <1>5, <3>1, <3>2
    <3>4. QED BY <2>1, <3>2, <3>3 DEF FailureIsForgotten
  <2>2. CASE \E l \in Legs : memo' = <<c, l>> /\ f[l] = Provisioning
    <3>1. PICK l \in Legs : memo' = <<c, l>> /\ f[l] = Provisioning
      BY <2>2
    <3>2. leg'[memo'[1]][memo'[2]].result = "pending"
      BY <1>0, <1>4, <3>1
    <3>3. QED BY <3>2 DEF FailureIsForgotten
  <2>3. CASE memo' = None
    BY <2>3 DEF FailureIsForgotten
  <2>4. QED BY <2>1, <2>2, <2>3
<1>8. AwaitsStarted'
  <2> SUFFICES ASSUME NEW d \in Calls, NEW m \in Legs, leg'[d][m].pc = "await"
               PROVE  /\ leg'[d][m].on # None
                      /\ leg'[leg'[d][m].on[1]][leg'[d][m].on[2]].result # "none"
    BY DEF AwaitsStarted
  <2>1. CASE leg'[d][m] = leg[d][m]
    <3> DEFINE on == leg[d][m].on
    <3>1. on # None /\ leg[on[1]][on[2]].result # "none"
      BY <2>1 DEF IInv, AwaitsStarted
    <3>2. on \in (Calls \X Legs) \union {None}
      BY <1>0 DEF Leg
    <3>3. on[1] \in Calls /\ on[2] \in Legs
      BY <3>1, <3>2
    <3>4. leg'[on[1]][on[2]] = leg[on[1]][on[2]]
      BY <1>5, <3>1, <3>3
    <3>5. QED BY <2>1, <3>1, <3>4
  <2>2. CASE leg'[d][m] # leg[d][m]
    <3>1. memo' # None /\ leg'[d][m].on = memo'
      <4>1. Starts(leg'[d][m], memo')
        BY <1>3, <2>2
      <4>2. QED BY <1>s, <4>1
    <3>2. leg'[memo'[1]][memo'[2]].result \in {"pending", "ok"}
      BY <1>7, <3>1 DEF FailureIsForgotten
    <3>3. QED BY <3>1, <3>2
  <2>3. QED BY <2>1, <2>2
<1>9. QED BY <1>1, <1>2, <1>6, <1>7, <1>8

-----------------------------------------------------------------------------
\* The steps of the callers.
LEMMA CallPreserves ==
  ASSUME IInv, NEW c \in Calls, Begin(c) \/ GotAll(c) \/ GotError(c) \/ Priced(c) \/ Released(c)
  PROVE  IInv'
<1>0. /\ leg \in [Calls -> [Legs -> Leg]] /\ memo \in (Calls \X Legs) \union {None}
      /\ call \in [Calls -> Call] /\ overlapped \in BOOLEAN
      /\ {"state", "deals", "specs", "release"} = Legs
  BY DEF IInv, TypeOK, Legs
<1>1. terminal' = terminal /\ troubles' = troubles
  BY DEF Begin, GotAll, GotError, Priced, Released
<1>2. ASSUME NEW ok \in BOOLEAN, HandsBack(c, ok), call[c].pc \in {"fetch", "price"},
             overlapped' = overlapped
      PROVE  IInv'
  <2>1. CASE KeepDeployed
    <3>1. UNCHANGED <<terminal, memo, leg, troubles, overlapped>>
          /\ call' = [call EXCEPT ![c] = [@ EXCEPT !.pc = "over", !.ok = ok]]
      BY <1>1, <1>2, <2>1 DEF HandsBack, GoesTo
    <3>2. call' \in [Calls -> Call]
      BY <1>0, <3>1 DEF Call
    <3>3. LegsInOrder'
      BY <1>0, <3>1 DEF IInv, LegsInOrder, Call
    <3>4. QED BY <3>1, <3>2, <3>3 DEF IInv, TypeOK, ResultsFollow, AwaitsStarted,
                                     FailureIsForgotten
  <2>2. CASE ~KeepDeployed
    <3> DEFINE f == [leg[c] EXCEPT !["release"] = Provisioning]
    <3>1. /\ call' = [call EXCEPT ![c] = [@ EXCEPT !.pc = "release", !.ok = ok]]
          /\ leg' = [leg EXCEPT ![c]["release"] = Provisioning]
          /\ memo' = <<c, "release">>
      BY <1>2, <2>2 DEF HandsBack, GoesTo, Becomes
    <3>2. f \in [Legs -> Leg] /\ leg' = [leg EXCEPT ![c] = f]
      BY <1>0, <3>1, HelperTypes
    <3>3. leg[c]["release"].pc = "idle"
      BY <1>2 DEF IInv, LegsInOrder
    <3>4. \A l \in Legs : f[l] = leg[c][l] \/ (leg[c][l].pc = "idle" /\ Starts(f[l], memo'))
      BY <1>0, <3>3 DEF Starts
    <3>5. f["release"] = Provisioning /\ "release" \in Legs
      BY <1>0
    <3>6. /\ leg' \in [Calls -> [Legs -> Leg]]
          /\ memo' \in (Calls \X Legs) \union {None}
          /\ ResultsFollow' /\ AwaitsStarted' /\ FailureIsForgotten'
      <4> HIDE DEF f
      <4>1. \E l \in Legs : memo' = <<c, l>> /\ f[l] = Provisioning
        BY <3>1, <3>5
      <4>2. QED BY <3>2, <3>4, <4>1, StartPreserves
    <3>7. call' \in [Calls -> Call]
      BY <1>0, <3>1 DEF Call
    <3>8. LegsInOrder'
      BY <1>0, <3>1 DEF IInv, LegsInOrder, Call
    <3>9. QED BY <1>1, <1>2, <3>6, <3>7, <3>8 DEF IInv, TypeOK
  <2>3. QED BY <2>1, <2>2
<1>3. CASE Begin(c)
  <2>1. PICK kind \in {"sync", "verify"} :
          /\ call[c].pc = "idle"
          /\ call' = [call EXCEPT ![c] = [@ EXCEPT !.pc = "fetch", !.kind = kind]]
          /\ leg' = [leg EXCEPT ![c]["state"] = Resolving(memo),
                                ![c]["deals"] = IF kind = "sync"
                                                THEN Resolving(MemoAfter(c, "state", memo))
                                                ELSE @]
          /\ memo' = MemoAfter(c, "state", memo)
          /\ overlapped' = (overlapped \/ ~Quiet)
    BY <1>3 DEF Begin
  <2> DEFINE f == [leg[c] EXCEPT !["state"] = Resolving(memo),
                                 !["deals"] = IF kind = "sync"
                                              THEN Resolving(MemoAfter(c, "state", memo))
                                              ELSE @]
  <2>2. /\ IdleLeg \in Leg /\ Provisioning \in Leg
        /\ \A m \in Calls \X Legs : [IdleLeg EXCEPT !.pc = "await", !.on = m] \in Leg
    BY HelperTypes, AwaitingTypes
  <2>3. MemoAfter(c, "state", memo) \in (Calls \X Legs) \union {None}
        /\ MemoAfter(c, "state", memo) # None
    <3>1. CASE memo = None
      <4>1. MemoAfter(c, "state", memo) = <<c, "state">>
        BY <3>1 DEF MemoAfter
      <4>2. <<c, "state">> \in Calls \X Legs
        BY <1>0
      <4>3. QED BY <4>1, <4>2, NoneAssumption
    <3>2. CASE memo # None
      BY <1>0, <3>2 DEF MemoAfter
    <3>3. QED BY <3>1, <3>2
  <2>4. Resolving(memo) \in Leg /\ Resolving(MemoAfter(c, "state", memo)) \in Leg
    BY <1>0, <2>2, <2>3 DEF Resolving
  <2>5. f \in [Legs -> Leg] /\ leg' = [leg EXCEPT ![c] = f]
    BY <1>0, <2>1, <2>4
  <2>6. \A l \in Legs : leg[c][l].pc = "idle"
    BY <2>1 DEF IInv, LegsInOrder
  <2>7. /\ Starts(Resolving(memo), memo')
        /\ Starts(Resolving(MemoAfter(c, "state", memo)), memo')
    BY <2>1, <2>3 DEF Starts, Resolving, MemoAfter
  <2>8. \A l \in Legs : f[l] = leg[c][l] \/ (leg[c][l].pc = "idle" /\ Starts(f[l], memo'))
    BY <1>0, <2>6, <2>7
  <2>9. memo' = memo \/ (memo' = <<c, "state">> /\ f["state"] = Provisioning)
    BY <1>0, <2>1 DEF MemoAfter, Resolving
  <2>10. /\ leg' \in [Calls -> [Legs -> Leg]]
         /\ memo' \in (Calls \X Legs) \union {None}
         /\ ResultsFollow' /\ AwaitsStarted' /\ FailureIsForgotten'
    <3> HIDE DEF f
    <3>1. memo' = memo \/ \E l \in Legs : memo' = <<c, l>> /\ f[l] = Provisioning
      BY <1>0, <2>9
    <3>2. QED BY <2>5, <2>8, <3>1, StartPreserves
  <2>11. call' \in [Calls -> Call]
    BY <1>0, <2>1 DEF Call
  <2>12. LegsInOrder'
    <3>1. leg'[c]["specs"].pc = "idle" /\ leg'[c]["release"].pc = "idle"
      BY <1>0, <2>1, <2>6
    <3>2. \A d \in Calls : d # c => leg'[d] = leg[d] /\ call'[d] = call[d]
      BY <1>0, <2>1
    <3>3. call'[c].pc = "fetch"
      BY <1>0, <2>1 DEF Call
    <3>4. QED BY <3>1, <3>2, <3>3 DEF IInv, LegsInOrder
  <2>13. overlapped' \in BOOLEAN
    BY <1>0, <2>1
  <2>14. QED BY <1>1, <2>10, <2>11, <2>12, <2>13 DEF IInv, TypeOK
<1>4. CASE GotAll(c)
  <2>0. overlapped' = overlapped /\ call[c].pc = "fetch"
    BY <1>4 DEF GotAll
  <2>1. CASE call[c].kind = "verify"
    <3>1. UNCHANGED <<terminal, memo, leg, troubles, overlapped>>
          /\ call' = [call EXCEPT ![c] = [@ EXCEPT !.pc = "over", !.ok = TRUE]]
      BY <1>4, <2>1 DEF GotAll, GoesTo
    <3>2. call' \in [Calls -> Call]
      BY <1>0, <3>1 DEF Call
    <3>3. LegsInOrder'
      BY <1>0, <3>1 DEF IInv, LegsInOrder, Call
    <3>4. QED BY <3>1, <3>2, <3>3 DEF IInv, TypeOK, ResultsFollow, AwaitsStarted,
                                     FailureIsForgotten
  <2>2. CASE call[c].kind # "verify" /\ UNCHANGED <<leg, memo>>
    <3>1. UNCHANGED <<terminal, troubles>>
          /\ call' = [call EXCEPT ![c] = [@ EXCEPT !.pc = "price", !.ok = FALSE]]
      BY <1>4, <2>2 DEF GotAll, Prices, GoesTo
    <3>2. call' \in [Calls -> Call]
      BY <1>0, <3>1 DEF Call
    <3>3. LegsInOrder'
      BY <1>0, <2>0, <2>2, <3>1 DEF IInv, LegsInOrder, Call
    <3>4. QED BY <2>0, <2>2, <3>1, <3>2, <3>3 DEF IInv, TypeOK, ResultsFollow, AwaitsStarted,
                                     FailureIsForgotten
  <2>3. CASE call[c].kind # "verify" /\ ~UNCHANGED <<leg, memo>>
    <3> DEFINE f == [leg[c] EXCEPT !["specs"] = Resolving(memo)]
    <3>1. /\ call' = [call EXCEPT ![c] = [@ EXCEPT !.pc = "price", !.ok = FALSE]]
          /\ leg' = [leg EXCEPT ![c]["specs"] = Resolving(memo)]
          /\ memo' = MemoAfter(c, "specs", memo)
      BY <1>4, <2>3 DEF GotAll, Prices, GoesTo, Becomes
    <3>2. Resolving(memo) \in Leg
      <4>1. [IdleLeg EXCEPT !.pc = "await", !.on = memo] \in Leg
        BY <1>0, AwaitingTypes
      <4>2. QED BY <4>1, HelperTypes DEF Resolving
    <3>3. f \in [Legs -> Leg] /\ leg' = [leg EXCEPT ![c] = f]
      BY <1>0, <3>1, <3>2
    <3>4. leg[c]["specs"].pc = "idle"
      BY <2>0 DEF IInv, LegsInOrder
    <3>5. Starts(Resolving(memo), memo')
      BY <3>1 DEF Starts, Resolving, MemoAfter
    <3>6. \A l \in Legs : f[l] = leg[c][l] \/ (leg[c][l].pc = "idle" /\ Starts(f[l], memo'))
      BY <1>0, <3>4, <3>5
    <3>7. memo' = memo \/ (memo' = <<c, "specs">> /\ f["specs"] = Provisioning)
      BY <1>0, <3>1 DEF MemoAfter, Resolving
    <3>8. /\ leg' \in [Calls -> [Legs -> Leg]]
          /\ memo' \in (Calls \X Legs) \union {None}
          /\ ResultsFollow' /\ AwaitsStarted' /\ FailureIsForgotten'
      <4> HIDE DEF f
      <4>1. memo' = memo \/ \E l \in Legs : memo' = <<c, l>> /\ f[l] = Provisioning
        BY <1>0, <3>7
      <4>2. QED BY <3>3, <3>6, <4>1, StartPreserves
    <3>9. call' \in [Calls -> Call]
      BY <1>0, <3>1 DEF Call
    <3>10. LegsInOrder'
      BY <1>0, <2>0, <3>1 DEF IInv, LegsInOrder, Call
    <3>11. QED BY <1>1, <2>0, <3>8, <3>9, <3>10 DEF IInv, TypeOK
  <2>4. QED BY <2>1, <2>2, <2>3
<1>5. CASE GotError(c)
  <2>0. overlapped' = overlapped /\ call[c].pc = "fetch"
    BY <1>5 DEF GotError
  <2>1. CASE call[c].kind = "verify"
    <3>1. UNCHANGED <<terminal, memo, leg, troubles, overlapped>>
          /\ call' = [call EXCEPT ![c] = [@ EXCEPT !.pc = "over", !.ok = FALSE]]
      BY <1>5, <2>1 DEF GotError, GoesTo
    <3>2. call' \in [Calls -> Call]
      BY <1>0, <3>1 DEF Call
    <3>3. LegsInOrder'
      BY <1>0, <3>1 DEF IInv, LegsInOrder, Call
    <3>4. QED BY <3>1, <3>2, <3>3 DEF IInv, TypeOK, ResultsFollow, AwaitsStarted,
                                     FailureIsForgotten
  <2>2. CASE call[c].kind # "verify"
    <3>1. HandsBack(c, FALSE)
      BY <1>5, <2>2 DEF GotError
    <3>2. QED BY <1>2, <2>0, <3>1
  <2>3. QED BY <2>1, <2>2
<1>6. CASE Priced(c)
  BY <1>2, <1>6 DEF Priced
<1>7. CASE Released(c)
  <2>1. UNCHANGED <<terminal, memo, leg, troubles, overlapped>>
        /\ call' = [call EXCEPT ![c] = [@ EXCEPT !.pc = "over", !.ok = call[c].ok]]
    BY <1>7 DEF Released, GoesTo
  <2>2. call' \in [Calls -> Call]
    BY <1>0, <2>1 DEF Call
  <2>3. LegsInOrder'
    BY <1>0, <2>1 DEF IInv, LegsInOrder, Call
  <2>4. QED BY <2>1, <2>2, <2>3 DEF IInv, TypeOK, ResultsFollow, AwaitsStarted,
                                   FailureIsForgotten
<1>8. QED BY <1>3, <1>4, <1>5, <1>6, <1>7

-----------------------------------------------------------------------------
\* No leg is started when the process comes up, and nothing is remembered.
LEMMA InitInv == Init => IInv
<1> SUFFICES ASSUME Init PROVE IInv
  OBVIOUS
<1>1. terminal \in [Ids -> Statuses]
  BY DEF Init, Nothing, Statuses
<1>2. leg \in [Calls -> [Legs -> Leg]]
  BY HelperTypes DEF Init
<1>3. \A c \in Calls, l \in Legs : leg[c][l].pc = "idle" /\ leg[c][l].result = "none"
  BY DEF Init, IdleLeg
<1>4. \A c \in Calls : call[c].pc = "idle" /\ call[c] \in Call
  BY DEF Init, Call
<1>5. call \in [Calls -> Call] /\ memo = None /\ overlapped \in BOOLEAN
  BY DEF Init, Call
<1>5b. troubles \in 0..MaxTroubles
  BY TimeoutAssumption DEF Init
<1>6. TypeOK
  BY <1>1, <1>2, <1>5, <1>5b DEF TypeOK
<1>7. {"specs", "release"} \subseteq Legs
  BY DEF Legs
<1>8. QED BY <1>3, <1>4, <1>5, <1>6, <1>7 DEF IInv, ResultsFollow, LegsInOrder, AwaitsStarted,
                                             FailureIsForgotten

\* Every step preserves the invariant.
LEMMA NextInv == IInv /\ [Next]_vars => IInv'
<1> SUFFICES ASSUME IInv, [Next]_vars PROVE IInv'
  OBVIOUS
<1>1. ASSUME NEW c \in Calls, NEW l \in Legs, LegStep(c, l) PROVE IInv'
  <2>1. call' = call /\ overlapped' = overlapped
    BY <1>1, StepMoves DEF IInv
  <2>2. PICK r \in Leg : LegMoves(c, l, r)
    BY <1>1, StepMoves DEF IInv
  <2>3. /\ leg' \in [Calls -> [Legs -> Leg]]
        /\ memo' \in (Calls \X Legs) \union {None}
        /\ ResultsFollow' /\ LegsInOrder' /\ AwaitsStarted' /\ FailureIsForgotten'
    BY <2>1, <2>2, MovePreserves
  <2>4. terminal' \in [Ids -> Statuses] /\ troubles' \in 0..MaxTroubles
    BY <1>1, TerminalTypes DEF IInv
  <2>5. QED BY <2>1, <2>3, <2>4 DEF IInv, TypeOK
<1>2. ASSUME NEW i \in Ids, Wake(i) \/ GoesDown(i) PROVE IInv'
  <2>1. UNCHANGED <<memo, leg, call, overlapped>>
    BY <1>2 DEF Wake, GoesDown
  <2>2. terminal' \in [Ids -> Statuses]
    BY <1>2 DEF Wake, GoesDown, IInv, TypeOK, Statuses
  <2>3. troubles' \in 0..MaxTroubles
    BY <1>2, TimeoutAssumption DEF Wake, GoesDown, Trouble, IInv, TypeOK
  <2>4. QED BY <2>1, <2>2, <2>3 DEF IInv, TypeOK, ResultsFollow, LegsInOrder, AwaitsStarted,
                                   FailureIsForgotten
<1>3. CASE UNCHANGED vars
  BY <1>3 DEF vars, IInv, TypeOK, ResultsFollow, LegsInOrder, AwaitsStarted, FailureIsForgotten
<1>4. QED BY <1>1, <1>2, <1>3, CallPreserves DEF Next, Runs

\* IInv is inductive, so it holds throughout.
THEOREM Invariance == Spec => []IInv
BY InitInv, NextInv, PTL DEF Spec

\* The types of terminals, legs and calls.
THEOREM TypeCorrect == Spec => []TypeOK
<1>1. IInv => TypeOK
  BY DEF IInv
<1>2. QED BY <1>1, Invariance, PTL

(***************************************************************************)
(* The memo of resolveAccountId never answers with a provisioning that     *)
(* failed, whatever overlaps.                                              *)
(***************************************************************************)
THEOREM FailuresForgotten == Spec => []FailureIsForgotten
<1>1. IInv => FailureIsForgotten
  BY DEF IInv
<1>2. QED BY <1>1, Invariance, PTL

(***************************************************************************)
(* No leg awaits a provisioning that nobody carries on: what it awaits is  *)
(* under way or over, for any number of calls that empty and refill the    *)
(* memo meanwhile.                                                         *)
(***************************************************************************)
THEOREM NobodyIsStranded == Spec => []AwaitedIsCarriedOn
<1>1. IInv => AwaitedIsCarriedOn
  <2> SUFFICES ASSUME IInv, NEW c \in Calls, NEW l \in Legs, leg[c][l].pc = "await"
               PROVE  LET o == leg[leg[c][l].on[1]][leg[c][l].on[2]]
                      IN  o.pc \in Provisions \/ o.result \in {"ok", "failed"}
    BY DEF AwaitedIsCarriedOn
  <2> DEFINE on == leg[c][l].on
             o  == leg[on[1]][on[2]]
  <2>1. on # None /\ o.result # "none"
    BY DEF IInv, AwaitsStarted
  <2>2. on \in (Calls \X Legs) \union {None}
    BY DEF IInv, TypeOK, Leg
  <2>3. on[1] \in Calls /\ on[2] \in Legs
    BY <2>1, <2>2
  <2>4. o.result \in {"none", "pending", "failed", "ok"}
    BY <2>3 DEF IInv, TypeOK, Leg
  <2>5. o.result = "pending" => o.pc \in Provisions
    BY <2>3 DEF IInv, ResultsFollow
  <2>6. QED BY <2>1, <2>4, <2>5
<1>2. QED BY <1>1, Invariance, PTL

-----------------------------------------------------------------------------
(* What the terminal goes through, while no two calls overlap. *)

(***************************************************************************)
(* The second half of the inductive invariant.  A leg that works on a      *)
(* registration works on one there is; at most one leg of a call           *)
(* provisions, which one follows from where the call is; and a release is  *)
(* on its own.  With one call at a time that leaves one registration.      *)
(***************************************************************************)
Holding == {"settle", "wait", "read", "undeploy"}

IdsRegistered ==
  \A c \in Calls, l \in Legs :
     leg[c][l].pc \in Holding \/ leg[c][l].result = "ok" => leg[c][l].id \in Registered

Phase(l) == IF l = "state" THEN "fetch" ELSE IF l = "specs" THEN "price" ELSE "release"

InTurn ==
  \A c \in Calls, l \in Legs : leg[c][l].pc \in Provisions =>
     leg[c][l].result = "pending" /\ l # "deals" /\ call[c].pc = Phase(l)

DealsShare ==
  \A c \in Calls : leg[c]["state"].pc \in Provisions /\ leg[c]["deals"].pc # "idle" =>
     leg[c]["deals"].pc = "await" /\ leg[c]["deals"].on = <<c, "state">>

ReleaseOnItsOwn ==
  \A c \in Calls : /\ leg[c]["release"].pc \notin {"await", "wait", "read"}
                   /\ \A l \in Legs \ {"release"} : leg[c][l].pc # "undeploy"

Settled(c, l) == leg[c][l].pc = "idle" \/ Ended(c, l)

AnswersInOrder ==
  \A c \in Calls :
     /\ call[c].pc = "price" => Ended(c, "state") /\ Ended(c, "deals")
     /\ call[c].kind = "verify" => leg[c]["deals"].pc = "idle"
     /\ call[c].ok => /\ call[c].pc \in {"release", "over"}
                      /\ \A l \in Legs \ {"release"} : Settled(c, l)

Alone == ~overlapped => \A c, d \in Calls : Busy(c) /\ Busy(d) => c = d

OneRegistration ==
  ~overlapped => /\ \A i, j \in Registered : i = j
                 /\ \A c \in Calls, l \in Legs : leg[c][l].pc = "create" => Registered = {}

AllFreed == /\ ~overlapped
            /\ \E c \in Calls : Freed(c)
            /\ \A c \in Calls : call[c].pc # "idle" => Freed(c)

LeavesStopped == AllFreed => \A i \in Ids : terminal[i] \in {"absent", "stopped"}

Orderly == IdsRegistered /\ InTurn /\ DealsShare /\ ReleaseOnItsOwn /\ AnswersInOrder

RInv == Orderly /\ Alone /\ OneRegistration /\ LeavesStopped

-----------------------------------------------------------------------------
\* A rejection ends a leg, and its id is of use only if it had been resolved.
Failed(r, q) == q.pc = "failed" /\ (q.result = "ok" => r.result = "ok" /\ q.id = r.id)

\* A leg that sleeps is where it was.
Asleep(r, q) == q.pc = r.pc /\ q.id = r.id /\ q.result = r.result

LEMMA EndsFailed ==
  ASSUME NEW r \in Leg, NEW pc
  PROVE  /\ Ends(r, pc).pc = pc /\ Ends(r, pc).result = r.result
         /\ r.result = "ok" => Ends(r, pc).id = r.id
BY DEF Ends, GoesOn, IdleLeg, Leg

LEMMA RejectedLeg ==
  ASSUME TypeOK, NEW c \in Calls, NEW l \in Legs, Rejects(c, l)
  PROVE  Failed(leg[c][l], leg'[c][l])
<1> DEFINE r == leg[c][l]
           x == [r EXCEPT !.result = "failed"]
<1>0. r \in Leg
  BY DEF TypeOK
<1>1. x \in Leg /\ x.result = "failed"
  BY <1>0 DEF Leg
<1>2. CASE r.pc \in Provisions
  <2>1. leg'[c][l] = Ends(x, "failed")
    BY <1>2 DEF Rejects, Becomes, TypeOK
  <2> HIDE DEF x, r
  <2> QED BY <1>1, <2>1, EndsFailed DEF Failed, r
<1>3. CASE r.pc \notin Provisions
  <2>1. leg'[c][l] = Ends(r, "failed")
    BY <1>3 DEF Rejects, Becomes, TypeOK
  <2> QED BY <1>0, <2>1, EndsFailed DEF Failed
<1> QED BY <1>2, <1>3

LEMMA PolledLeg ==
  ASSUME TypeOK, NEW c \in Calls, NEW l \in Legs, NEW x \in Leg, Asleep(leg[c][l], x),
         GivesUpOrSleeps(c, l, x)
  PROVE  Failed(leg[c][l], leg'[c][l]) \/ Asleep(leg[c][l], leg'[c][l])
<1>1. CASE x.polls = 0
  BY <1>1, RejectedLeg DEF GivesUpOrSleeps
<1>2. CASE x.polls # 0
  <2>1. leg'[c][l] = [x EXCEPT !.polls = @ - 1]
    BY <1>2 DEF GivesUpOrSleeps, Becomes, TypeOK
  <2> QED BY <2>1 DEF Asleep, Leg
<1> QED BY <1>1, <1>2

-----------------------------------------------------------------------------
\* What a leg does to the registrations: registers one, deploys one or stops its own.
Registers(i) == terminal[i] = "absent" /\ terminal' = [terminal EXCEPT ![i] = "starting"]
Deploys(i)   == terminal[i] = "stopped" /\ terminal' = [terminal EXCEPT ![i] = "starting"]
Stops(i)     == terminal' = [terminal EXCEPT ![i] = "stopped"]

MovesTerminal(r, q) ==
  \/ terminal' = terminal
  \/ \E i \in Ids : Deploys(i)
  \/ r.pc = "create" /\ \E i \in Ids : Registers(i)
  \/ r.pc = "undeploy" /\ q.pc = "done" /\ r.id \in Registered /\ Stops(r.id)

\* What a step of leg l of call c does to it, besides what LegMoves says.
Effect(c, l) ==
  LET r == leg[c][l]
      q == leg'[c][l]
  IN  /\ r.pc \notin {"idle", "done", "failed"}
      /\ q.pc \in Provisions => r.pc \in Provisions /\ q.result = r.result
      /\ q.pc = "create" => terminal' = terminal /\ (r.pc = "create" \/ Registered = {})
      /\ q.pc \in Holding \/ q.result = "ok" => q.id \in Registered'
      /\ r.pc = "await" => leg[r.on[1]][r.on[2]].result # "pending"
      /\ q.pc \in {"await", "wait", "read"} => l # "release"
      /\ q.pc = "undeploy" => l = "release"
      /\ q.pc = "read" => /\ terminal' = terminal
                          /\ terminal[q.id] # "stopped" \/ (r.pc = "read" /\ q.id = r.id)
      /\ q.pc = "done" => r.pc \in {"read", "undeploy"}
      /\ r.pc = "undeploy" /\ q.pc = "done" => Stops(r.id)
      /\ MovesTerminal(r, q)

\* No registration is ever removed.
LEMMA StayRegistered ==
  ASSUME TypeOK, NEW c \in Calls, NEW l \in Legs, MovesTerminal(leg[c][l], leg'[c][l])
  PROVE  /\ Registered \subseteq Registered'
         /\ leg[c][l].pc # "create" => Registered' = Registered
<1> DEFINE r == leg[c][l]
<1>0. terminal \in [Ids -> Statuses]
  BY DEF TypeOK
<1>1. CASE terminal' = terminal
  BY <1>1 DEF Registered
<1>2. ASSUME NEW i \in Ids, Deploys(i) PROVE Registered' = Registered
  BY <1>0, <1>2 DEF Deploys, Registered
<1>3. ASSUME NEW i \in Ids, Registers(i) PROVE Registered \subseteq Registered'
  BY <1>0, <1>3 DEF Registers, Registered
<1>4. CASE Stops(r.id) /\ r.id \in Registered
  BY <1>0, <1>4 DEF Stops, Registered
<1> QED BY <1>1, <1>2, <1>3, <1>4 DEF MovesTerminal

\* A leg that has failed, or sleeps, has the effects of a leg's step.
LEMMA GivingUp ==
  ASSUME TypeOK, Orderly, NEW c \in Calls, NEW l \in Legs,
         leg[c][l].pc \notin {"idle", "done", "failed", "await"},
         \/ Failed(leg[c][l], leg'[c][l])
         \/ /\ Asleep(leg[c][l], leg'[c][l])
            /\ leg[c][l].pc \in {"create", "read"} => terminal' = terminal,
         MovesTerminal(leg[c][l], leg'[c][l])
  PROVE  Effect(c, l)
<1> DEFINE r == leg[c][l]
           q == leg'[c][l]
<1>1. Registered \subseteq Registered'
  BY StayRegistered
<1>2. r.pc \in Holding \/ r.result = "ok" => r.id \in Registered
  BY DEF Orderly, IdsRegistered
<1>3. l = "release" => r.pc \notin {"await", "wait", "read"}
  BY DEF Orderly, ReleaseOnItsOwn
<1>4. l # "release" => r.pc # "undeploy"
  BY DEF Orderly, ReleaseOnItsOwn
<1> HIDE DEF r, q
<1>5. CASE Failed(r, q)
  BY <1>1, <1>2, <1>5 DEF Failed, Effect, Holding, Provisions, r, q
<1>6. CASE Asleep(r, q)
  BY <1>1, <1>2, <1>3, <1>4, <1>6 DEF Asleep, Failed, Effect, Holding, r, q
<1> QED BY <1>5, <1>6 DEF r, q

\* Every step of a leg has these effects.
LEMMA StepEffects ==
  ASSUME IInv, Orderly, NEW c \in Calls, NEW l \in Legs, LegStep(c, l)
  PROVE  Effect(c, l)
<1> DEFINE r == leg[c][l]
           q == leg'[c][l]
<1>t. TypeOK /\ r \in Leg /\ leg \in [Calls -> [Legs -> Leg]]
      /\ terminal \in [Ids -> Statuses]
  BY DEF IInv, TypeOK
<1>i. r.pc \in Holding \/ r.result = "ok" => r.id \in Registered
  BY DEF Orderly, IdsRegistered
<1>r. r.pc \in Provisions => r.result = "pending"
  BY DEF Orderly, InTurn
<1>o. /\ l = "release" => r.pc \notin {"await", "wait", "read"}
      /\ l # "release" => r.pc # "undeploy"
  BY DEF Orderly, ReleaseOnItsOwn
<1>1. CASE Find(c, l)
  <2>1. terminal' = terminal /\ r.pc = "find"
    BY <1>1 DEF Find
  <2>2. CASE Registered = {}
    <3>1. q = [r EXCEPT !.pc = "create"]
      BY <1>1, <1>t, <2>2 DEF Find, Becomes
    <3> QED BY <1>t, <1>r, <2>1, <2>2, <3>1 DEF Effect, Leg, Holding, Provisions, MovesTerminal
  <2>3. CASE Registered # {}
    <3>a. PICK i \in Registered : Becomes(c, l, [r EXCEPT !.pc = "settle", !.id = i])
      BY <1>1, <2>3 DEF Find
    <3>1. q = [r EXCEPT !.pc = "settle", !.id = i]
      BY <1>t, <3>a DEF Becomes
    <3>2. i \in Registered'
      BY <2>1 DEF Registered
    <3> QED BY <1>t, <1>r, <2>1, <3>1, <3>2 DEF Effect, Leg, Holding, Provisions, MovesTerminal
  <2> QED BY <2>2, <2>3
<1>2. CASE Create(c, l)
  <2> DEFINE i == Free(terminal)
  <2>1. i \in Ids /\ terminal[i] = "absent"
    BY <1>2 DEF Create, Free, Registered
  <2>2. r.pc = "create" /\ q = [r EXCEPT !.pc = "settle", !.id = i] /\ Registers(i)
    BY <1>2, <1>t, <2>1 DEF Create, Becomes, Registers
  <2>3. i \in Registered'
    BY <1>t, <2>1, <2>2 DEF Registers, Registered
  <2> HIDE DEF i
  <2>4. q.pc = "settle" /\ q.id = i /\ q.result = r.result
    BY <1>t, <2>2 DEF Leg
  <2> QED BY <1>r, <2>1, <2>2, <2>3, <2>4 DEF Effect, Holding, Provisions, MovesTerminal
<1>3. CASE Detecting(c, l)
  <2>1. r.pc = "create" /\ terminal' = terminal /\ GivesUpOrSleeps(c, l, r)
    BY <1>3 DEF Detecting
  <2>2. Failed(r, q) \/ Asleep(r, q)
    BY <1>t, <2>1, PolledLeg DEF Asleep
  <2> QED BY <1>t, <2>1, <2>2, GivingUp DEF MovesTerminal
<1>4. CASE LostAnswer(c, l)
  <2> DEFINE i == Free(terminal)
  <2>1. i \in Ids /\ terminal[i] = "absent"
    BY <1>4 DEF LostAnswer, Free, Registered
  <2>2. r.pc = "create" /\ Registers(i) /\ Rejects(c, l)
    BY <1>4, <2>1 DEF LostAnswer, Registers
  <2>3. Failed(r, q)
    BY <1>t, <2>2, RejectedLeg
  <2>4. MovesTerminal(r, q)
    BY <2>1, <2>2 DEF MovesTerminal
  <2> QED BY <1>t, <2>2, <2>3, <2>4, GivingUp
<1>5. CASE Await(c, l)
  <2> DEFINE o == leg[r.on[1]][r.on[2]]
  <2>1. r.pc = "await" /\ terminal' = terminal /\ o.result \in {"ok", "failed"}
    BY <1>5 DEF Await
  <2>2. r.on \in Calls \X Legs
    BY <1>t, <2>1 DEF IInv, AwaitsStarted, Leg
  <2>3. o.result = "ok" => o.id \in Registered
    BY <2>2 DEF Orderly, IdsRegistered
  <2>4. r.result # "ok" \/ r.id \in Registered
    BY <1>i
  <2>5. Registered' = Registered
    BY <2>1 DEF Registered
  <2>6. \/ q.pc = "wait" /\ q.id = o.id /\ o.result = "ok"
        \/ q.pc = "failed" /\ q.result = r.result /\ (q.result = "ok" => q.id = r.id)
    <3>1. CASE o.result = "ok"
      <4>1. q = GoesOn(r, "wait", o.id, ReadyTimeout)
        BY <1>5, <1>t, <3>1 DEF Await, Becomes
      <4> QED BY <3>1, <4>1 DEF GoesOn, IdleLeg
    <3>2. CASE o.result # "ok"
      <4>1. q = Ends(r, "failed")
        BY <1>5, <1>t, <3>2 DEF Await, Becomes
      <4> QED BY <1>t, <4>1, EndsFailed
    <3> QED BY <3>1, <3>2
  <2> HIDE DEF r, q, o
  <2> QED BY <1>o, <2>1, <2>3, <2>4, <2>5, <2>6
          DEF Effect, Holding, Provisions, MovesTerminal, r, q, o
<1>6. CASE Ready(c, l)
  <2>1. r.pc \in {"settle", "wait"} /\ terminal' = terminal /\ IsReady(r.id)
    BY <1>6 DEF Ready
  <2>2. r.id \in Registered /\ Registered' = Registered
    BY <1>i, <2>1 DEF Holding, Registered
  <2>3. \/ q.pc = "read" /\ q.id = r.id /\ r.pc = "wait"
        \/ q.pc = "undeploy" /\ q.id = r.id /\ l = "release"
        \/ q.pc = "wait" /\ q.id = r.id /\ l # "release"
    <3>1. CASE r.pc = "wait"
      <4>1. q = GoesOn(r, "read", r.id, ReadyTimeout)
        BY <1>6, <1>t, <3>1 DEF Ready, Becomes
      <4> QED BY <3>1, <4>1 DEF GoesOn, IdleLeg
    <3> DEFINE ok == [r EXCEPT !.result = "ok"]
    <3>2. CASE r.pc # "wait" /\ l = "release"
      <4>1. q = GoesOn(ok, "undeploy", r.id, 0)
        BY <1>6, <1>t, <3>2 DEF Ready, Becomes
      <4> QED BY <3>2, <4>1 DEF GoesOn, IdleLeg
    <3>3. CASE r.pc # "wait" /\ l # "release"
      <4>1. q = GoesOn(ok, "wait", r.id, ReadyTimeout)
        BY <1>6, <1>t, <3>3 DEF Ready, Becomes
      <4> QED BY <3>3, <4>1 DEF GoesOn, IdleLeg
    <3> QED BY <3>1, <3>2, <3>3
  <2> HIDE DEF r, q
  <2> QED BY <1>o, <2>1, <2>2, <2>3 DEF Effect, Holding, Provisions, MovesTerminal, IsReady, r, q
<1>7. CASE NotReady(c, l)
  <2>1. r.pc \in {"settle", "wait"} /\ terminal' = terminal
    BY <1>7 DEF NotReady
  <2>2. Failed(r, q) \/ Asleep(r, q)
    <3>1. CASE r.asked = "no" /\ terminal[r.id] = "stopped"
      <4>1. q = [r EXCEPT !.asked = "now"]
        BY <1>7, <1>t, <3>1 DEF NotReady, Becomes
      <4> QED BY <1>t, <4>1 DEF Asleep, Leg
    <3>2. CASE ~(r.asked = "no" /\ terminal[r.id] = "stopped")
      <4>1. GivesUpOrSleeps(c, l, r)
        BY <1>7, <3>2 DEF NotReady
      <4> QED BY <1>t, <4>1, PolledLeg DEF Asleep
    <3> QED BY <3>1, <3>2
  <2> QED BY <1>t, <2>1, <2>2, GivingUp DEF MovesTerminal
<1>8. CASE Deploy(c, l)
  <2> DEFINE x == [r EXCEPT !.asked = "yes"]
  <2>1. r.pc \in {"settle", "wait"} /\ GivesUpOrSleeps(c, l, x)
        /\ terminal' = [terminal EXCEPT ![r.id] = IF @ = "stopped" THEN "starting" ELSE @]
    BY <1>8 DEF Deploy
  <2>2. x \in Leg /\ Asleep(r, x)
    BY <1>t DEF Asleep, Leg
  <2> HIDE DEF x
  <2>3. Failed(r, q) \/ Asleep(r, q)
    BY <1>t, <2>1, <2>2, PolledLeg
  <2>4. r.id \in Ids
    BY <1>i, <2>1 DEF Holding, Registered
  <2>5. MovesTerminal(r, q)
    BY <1>t, <2>1, <2>4 DEF MovesTerminal, Deploys
  <2> QED BY <1>t, <2>1, <2>3, <2>5, GivingUp
<1>9. CASE Read(c, l)
  <2>1. r.pc = "read" /\ terminal' = terminal
    BY <1>9 DEF Read
  <2>2. CASE l = "specs" \/ terminal[r.id] = "readable"
    <3>1. q = Ends(r, "done")
      BY <1>9, <1>t, <2>2 DEF Read, Becomes
    <3>2. q.pc = "done" /\ (q.result = "ok" => q.id = r.id) /\ r.id \in Registered'
      BY <1>t, <1>i, <2>1, <3>1, EndsFailed DEF Holding, Registered
    <3> HIDE DEF r, q
    <3> QED BY <2>1, <3>2 DEF Effect, Holding, Provisions, MovesTerminal, r, q
  <2>3. CASE ~(l = "specs" \/ terminal[r.id] = "readable")
    <3>1. GivesUpOrSleeps(c, l, r)
      BY <1>9, <2>3 DEF Read
    <3>2. Failed(r, q) \/ Asleep(r, q)
      BY <1>t, <3>1, PolledLeg DEF Asleep
    <3> QED BY <1>t, <2>1, <3>2, GivingUp DEF MovesTerminal
  <2> QED BY <2>2, <2>3
<1>10. CASE Undeploy(c, l)
  <2>1. r.pc = "undeploy" /\ Stops(r.id) /\ r.id \in Registered
    BY <1>10, <1>i DEF Undeploy, Stops, Holding
  <2>2. q = Ends(r, "done")
    BY <1>10, <1>t DEF Undeploy, Becomes
  <2>3. q.pc = "done" /\ (q.result = "ok" => q.id = r.id)
    BY <1>t, <2>2, EndsFailed
  <2>4. r.id \in Registered'
    BY <1>t, <2>1 DEF Stops, Registered
  <2> HIDE DEF r, q
  <2> QED BY <2>1, <2>3, <2>4 DEF Effect, Holding, Provisions, MovesTerminal, r, q
<1>11. CASE Fails(c, l)
  <2>1. /\ r.pc \in {"find", "create", "settle", "wait", "read", "undeploy"}
        /\ terminal' = terminal /\ Rejects(c, l)
    BY <1>11 DEF Fails
  <2>2. Failed(r, q)
    BY <1>t, <2>1, RejectedLeg
  <2> QED BY <1>t, <2>1, <2>2, GivingUp DEF MovesTerminal
<1> QED BY <1>1, <1>2, <1>3, <1>4, <1>5, <1>6, <1>7, <1>8, <1>9, <1>10, <1>11 DEF LegStep

-----------------------------------------------------------------------------
(* Each part of RInv survives the step of a leg. *)

\* What such a step leaves alone, and what becomes of the leg.
LEMMA LegFacts ==
  ASSUME IInv, Orderly, NEW c \in Calls, NEW l \in Legs, LegStep(c, l)
  PROVE  /\ call' = call /\ overlapped' = overlapped
         /\ Effect(c, l)
         /\ leg'[c][l].pc \notin {"idle", "await"}
         /\ \A d \in Calls, m \in Legs : <<d, m>> # <<c, l>> => leg'[d][m] = leg[d][m]
         /\ Registered \subseteq Registered'
<1>1. call' = call /\ overlapped' = overlapped
  BY StepMoves DEF IInv
<1>2. PICK r \in Leg : LegMoves(c, l, r)
  BY StepMoves DEF IInv
<1>3. leg \in [Calls -> [Legs -> Leg]]
  BY DEF IInv, TypeOK
<1>4. leg'[c][l].pc \notin {"idle", "await"}
  BY <1>2, <1>3 DEF LegMoves
<1>5. \A d \in Calls, m \in Legs : <<d, m>> # <<c, l>> => leg'[d][m] = leg[d][m]
  BY <1>2, <1>3 DEF LegMoves
<1>6. Effect(c, l)
  BY StepEffects
<1>7. Registered \subseteq Registered'
  BY <1>6, StayRegistered DEF IInv, Effect
<1> QED BY <1>1, <1>4, <1>5, <1>6, <1>7

LEMMA LegKeepsOrder ==
  ASSUME IInv, RInv, NEW c \in Calls, NEW l \in Legs, LegStep(c, l)
  PROVE  Orderly'
<1> DEFINE r == leg[c][l]
           q == leg'[c][l]
<1>0. Orderly
  BY DEF RInv
<1>1. /\ call' = call /\ overlapped' = overlapped /\ Effect(c, l)
      /\ q.pc \notin {"idle", "await"}
      /\ \A d \in Calls, m \in Legs : <<d, m>> # <<c, l>> => leg'[d][m] = leg[d][m]
      /\ Registered \subseteq Registered'
  BY <1>0, LegFacts
<1>2. {"state", "deals", "specs", "release"} = Legs
  BY DEF Legs
<1>3. IdsRegistered'
  <2> SUFFICES ASSUME NEW d \in Calls, NEW m \in Legs,
                      leg'[d][m].pc \in Holding \/ leg'[d][m].result = "ok"
               PROVE  leg'[d][m].id \in Registered'
    BY DEF IdsRegistered
  <2>1. CASE <<d, m>> = <<c, l>>
    BY <1>1, <2>1 DEF Effect
  <2>2. CASE <<d, m>> # <<c, l>>
    BY <1>0, <1>1, <2>2 DEF Orderly, IdsRegistered
  <2> QED BY <2>1, <2>2
<1>4. InTurn'
  <2> SUFFICES ASSUME NEW d \in Calls, NEW m \in Legs, leg'[d][m].pc \in Provisions
               PROVE  leg'[d][m].result = "pending" /\ m # "deals" /\ call'[d].pc = Phase(m)
    BY DEF InTurn
  <2>1. leg[d][m].pc \in Provisions /\ leg'[d][m].result = leg[d][m].result
    BY <1>1 DEF Effect
  <2> QED BY <1>0, <1>1, <2>1 DEF Orderly, InTurn
<1>5. DealsShare'
  <2> SUFFICES ASSUME NEW d \in Calls, leg'[d]["state"].pc \in Provisions,
                      leg'[d]["deals"].pc # "idle"
               PROVE  leg'[d]["deals"].pc = "await" /\ leg'[d]["deals"].on = <<d, "state">>
    BY DEF DealsShare
  <2>1. leg[d]["state"].pc \in Provisions
    BY <1>1, <1>2 DEF Effect
  <2>2. leg[d]["deals"].pc # "idle"
    BY <1>1, <1>2 DEF Effect
  <2>3. leg[d]["deals"].pc = "await" /\ leg[d]["deals"].on = <<d, "state">>
    BY <1>0, <2>1, <2>2 DEF Orderly, DealsShare
  <2>4. leg[d]["state"].result = "pending"
    BY <1>0, <1>2, <2>1 DEF Orderly, InTurn
  <2>5. <<d, "deals">> # <<c, l>>
    BY <1>1, <2>3, <2>4 DEF Effect
  <2> QED BY <1>1, <1>2, <2>3, <2>5
<1>6. ReleaseOnItsOwn'
  BY <1>0, <1>1, <1>2 DEF Orderly, ReleaseOnItsOwn, Effect
<1>7. AnswersInOrder'
  <2>1. \A d \in Calls, m \in Legs : Ended(d, m) => leg'[d][m] = leg[d][m]
    BY <1>1 DEF Ended, Effect
  <2>2. \A d \in Calls, m \in Legs : leg[d][m].pc = "idle" => leg'[d][m] = leg[d][m]
    BY <1>1 DEF Effect
  <2> QED BY <1>0, <1>1, <1>2, <2>1, <2>2 DEF Orderly, AnswersInOrder, Settled, Ended
<1> QED BY <1>3, <1>4, <1>5, <1>6, <1>7 DEF Orderly

\* A leg that provisions makes its call busy, and is the only one of its call.
LEMMA OneProvisions ==
  ASSUME InTurn, NEW c \in Calls, NEW l \in Legs, NEW m \in Legs,
         leg[c][l].pc \in Provisions, leg[c][m].pc \in Provisions
  PROVE  l = m /\ Busy(c)
<1>1. l \in {"state", "specs", "release"} /\ m \in {"state", "specs", "release"}
  BY DEF InTurn, Legs
<1>2. Phase(l) = Phase(m)
  BY DEF InTurn
<1> QED BY <1>1, <1>2 DEF Phase, Busy, Ended, Provisions

LEMMA LegKeepsAlone ==
  ASSUME IInv, RInv, NEW c \in Calls, NEW l \in Legs, LegStep(c, l)
  PROVE  Alone' /\ OneRegistration'
<1> DEFINE r == leg[c][l]
           q == leg'[c][l]
<1>0. Orderly /\ Alone /\ OneRegistration
  BY DEF RInv
<1>1. /\ call' = call /\ overlapped' = overlapped /\ Effect(c, l)
      /\ q.pc \notin {"idle", "await"}
      /\ \A d \in Calls, m \in Legs : <<d, m>> # <<c, l>> => leg'[d][m] = leg[d][m]
      /\ Registered \subseteq Registered'
  BY <1>0, LegFacts
<1>2. \A d \in Calls : Busy(d)' => Busy(d)
  BY <1>1 DEF Busy, Ended, Effect
<1>3. Alone'
  BY <1>0, <1>1, <1>2 DEF Alone
<1>4. ASSUME ~overlapped, NEW d \in Calls, NEW m \in Legs, leg'[d][m].pc = "create"
      PROVE  Registered' = {}
  <2>1. leg[d][m].pc \in Provisions
    BY <1>1, <1>4 DEF Effect, Provisions
  <2>2. CASE <<d, m>> = <<c, l>>
    BY <1>0, <1>1, <1>4, <2>2 DEF Effect, OneRegistration, Registered
  <2>3. CASE <<d, m>> # <<c, l>>
    <3>1. leg[d][m].pc = "create" /\ Registered = {}
      BY <1>0, <1>1, <1>4, <2>3 DEF OneRegistration
    <3>2. Busy(d)
      BY <1>0, <2>1, OneProvisions DEF Orderly
    <3>3. Busy(c)
      BY <1>1 DEF Effect, Busy, Ended
    <3>4. c = d
      BY <1>0, <1>4, <3>2, <3>3 DEF Alone
    <3>5. r.pc \notin Provisions
      BY <1>0, <2>1, <2>3, <3>4, OneProvisions DEF Orderly
    <3>6. Registered' = Registered
      BY <1>1, <3>5, StayRegistered DEF IInv, Effect, Provisions
    <3> QED BY <3>1, <3>6
  <2> QED BY <2>2, <2>3
<1>5. ASSUME ~overlapped PROVE \A i, j \in Registered' : i = j
  <2>1. CASE r.pc = "create"
    <3>1. Registered = {}
      BY <1>0, <1>5, <2>1 DEF OneRegistration
    <3>2. terminal' = terminal \/ \E i \in Ids : Deploys(i) \/ Registers(i)
      BY <1>1, <2>1 DEF Effect, MovesTerminal
    <3>3. ASSUME NEW i \in Ids, Deploys(i) \/ Registers(i)
          PROVE  Registered' \subseteq {i}
      BY <3>1, <3>3 DEF IInv, TypeOK, Registered, Deploys, Registers
    <3> QED BY <3>1, <3>2, <3>3 DEF Registered
  <2>2. CASE r.pc # "create"
    <3>1. Registered' = Registered
      BY <1>1, <2>2, StayRegistered DEF IInv, Effect
    <3> QED BY <1>0, <1>5, <3>1 DEF OneRegistration
  <2> QED BY <2>1, <2>2
<1>6. OneRegistration'
  BY <1>1, <1>4, <1>5 DEF OneRegistration
<1> QED BY <1>3, <1>6

\* Only the release of a call that read everything hands the terminal back for good.
LEMMA LegLeavesStopped ==
  ASSUME IInv, RInv, NEW c \in Calls, NEW l \in Legs, LegStep(c, l)
  PROVE  LeavesStopped'
<1> DEFINE r == leg[c][l]
           q == leg'[c][l]
<1>0. Orderly /\ OneRegistration /\ LeavesStopped
  BY DEF RInv
<1>1. /\ call' = call /\ overlapped' = overlapped /\ Effect(c, l)
      /\ \A d \in Calls, m \in Legs : <<d, m>> # <<c, l>> => leg'[d][m] = leg[d][m]
  BY <1>0, LegFacts
<1> SUFFICES ASSUME AllFreed' PROVE \A i \in Ids : terminal'[i] \in {"absent", "stopped"}
  BY DEF LeavesStopped
<1>2. call[c].pc # "idle"
  BY <1>1 DEF IInv, LegsInOrder, Effect
<1>3. call[c].ok /\ leg'[c]["release"].pc = "done"
  BY <1>1, <1>2 DEF AllFreed, Freed
<1>4. l = "release"
  BY <1>0, <1>1, <1>3 DEF Orderly, AnswersInOrder, Settled, Ended, Effect
<1>5. r.pc = "undeploy" /\ Stops(r.id) /\ r.id \in Registered
  <2>1. r.pc \in {"read", "undeploy"}
    BY <1>1, <1>3, <1>4 DEF Effect
  <2>2. r.pc = "undeploy"
    BY <1>0, <1>4, <2>1 DEF Orderly, ReleaseOnItsOwn
  <2> QED BY <1>0, <1>1, <1>3, <1>4, <2>2 DEF Effect, Orderly, IdsRegistered, Holding
<1>6. \A i \in Ids : terminal[i] = "absent" \/ i = r.id
  BY <1>0, <1>1, <1>5 DEF OneRegistration, AllFreed, Registered
<1> QED BY <1>5, <1>6 DEF Stops, IInv, TypeOK

-----------------------------------------------------------------------------
(* ... and that of a caller. *)

\* A leg as it starts.
Starting(q) == \/ q.pc = "find" /\ q.result = "pending"
               \/ q.pc = "await" /\ q.result = "none"

\* What a caller does: it moves itself, and starts legs it has not started before.
CallerMoves(c) ==
  /\ terminal' = terminal
  /\ overlapped => overlapped'
  /\ \A d \in Calls \ {c} : call'[d] = call[d] /\ leg'[d] = leg[d]
  /\ \A l \in Legs : leg'[c][l] = leg[c][l] \/ (leg[c][l].pc = "idle" /\ Starting(leg'[c][l]))
  /\ call'[c].pc # "idle"

\* The call c is in order: what Orderly says of it alone.
CallInOrder(c) ==
  /\ \A l \in Legs : leg[c][l].pc \in Provisions => l # "deals" /\ call[c].pc = Phase(l)
  /\ leg[c]["state"].pc \in Provisions /\ leg[c]["deals"].pc # "idle" =>
        leg[c]["deals"].pc = "await" /\ leg[c]["deals"].on = <<c, "state">>
  /\ leg[c]["release"].pc # "await"
  /\ call[c].pc = "price" => Ended(c, "state") /\ Ended(c, "deals")
  /\ call[c].kind = "verify" => leg[c]["deals"].pc = "idle"
  /\ call[c].ok => /\ call[c].pc \in {"release", "over"}
                   /\ \A l \in Legs \ {"release"} : Settled(c, l)

LEMMA StartingLegs ==
  /\ Provisioning.pc = "find" /\ Provisioning.result = "pending"
  /\ \A m : Starting(Resolving(m))
  /\ \A m : m # None => Resolving(m).pc = "await" /\ Resolving(m).on = m
<1>1. Provisioning.pc = "find" /\ Provisioning.result = "pending"
  BY DEF Provisioning, IdleLeg
<1>2. \A m : LET w == [IdleLeg EXCEPT !.pc = "await", !.on = m]
             IN  w.pc = "await" /\ w.result = "none" /\ w.on = m
  BY DEF IdleLeg
<1> QED BY <1>1, <1>2 DEF Starting, Resolving

LEMMA CallerPreserves ==
  ASSUME IInv, RInv, NEW c \in Calls, CallerMoves(c), CallInOrder(c)',
         Busy(c) \/ Quiet \/ overlapped',
         leg'[c]["release"].pc = "done" => call[c].pc # "idle" /\ call'[c].ok = call[c].ok
  PROVE  RInv'
<1>0. Orderly /\ Alone /\ OneRegistration /\ LeavesStopped
  BY DEF RInv
<1>1. /\ terminal' = terminal /\ (overlapped => overlapped')
      /\ \A d \in Calls \ {c} : call'[d] = call[d] /\ leg'[d] = leg[d]
      /\ \A l \in Legs : leg'[c][l] = leg[c][l] \/ (leg[c][l].pc = "idle" /\ Starting(leg'[c][l]))
      /\ call'[c].pc # "idle"
  BY DEF CallerMoves
<1>2. \A d \in Calls, l \in Legs : leg'[d][l] = leg[d][l] \/ (d = c /\ Starting(leg'[d][l]))
  BY <1>1
<1>3. Registered' = Registered
  BY <1>1 DEF Registered
<1>4. {"state", "deals", "specs", "release"} = Legs
  BY DEF Legs
<1>5. IdsRegistered'
  BY <1>0, <1>2, <1>3 DEF Orderly, IdsRegistered, Starting, Holding
<1>6. InTurn'
  <2> SUFFICES ASSUME NEW d \in Calls, NEW l \in Legs, leg'[d][l].pc \in Provisions
               PROVE  leg'[d][l].result = "pending" /\ l # "deals" /\ call'[d].pc = Phase(l)
    BY DEF InTurn
  <2>1. leg'[d][l].result = "pending"
    BY <1>0, <1>2 DEF Orderly, InTurn, Starting, Provisions
  <2>2. CASE d = c
    BY <2>1, <2>2 DEF CallInOrder
  <2>3. CASE d # c
    BY <1>0, <1>1, <2>1, <2>3 DEF Orderly, InTurn
  <2> QED BY <2>2, <2>3
<1>7. DealsShare'
  BY <1>0, <1>1 DEF Orderly, DealsShare, CallInOrder
<1>8. ReleaseOnItsOwn'
  <2>1. \A d \in Calls, l \in Legs : leg'[d][l].pc = "undeploy" => leg[d][l].pc = "undeploy"
    BY <1>2 DEF Starting
  <2>2. \A d \in Calls : leg'[d]["release"].pc \notin {"await", "wait", "read"}
    BY <1>0, <1>1, <1>2, <1>4 DEF Orderly, ReleaseOnItsOwn, Starting, CallInOrder
  <2> QED BY <1>0, <2>1, <2>2 DEF Orderly, ReleaseOnItsOwn
<1>9. AnswersInOrder'
  BY <1>0, <1>1 DEF Orderly, AnswersInOrder, CallInOrder, Settled, Ended
<1>10. Alone'
  <2> SUFFICES ASSUME ~overlapped', NEW d \in Calls, NEW e \in Calls, Busy(d)', Busy(e)'
               PROVE  d = e
    BY DEF Alone
  <2>1. \A f \in Calls \ {c} : Busy(f)' = Busy(f)
    BY <1>1 DEF Busy, Ended
  <2>2. \A f, g \in Calls : Busy(f) /\ Busy(g) => f = g
    BY <1>0, <1>1 DEF Alone
  <2>3. CASE Busy(c)
    BY <2>1, <2>2, <2>3
  <2>4. CASE Quiet
    BY <2>1, <2>4 DEF Quiet
  <2> QED BY <2>3, <2>4
<1>11. OneRegistration'
  BY <1>0, <1>1, <1>2, <1>3 DEF OneRegistration, Starting
<1>12. LeavesStopped'
  <2> SUFFICES ASSUME AllFreed' PROVE AllFreed
    BY <1>0, <1>1 DEF LeavesStopped
  <2>1. \A d \in Calls : leg'[d]["release"].pc = "done" => leg[d]["release"].pc = "done"
    BY <1>2, <1>4 DEF Starting
  <2>2. Freed(c)'
    BY <1>1 DEF AllFreed
  <2>3. call[c].pc # "idle" /\ call'[c].ok = call[c].ok
    BY <2>2 DEF Freed
  <2>4. Freed(c)
    BY <2>1, <2>2, <2>3 DEF Freed
  <2>5. \A d \in Calls \ {c} : call[d].pc # "idle" => Freed(d)
    BY <1>1, <2>1 DEF AllFreed, Freed
  <2> QED BY <1>1, <2>4, <2>5 DEF AllFreed
<1> QED BY <1>5, <1>6, <1>7, <1>8, <1>9, <1>10, <1>11, <1>12 DEF RInv, Orderly

\* A call begins with the memo of the process, whatever the calls before it left there.
LEMMA BeginPreserves ==
  ASSUME IInv, RInv, NEW c \in Calls, Begin(c)
  PROVE  RInv' /\ CallerMoves(c)
<1>1. PICK kind \in {"sync", "verify"} :
        /\ call[c].pc = "idle"
        /\ call' = [call EXCEPT ![c] = [@ EXCEPT !.pc = "fetch", !.kind = kind]]
        /\ leg' = [leg EXCEPT ![c]["state"] = Resolving(memo),
                              ![c]["deals"] = IF kind = "sync"
                                              THEN Resolving(MemoAfter(c, "state", memo))
                                              ELSE @]
        /\ overlapped' = (overlapped \/ ~Quiet) /\ terminal' = terminal
  BY DEF Begin
<1>2. /\ leg \in [Calls -> [Legs -> Leg]] /\ call \in [Calls -> Call]
      /\ {"state", "deals", "specs", "release"} = Legs
  BY DEF IInv, TypeOK, Legs
<1>3. \A l \in Legs : leg[c][l].pc = "idle"
  BY <1>1 DEF IInv, LegsInOrder
<1>4. MemoAfter(c, "state", memo) # None
      /\ (memo = None => MemoAfter(c, "state", memo) = <<c, "state">>)
  <2>1. <<c, "state">> \in Calls \X Legs
    BY <1>2
  <2> QED BY <2>1, NoneAssumption DEF MemoAfter
<1>5. /\ leg'[c]["state"] = Resolving(memo)
      /\ leg'[c]["deals"] = IF kind = "sync" THEN Resolving(MemoAfter(c, "state", memo))
                            ELSE leg[c]["deals"]
      /\ leg'[c]["specs"] = leg[c]["specs"] /\ leg'[c]["release"] = leg[c]["release"]
      /\ \A d \in Calls \ {c} : leg'[d] = leg[d] /\ call'[d] = call[d]
  BY <1>1, <1>2
<1>6. call'[c].pc = "fetch" /\ call'[c].kind = kind /\ call'[c].ok = call[c].ok
  BY <1>1, <1>2 DEF Call
<1>7. ~call[c].ok
  BY <1>1 DEF RInv, Orderly, AnswersInOrder
<1>8. CallerMoves(c)
  <2>1. /\ Starting(leg'[c]["state"])
        /\ leg'[c]["deals"] = leg[c]["deals"] \/ Starting(leg'[c]["deals"])
    BY <1>5, StartingLegs
  <2>2. \A l \in Legs : leg'[c][l] = leg[c][l] \/ Starting(leg'[c][l])
    BY <1>2, <1>5, <2>1
  <2> QED BY <1>1, <1>3, <1>5, <1>6, <2>2 DEF CallerMoves
<1>9. CallInOrder(c)'
  <2>1. leg'[c]["deals"].pc \in {"idle", "await"}
    BY <1>2, <1>3, <1>4, <1>5, StartingLegs
  <2>2. leg'[c]["state"].pc \in Provisions => memo = None
    BY <1>5, StartingLegs DEF Provisions
  <2>3. leg'[c]["deals"].pc # "idle" => leg'[c]["deals"] = Resolving(MemoAfter(c, "state", memo))
    BY <1>2, <1>3, <1>5
  <2>4. \A l \in Legs : leg'[c][l].pc \in Provisions => l = "state"
    BY <1>2, <1>3, <1>5, <2>1 DEF Provisions
  <2> QED BY <1>1, <1>2, <1>3, <1>4, <1>5, <1>6, <1>7, <2>1, <2>2, <2>3, <2>4, StartingLegs
          DEF CallInOrder, Phase
<1>10. Quiet \/ overlapped'
  BY <1>1
<1> QED BY <1>2, <1>3, <1>5, <1>8, <1>9, <1>10, CallerPreserves

\* A sync hands the terminal back once no other leg of it can still need it for an answer.
LEMMA HandsBackPreserves ==
  ASSUME IInv, RInv, NEW c \in Calls, NEW ok \in BOOLEAN, HandsBack(c, ok),
         call[c].pc \in {"fetch", "price"}, terminal' = terminal, overlapped' = overlapped,
         ok => \A l \in Legs \ {"release"} : Settled(c, l),
         \A l \in Legs : leg[c][l].pc \notin Provisions
  PROVE  RInv' /\ CallerMoves(c)
<1>0. Orderly
  BY DEF RInv
<1>2. /\ leg \in [Calls -> [Legs -> Leg]] /\ call \in [Calls -> Call]
      /\ {"state", "deals", "specs", "release"} = Legs
  BY DEF IInv, TypeOK, Legs
<1>3. leg[c]["release"].pc = "idle"
  BY DEF IInv, LegsInOrder
<1>4. /\ \A d \in Calls \ {c} : leg'[d] = leg[d] /\ call'[d] = call[d]
      /\ \A l \in Legs \ {"release"} : leg'[c][l] = leg[c][l]
      /\ call'[c].pc \in {"release", "over"} /\ call'[c].ok = ok /\ call'[c].kind = call[c].kind
      /\ \/ leg'[c]["release"] = leg[c]["release"]
         \/ leg'[c]["release"] = Provisioning /\ call'[c].pc = "release"
  <2>1. CASE KeepDeployed
    <3>1. /\ call' = [call EXCEPT ![c] = [@ EXCEPT !.pc = "over", !.ok = ok]]
          /\ leg' = leg
      BY <2>1 DEF HandsBack, GoesTo
    <3>2. /\ \A d \in Calls \ {c} : call'[d] = call[d]
          /\ call'[c].pc = "over" /\ call'[c].ok = ok /\ call'[c].kind = call[c].kind
      BY <1>2, <3>1 DEF Call
    <3> QED BY <3>1, <3>2
  <2>2. CASE ~KeepDeployed
    <3>1. /\ call' = [call EXCEPT ![c] = [@ EXCEPT !.pc = "release", !.ok = ok]]
          /\ leg' = [leg EXCEPT ![c]["release"] = Provisioning]
      BY <2>2 DEF HandsBack, GoesTo, Becomes
    <3>2. /\ \A d \in Calls \ {c} : leg'[d] = leg[d]
          /\ \A l \in Legs \ {"release"} : leg'[c][l] = leg[c][l]
          /\ leg'[c]["release"] = Provisioning
      BY <1>2, <3>1
    <3>3. /\ \A d \in Calls \ {c} : call'[d] = call[d]
          /\ call'[c].pc = "release" /\ call'[c].ok = ok /\ call'[c].kind = call[c].kind
      BY <1>2, <3>1 DEF Call
    <3> QED BY <3>2, <3>3
  <2> QED BY <2>1, <2>2
<1>5. CallerMoves(c)
  BY <1>2, <1>3, <1>4, StartingLegs DEF CallerMoves, Starting
<1>6. CallInOrder(c)'
  <2>1. \A l \in Legs : leg'[c][l].pc \in Provisions => l = "release" /\ call'[c].pc = "release"
    BY <1>2, <1>4
  <2>2. leg'[c]["release"].pc \in {"idle", "find"}
    BY <1>3, <1>4, StartingLegs
  <2>3. call[c].kind = "verify" => leg[c]["deals"].pc = "idle"
    BY <1>0 DEF Orderly, AnswersInOrder
  <2> QED BY <1>2, <1>4, <2>1, <2>2, <2>3 DEF CallInOrder, Phase, Settled, Ended
<1>7. Busy(c) /\ leg'[c]["release"].pc # "done"
  BY <1>3, <1>4, StartingLegs DEF Busy
<1> QED BY <1>5, <1>6, <1>7, CallerPreserves

LEMMA GotAllPreserves ==
  ASSUME IInv, RInv, NEW c \in Calls, GotAll(c)
  PROVE  RInv' /\ CallerMoves(c)
<1>0. Orderly
  BY DEF RInv
<1>1. /\ call[c].pc = "fetch" /\ terminal' = terminal /\ overlapped' = overlapped
      /\ \A l \in Fetched(c) : leg[c][l].pc = "done"
  BY DEF GotAll
<1>2. /\ leg \in [Calls -> [Legs -> Leg]] /\ call \in [Calls -> Call]
      /\ {"state", "deals", "specs", "release"} = Legs
  BY DEF IInv, TypeOK, Legs
<1>3. leg[c]["specs"].pc = "idle" /\ leg[c]["release"].pc = "idle"
  BY <1>1 DEF IInv, LegsInOrder
<1>4. /\ leg[c]["state"].pc = "done"
      /\ call[c].kind = "verify" => leg[c]["deals"].pc = "idle"
      /\ call[c].kind # "verify" => leg[c]["deals"].pc = "done"
  BY <1>0, <1>1, <1>2 DEF Fetched, Orderly, AnswersInOrder, Call
<1>5. CASE call[c].kind = "verify"
  <2>1. leg' = leg /\ call' = [call EXCEPT ![c] = [@ EXCEPT !.pc = "over", !.ok = TRUE]]
    BY <1>5 DEF GotAll, GoesTo
  <2>2. /\ \A d \in Calls \ {c} : call'[d] = call[d]
        /\ call'[c].pc = "over" /\ call'[c].kind = "verify"
    BY <1>2, <1>5, <2>1 DEF Call
  <2>3. CallerMoves(c)
    BY <1>1, <2>1, <2>2 DEF CallerMoves
  <2>4. CallInOrder(c)'
    BY <1>2, <1>3, <1>4, <1>5, <2>1, <2>2 DEF CallInOrder, Provisions, Settled, Ended
  <2> QED BY <1>1, <1>3, <2>1, <2>3, <2>4, CallerPreserves DEF Busy
<1>6. CASE call[c].kind # "verify"
  <2>1. /\ call' = [call EXCEPT ![c] = [@ EXCEPT !.pc = "price", !.ok = FALSE]]
        /\ leg' = leg \/ leg' = [leg EXCEPT ![c]["specs"] = Resolving(memo)]
    BY <1>6 DEF GotAll, Prices, GoesTo, Becomes
  <2>2. /\ \A d \in Calls \ {c} : call'[d] = call[d]
        /\ call'[c].pc = "price" /\ call'[c].kind = call[c].kind /\ ~call'[c].ok
    BY <1>2, <2>1 DEF Call
  <2>3. /\ \A d \in Calls \ {c} : leg'[d] = leg[d]
        /\ \A l \in Legs \ {"specs"} : leg'[c][l] = leg[c][l]
        /\ leg'[c]["specs"] = leg[c]["specs"] \/ leg'[c]["specs"] = Resolving(memo)
    BY <1>2, <2>1
  <2>4. leg'[c]["specs"] = leg[c]["specs"] \/ Starting(leg'[c]["specs"])
    BY <2>3, StartingLegs
  <2>5. CallerMoves(c)
    BY <1>1, <1>3, <2>2, <2>3, <2>4 DEF CallerMoves
  <2>6. CallInOrder(c)'
    <3>1. \A l \in Legs : leg'[c][l].pc \in Provisions => l = "specs"
      BY <1>2, <1>3, <1>4, <1>6, <2>3 DEF Provisions
    <3> QED BY <1>2, <1>3, <1>4, <1>6, <2>2, <2>3, <3>1
            DEF CallInOrder, Provisions, Phase, Ended
  <2> QED BY <1>1, <1>2, <1>3, <2>3, <2>5, <2>6, CallerPreserves DEF Busy
<1> QED BY <1>5, <1>6

LEMMA GotErrorPreserves ==
  ASSUME IInv, RInv, NEW c \in Calls, GotError(c)
  PROVE  RInv' /\ CallerMoves(c)
<1>0. Orderly
  BY DEF RInv
<1>1. /\ call[c].pc = "fetch" /\ terminal' = terminal /\ overlapped' = overlapped
      /\ \E l \in Fetched(c) : leg[c][l].pc = "failed"
  BY DEF GotError
<1>2. /\ leg \in [Calls -> [Legs -> Leg]] /\ call \in [Calls -> Call]
      /\ {"state", "deals", "specs", "release"} = Legs
  BY DEF IInv, TypeOK, Legs
<1>3. leg[c]["specs"].pc = "idle" /\ leg[c]["release"].pc = "idle"
  BY <1>1 DEF IInv, LegsInOrder
<1>4. \A l \in Legs : leg[c][l].pc \notin Provisions
  <2>1. leg[c]["state"].pc = "failed" \/ leg[c]["deals"].pc = "failed"
    BY <1>1 DEF Fetched
  <2>2. leg[c]["state"].pc \notin Provisions
    BY <1>0, <2>1 DEF Orderly, DealsShare, Provisions
  <2>3. leg[c]["deals"].pc \notin Provisions
    BY <1>0, <1>2 DEF Orderly, InTurn
  <2> QED BY <1>2, <1>3, <2>2, <2>3 DEF Provisions
<1>5. CASE call[c].kind = "verify"
  <2>1. leg' = leg /\ call' = [call EXCEPT ![c] = [@ EXCEPT !.pc = "over", !.ok = FALSE]]
    BY <1>5 DEF GotError, GoesTo
  <2>2. /\ \A d \in Calls \ {c} : call'[d] = call[d]
        /\ call'[c].pc = "over" /\ call'[c].kind = "verify" /\ ~call'[c].ok
    BY <1>2, <1>5, <2>1 DEF Call
  <2>3. CallerMoves(c)
    BY <1>1, <2>1, <2>2 DEF CallerMoves
  <2>4. leg[c]["deals"].pc = "idle"
    BY <1>0, <1>5 DEF Orderly, AnswersInOrder
  <2>5. CallInOrder(c)'
    BY <1>2, <1>3, <1>4, <2>1, <2>2, <2>4 DEF CallInOrder
  <2> QED BY <1>1, <1>3, <2>1, <2>3, <2>5, CallerPreserves DEF Busy
<1>6. CASE call[c].kind # "verify"
  <2>1. HandsBack(c, FALSE)
    BY <1>6 DEF GotError
  <2> QED BY <1>1, <1>4, <2>1, HandsBackPreserves
<1> QED BY <1>5, <1>6

LEMMA PricedPreserves ==
  ASSUME IInv, RInv, NEW c \in Calls, Priced(c)
  PROVE  RInv' /\ CallerMoves(c)
<1>1. PICK ok \in BOOLEAN : HandsBack(c, ok)
  BY DEF Priced
<1>2. /\ call[c].pc = "price" /\ terminal' = terminal /\ overlapped' = overlapped
      /\ Settled(c, "specs")
  BY DEF Priced, Settled
<1>3. Ended(c, "state") /\ Ended(c, "deals") /\ leg[c]["release"].pc = "idle"
  BY <1>2 DEF RInv, Orderly, AnswersInOrder, IInv, LegsInOrder
<1>4. \A l \in Legs : Settled(c, l)
  BY <1>2, <1>3 DEF Legs, Settled
<1>5. \A l \in Legs : leg[c][l].pc \notin Provisions
  BY <1>4 DEF Settled, Ended, Provisions
<1> QED BY <1>1, <1>2, <1>4, <1>5, HandsBackPreserves

LEMMA ReleasedPreserves ==
  ASSUME IInv, RInv, NEW c \in Calls, Released(c)
  PROVE  RInv' /\ CallerMoves(c)
<1>0. Orderly
  BY DEF RInv
<1>1. /\ call[c].pc = "release" /\ Ended(c, "release")
      /\ terminal' = terminal /\ leg' = leg /\ overlapped' = overlapped
      /\ call' = [call EXCEPT ![c] = [@ EXCEPT !.pc = "over", !.ok = call[c].ok]]
  BY DEF Released, GoesTo
<1>2. call \in [Calls -> Call] /\ {"state", "deals", "specs", "release"} = Legs
  BY DEF IInv, TypeOK, Legs
<1>3. /\ \A d \in Calls \ {c} : call'[d] = call[d]
      /\ call'[c].pc = "over" /\ call'[c].kind = call[c].kind /\ call'[c].ok = call[c].ok
  BY <1>1, <1>2 DEF Call
<1>4. CallerMoves(c)
  BY <1>1, <1>3 DEF CallerMoves
<1>5. \A l \in Legs : leg[c][l].pc \notin Provisions
  <2>1. leg[c]["release"].pc \notin Provisions
    BY <1>1 DEF Ended, Provisions
  <2>2. \A l \in {"state", "deals", "specs"} : leg[c][l].pc \notin Provisions
    BY <1>0, <1>1, <1>2 DEF Orderly, InTurn, Phase
  <2> QED BY <1>2, <2>1, <2>2
<1>6. CallInOrder(c)'
  BY <1>0, <1>1, <1>2, <1>3, <1>5
     DEF CallInOrder, Orderly, AnswersInOrder, ReleaseOnItsOwn, Settled, Ended
<1> QED BY <1>1, <1>3, <1>4, <1>6, CallerPreserves DEF Busy

\* MetaApi's own steps move a terminal that is up, and none of them is in LeavesStopped.
LEMMA MetaApiPreserves ==
  ASSUME IInv, RInv, NEW i \in Ids, Wake(i) \/ GoesDown(i)
  PROVE  RInv'
<1>1. /\ UNCHANGED <<memo, leg, call, overlapped>>
      /\ terminal[i] \in {"starting", "connected", "readable"}
      /\ \E s \in Statuses \ {"absent"} : terminal' = [terminal EXCEPT ![i] = s]
  BY DEF Wake, GoesDown, Statuses
<1>2. terminal \in [Ids -> Statuses]
  BY DEF IInv, TypeOK
<1>3. Registered' = Registered
  BY <1>1, <1>2 DEF Registered
<1>4. Orderly' /\ Alone' /\ OneRegistration'
  <2>1. Orderly /\ Alone /\ OneRegistration
    BY DEF RInv
  <2>2. IdsRegistered' /\ OneRegistration'
    BY <1>1, <1>3, <2>1 DEF Orderly, IdsRegistered, OneRegistration
  <2> QED BY <1>1, <2>1, <2>2 DEF Orderly, InTurn, DealsShare, ReleaseOnItsOwn, AnswersInOrder,
                                 Settled, Ended, Alone, Busy
<1>5. LeavesStopped'
  BY <1>1 DEF RInv, LeavesStopped, AllFreed, Freed
<1> QED BY <1>4, <1>5 DEF RInv

-----------------------------------------------------------------------------
\* Earlier calls may have left one registration.
LEMMA InitR == Init => RInv
<1> SUFFICES ASSUME Init PROVE RInv
  OBVIOUS
<1>1. \A c \in Calls, l \in Legs : leg[c][l].pc = "idle" /\ leg[c][l].result = "none"
  BY DEF Init, IdleLeg
<1>2. \A c \in Calls : call[c].pc = "idle" /\ call[c].kind = "sync" /\ ~call[c].ok
  BY DEF Init
<1>3. {"state", "deals", "specs", "release"} = Legs
  BY DEF Legs
<1>4. Orderly
  BY <1>1, <1>2, <1>3 DEF Orderly, IdsRegistered, Holding, InTurn, Provisions, DealsShare,
                         ReleaseOnItsOwn, AnswersInOrder
<1>5. Alone
  BY <1>1, <1>2 DEF Alone, Busy
<1>6. OneRegistration
  <2>1. PICK s : terminal = [Nothing EXCEPT ![Free(Nothing)] = s]
    BY DEF Init
  <2>2. \A i \in Ids : i # Free(Nothing) => terminal[i] = "absent"
    BY <2>1 DEF Nothing
  <2>3. Registered \subseteq {Free(Nothing)}
    BY <2>2 DEF Registered
  <2> QED BY <1>1, <2>3 DEF OneRegistration
<1>7. LeavesStopped
  BY <1>2 DEF LeavesStopped, AllFreed, Freed
<1> QED BY <1>4, <1>5, <1>6, <1>7 DEF RInv

\* Every step preserves the second half of the invariant.
LEMMA RNext == IInv /\ RInv /\ [Next]_vars => RInv'
<1> SUFFICES ASSUME IInv, RInv, [Next]_vars PROVE RInv'
  OBVIOUS
<1>1. ASSUME NEW c \in Calls, NEW l \in Legs, LegStep(c, l) PROVE RInv'
  BY <1>1, LegKeepsOrder, LegKeepsAlone, LegLeavesStopped DEF RInv
<1>2. ASSUME NEW c \in Calls, Begin(c) \/ GotAll(c) \/ GotError(c) \/ Priced(c) \/ Released(c)
      PROVE  RInv'
  BY <1>2, BeginPreserves, GotAllPreserves, GotErrorPreserves, PricedPreserves,
     ReleasedPreserves
<1>3. CASE UNCHANGED vars
  BY <1>3 DEF vars, RInv, Orderly, IdsRegistered, Registered, InTurn, DealsShare,
              ReleaseOnItsOwn, AnswersInOrder, Settled, Ended, Alone, Busy, OneRegistration,
              LeavesStopped, AllFreed, Freed
<1> QED BY <1>1, <1>2, <1>3, MetaApiPreserves DEF Next, Runs

\* The two halves hold throughout.
THEOREM Orderliness == Spec => [](IInv /\ RInv)
<1>1. Init => IInv /\ RInv
  BY InitInv, InitR
<1>2. (IInv /\ RInv) /\ [Next]_vars => (IInv /\ RInv)'
  BY NextInv, RNext
<1> QED BY <1>1, <1>2, PTL DEF Spec

(***************************************************************************)
(* findAccount, asked again by every provisioning and by every release,    *)
(* keeps the trader to one registration at MetaApi while no two calls      *)
(* overlap, for any number of calls that fail where they may.              *)
(***************************************************************************)
THEOREM RegisteredOnce == Spec => []RegistersOnce
<1>1. RInv => RegistersOnce
  <2> SUFFICES ASSUME RInv, ~overlapped PROVE Cardinality(Registered) <= 1
    BY DEF RegistersOnce
  <2>1. \A i, j \in Registered : i = j
    BY DEF RInv, OneRegistration
  <2>2. CASE Registered = {}
    BY <2>2, FS_EmptySet
  <2>3. CASE Registered # {}
    <3>1. PICK i \in Registered : TRUE
      BY <2>3
    <3>2. Registered = {i}
      BY <2>1, <3>1
    <3>3. Cardinality(Registered) = 1
      BY <3>2, FS_Singleton
    <3> QED BY <3>3
  <2> QED BY <2>2, <2>3
<1> QED BY <1>1, Orderliness, PTL

(***************************************************************************)
(* A sync that read everything and whose release was answered leaves no    *)
(* terminal running, nor does any other call until the next begins.        *)
(***************************************************************************)
THEOREM GoodSyncsHandBack == Spec => []GoodSyncHandsBack
<1>1. RInv => GoodSyncHandsBack
  <2> SUFFICES ASSUME RInv, Quiet, ~overlapped,
                      \E c \in Calls : call[c].pc = "over",
                      \A c \in Calls : call[c].pc = "over" => Freed(c)
               PROVE  \A i \in Ids : terminal[i] \in {"absent", "stopped"}
    BY DEF GoodSyncHandsBack
  <2>1. \A c \in Calls : call[c].pc # "idle" => call[c].pc = "over"
    BY DEF Quiet, Busy
  <2>2. AllFreed
    BY <2>1 DEF AllFreed
  <2> QED BY <2>2 DEF RInv, LeavesStopped
<1> QED BY <1>1, Orderliness, PTL

-----------------------------------------------------------------------------
\* A leg that reads a stopped terminal has just gone on to it, or it was stopped under it.
LEMMA LegReadsWhatIsUp ==
  ASSUME IInv, RInv, ~overlapped', NEW c \in Calls, NEW l \in Legs, LegStep(c, l),
         NEW d \in Calls, NEW m \in Legs, ReadsStopped(d, m)'
  PROVE  ReadsStopped(d, m)
<1> DEFINE r == leg[c][l]
           q == leg'[c][l]
           p == leg'[d][m]
<1>0. Orderly /\ Alone
  BY DEF RInv
<1>1. /\ call' = call /\ overlapped' = overlapped /\ Effect(c, l)
      /\ \A e \in Calls, n \in Legs : <<e, n>> # <<c, l>> => leg'[e][n] = leg[e][n]
  BY <1>0, LegFacts
<1>2. p.pc = "read" /\ terminal'[p.id] = "stopped" /\ call[d].pc \in {"fetch", "price"}
  BY <1>1 DEF ReadsStopped
<1>3. CASE <<d, m>> = <<c, l>>
  BY <1>1, <1>2, <1>3 DEF ReadsStopped, Effect
<1>4. CASE <<d, m>> # <<c, l>>
  <2>1. leg[d][m] = p
    BY <1>1, <1>4
  <2>2. p.id \in Registered
    BY <1>0, <1>2, <2>1 DEF Orderly, IdsRegistered, Holding
  <2>3. r.pc # "undeploy"
    <3> SUFFICES ASSUME r.pc = "undeploy" PROVE FALSE
      OBVIOUS
    <3>1. l = "release"
      BY <1>0 DEF Orderly, ReleaseOnItsOwn
    <3>2. Busy(c) /\ Busy(d)
      BY <1>2, <2>1 DEF Busy, Ended
    <3>3. c = d
      BY <1>0, <1>1, <3>2 DEF Alone
    <3> QED BY <1>2, <3>1, <3>3 DEF IInv, LegsInOrder
  <2>4. terminal[p.id] = "stopped"
    BY <1>1, <1>2, <2>2, <2>3
       DEF Effect, MovesTerminal, Deploys, Registers, IInv, TypeOK, Registered
  <2> QED BY <1>2, <2>1, <2>4 DEF ReadsStopped
<1> QED BY <1>3, <1>4

\* A caller moves no terminal, and starts no leg that reads at once.
LEMMA CallerReadsNothing ==
  ASSUME IInv, RInv, NEW c \in Calls, NEW d \in Calls, NEW m \in Legs, ReadsStopped(d, m)',
         Begin(c) \/ GotAll(c) \/ GotError(c) \/ Priced(c) \/ Released(c)
  PROVE  ReadsStopped(d, m)
<1>1. CallerMoves(c)
  BY BeginPreserves, GotAllPreserves, GotErrorPreserves, PricedPreserves, ReleasedPreserves
<1>2. leg'[d][m].pc = "read" /\ call'[d].pc \in {"fetch", "price"}
      /\ terminal[leg'[d][m].id] = "stopped"
  BY <1>1 DEF ReadsStopped, CallerMoves
<1>3. leg[d][m] = leg'[d][m]
  BY <1>1, <1>2 DEF CallerMoves, Starting
<1>4. call[d].pc \in {"fetch", "price"}
  <2>1. CASE d # c
    BY <1>1, <1>2, <2>1 DEF CallerMoves
  <2>2. CASE d = c
    <3>1. call[c].pc # "idle"
      BY <1>2, <1>3, <2>2 DEF IInv, LegsInOrder
    <3>2. ~Begin(c)
      BY <3>1 DEF Begin
    <3>3. Released(c) => call'[c].pc = "over"
      BY DEF Released, GoesTo, IInv, TypeOK, Call
    <3> QED BY <1>2, <2>2, <3>2, <3>3 DEF GotAll, GotError, Priced
  <2> QED BY <2>1, <2>2
<1> QED BY <1>2, <1>3, <1>4 DEF ReadsStopped

(***************************************************************************)
(* Without an overlap no call comes to read a terminal it should have had  *)
(* deployed, nor stops the one it is reading: only MetaApi does that.      *)
(***************************************************************************)
THEOREM ReadsOnlyWhatIsUp == Spec => ReadsWhatIsUp
<1>1. IInv /\ RInv /\ [Next]_vars => [~overlapped' => \A c \in Calls, l \in Legs :
       ReadsStopped(c, l)' => ReadsStopped(c, l) \/ \E i \in Ids : GoesDown(i)]_vars
  <2> SUFFICES ASSUME IInv, RInv, Next, ~overlapped', NEW d \in Calls, NEW m \in Legs,
                      ReadsStopped(d, m)'
               PROVE  ReadsStopped(d, m) \/ \E i \in Ids : GoesDown(i)
    OBVIOUS
  <2>1. ASSUME NEW c \in Calls, NEW l \in Legs, LegStep(c, l) PROVE ReadsStopped(d, m)
    BY <2>1, LegReadsWhatIsUp
  <2>2. ASSUME NEW c \in Calls,
               Begin(c) \/ GotAll(c) \/ GotError(c) \/ Priced(c) \/ Released(c)
        PROVE  ReadsStopped(d, m)
    BY <2>2, CallerReadsNothing
  <2>3. ASSUME NEW i \in Ids, Wake(i) PROVE ReadsStopped(d, m)
    BY <2>3 DEF Wake, ReadsStopped, IInv, TypeOK, Statuses
  <2> QED BY <2>1, <2>2, <2>3 DEF Next, Runs
<1> QED BY <1>1, Orderliness, PTL DEF Spec, ReadsWhatIsUp
=============================================================================

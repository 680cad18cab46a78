--------------------------- MODULE SignIn_proofs ---------------------------
(* Proofs about SignIn, for any number of requests and sessions. *)
EXTENDS SignIn, TLAPS

USE LimitsAssumption

----------------------------------------------------------------------------
(* Types. *)

LEMMA IdleOK == Idle \in Request
BY DEF Idle, Request, PCs, Pages, Kinds

LEMMA GoesOK ==
  ASSUME req \in [Requests -> Request], NEW r \in Requests, NEW pc \in PCs, Goes(r, pc)
  PROVE  req' \in [Requests -> Request]
BY DEF Goes, Request

LEMMA EndsOK ==
  ASSUME req \in [Requests -> Request], NEW r \in Requests, Ends(r)
  PROVE  req' \in [Requests -> Request]
BY IdleOK DEF Ends

LEMMA SessionsOK ==
  /\ NoSession \in Session
  /\ \A n \in Nat : NewSession(n) \in Session
  /\ \A s \in Session : [s EXCEPT !.unused = 0] \in Session
  /\ \A s \in Session : Touched(s) \in Session /\ Aged(s) \in Session
<1>1. NoSession \in Session
  BY DEF NoSession, Session
<1>2. \A n \in Nat : NewSession(n) \in Session
  BY DEF NewSession, Session
<1>3. ASSUME NEW s \in Session PROVE [s EXCEPT !.unused = 0] \in Session
  BY <1>3 DEF Session
<1>4. ASSUME NEW s \in Session PROVE Touched(s) \in Session
  BY <1>4 DEF Session, Touched
<1>5. ASSUME NEW s \in Session PROVE Aged(s) \in Session
  BY <1>5 DEF Session, Aged
<1> QED BY <1>1, <1>2, <1>3, <1>4, <1>5

LEMMA ClosedOK ==
  ASSUME session \in [Sessions -> Session], NEW S
  PROVE  Closed(S) \in [Sessions -> Session]
BY SessionsOK DEF Closed

LEMMA TotpsOK ==
  /\ TotpOff \in Totp /\ [TotpOff EXCEPT !.secret = TRUE] \in Totp
  /\ \A n \in Nat : TotpOn(n) \in Totp /\ Issue(n) \subseteq Codes
BY DEF TotpOff, TotpOn, Totp, Issue, Codes

LEMMA TInit == Init => TypeOK
<1> SUFFICES ASSUME Init PROVE TypeOK
  OBVIOUS
<1>1. session \in [Sessions -> Session]
  <2>1. NewSession(0) \in Session /\ NoSession \in Session
    BY SessionsOK
  <2>2. session \in [Sessions -> {NoSession, NewSession(0)}]
    BY DEF Init
  <2> QED BY <2>1, <2>2
<1>2. totp \in Totp
  BY TotpsOK DEF Init
<1>3. challenge \in Challenge
  <2>1. NoChallenge \in Challenge /\ NewChallenge(1) \in Challenge
    BY DEF NoChallenge, NewChallenge, Challenge
  <2> QED BY <2>1 DEF Init
<1>4. req \in [Requests -> Request]
  BY IdleOK DEF Init
<1>5. link \in [Links -> {"none", "live", "expired", "used", "gone"}]
  BY DEF Init
<1>6. opened \in Nat
  BY <1>3 DEF Init, Challenge
<1>7. /\ calls \in 0..MaxCalls /\ issued \in Nat /\ changed \in Nat /\ settled \in Nat
      /\ keeper \in Sessions \cup {None} /\ spent \subseteq Codes /\ shared \subseteq Nat
  BY DEF Init
<1>8. again \subseteq Codes /\ crossed \subseteq Codes \cup {None}
  BY DEF Init
<1>9. passed \in [Challenges -> Nat] /\ redeemed \in [Links -> Nat]
  BY DEF Init
<1> QED BY <1>1, <1>2, <1>3, <1>4, <1>5, <1>6, <1>7, <1>8, <1>9 DEF TypeOK

\* The steps of a request, one by one.
Steps(r) ==
    \/ SignIn(r) \/ Ask(r) \/ Open(r) \/ StartSession(r)
    \/ \E kind \in Kinds, code \in Given \cup {None} : Answer(r, kind, code)
    \/ Judge(r) \/ ReadCodes(r) \/ Consume(r) \/ Drop(r) \/ Fail(r) \/ Exhaust(r)
    \/ \E s \in Sessions, to \in Pages : Visit(r, s, to)
    \/ Touch(r) \/ SignOut(r) \/ ChangePassword(r) \/ Begin(r) \/ Confirm(r) \/ Enable(r)
    \/ Regenerate(r) \/ Replace(r) \/ Disable(r) \/ EndOthers(r)
    \/ \E l \in Links : FindLink(r, l)
    \/ Redeem(r) \/ Crash(r)

LEMMA CallOK ==
  ASSUME calls \in 0..MaxCalls, Call
  PROVE  calls' \in 0..MaxCalls
BY DEF Call

LEMMA TStep ==
  ASSUME TypeOK, NEW r \in Requests, Steps(r)
  PROVE  TypeOK'
<1> USE DEF TypeOK
<1> DEFINE Q == req[r]
<1>q. Q \in Request
  OBVIOUS
<1>1. CASE SignIn(r)
  BY <1>1, GoesOK, CallOK DEF SignIn, PCs, rows, history
<1>2. CASE Ask(r)
  BY <1>2, GoesOK DEF Ask, PCs, rows, history
<1>3. CASE Open(r)
  BY <1>3, EndsOK DEF Open, NewChallenge, Challenge
<1>4. CASE StartSession(r)
  BY <1>4, EndsOK, SessionsOK DEF StartSession
<1>5. ASSUME NEW kind \in Kinds, NEW code \in Given \cup {None}, Answer(r, kind, code) PROVE TypeOK'
  <2>1. code \in Codes \cup {None}
    BY DEF Given, Codes
  <2>2. [Idle EXCEPT !.pc = "state", !.ch = challenge.id, !.kind = kind, !.code = code] \in Request
    BY <2>1, IdleOK DEF Request, PCs, Challenge
  <2>3. challenge.id \in Nat
    BY DEF Challenge
  <2> QED BY <1>5, <2>2, <2>3, CallOK DEF Answer, rows
<1>6. CASE Judge(r)
  BY <1>6, GoesOK DEF Judge, PCs, rows, history
<1>7. CASE ReadCodes(r)
  <2>1. [Q EXCEPT !.pc = "consume", !.read = totp.codes] \in Request
    BY <1>q DEF Request, PCs, Totp
  <2>2. crossed' \subseteq Codes \cup {None}
    BY <1>7 DEF ReadCodes, Rivals, Request
  <2> QED BY <1>7, <2>1, <2>2, GoesOK DEF ReadCodes, PCs, rows
<1>8. CASE Consume(r)
  <2>1. Q.read \ {Q.code} \subseteq Codes /\ (Q.code \in totp.codes => Q.code \in Codes)
    BY <1>q DEF Request, Totp
  <2>2. [totp EXCEPT !.codes = Q.read \ {Q.code}] \in Totp
    BY <2>1 DEF Totp
  <2> QED BY <1>8, <2>1, <2>2, GoesOK DEF Consume, Accepts, PCs
<1>9. CASE Drop(r)
  <2>1. NoChallenge \in Challenge
    BY DEF NoChallenge, Challenge
  <2>2. passed' \in [Challenges -> Nat]
    <3>1. CASE Q.ch \in Challenges
      BY <3>1, <1>9 DEF Drop
    <3>2. CASE Q.ch \notin Challenges
      BY <3>2, <1>9 DEF Drop
    <3> QED BY <3>1, <3>2
  <2> QED BY <1>9, <2>1, <2>2, GoesOK DEF Drop, PCs
<1>10. CASE Fail(r)
  <2>1. [challenge EXCEPT !.attempts = @ + 1] \in Challenge
    BY DEF Challenge
  <2> QED BY <1>10, <2>1, GoesOK, EndsOK DEF Fail, PCs, history
<1>11. CASE Exhaust(r)
  <2>1. NoChallenge \in Challenge
    BY DEF NoChallenge, Challenge
  <2> QED BY <1>11, <2>1, EndsOK DEF Exhaust, history
<1>12. ASSUME NEW s \in Sessions, NEW to \in Pages, Visit(r, s, to) PROVE TypeOK'
  <2>1. [Idle EXCEPT !.own = s, !.to = to, !.pc = IF NeedsTouch(session[s]) THEN "touch" ELSE to] \in Request
    BY IdleOK DEF Request, PCs
  <2>2. session' \in [Sessions -> Session]
    BY <1>12, SessionsOK DEF Visit
  <2>3. calls' \in 0..MaxCalls
    BY <1>12, CallOK DEF Visit
  <2> QED BY <1>12, <2>1, <2>2, <2>3 DEF Visit
<1>13. CASE Touch(r)
  <2>1. Q.to \in PCs
    BY <1>q DEF Request, PCs
  <2>2. session' \in [Sessions -> Session]
    <3> DEFINE s == Q.own
    <3>1. CASE session' = [session EXCEPT ![s] = Touched(session[s])]
      <4>1. CASE s \in Sessions
        BY <3>1, <4>1, SessionsOK
      <4>2. CASE s \notin Sessions
        BY <3>1, <4>2
      <4> QED BY <4>1, <4>2
    <3>2. CASE UNCHANGED session
      BY <3>2
    <3> QED BY <3>1, <3>2, <1>13 DEF Touch
  <2> QED BY <1>13, <2>1, <2>2, GoesOK, EndsOK DEF Touch
<1>14. CASE SignOut(r)
  BY <1>14, EndsOK, ClosedOK DEF SignOut, history
<1>15. ASSUME Changes(r) PROVE req' \in [Requests -> Request] /\ changed' \in Nat
  <2>1. [Q EXCEPT !.pc = "others", !.change = changed + 1] \in Request
    <3>1. "others" \in PCs /\ changed + 1 \in Nat
      BY DEF PCs
    <3> QED BY <1>q, <3>1 DEF Request
  <2> QED BY <1>15, <2>1 DEF Changes
<1>16. CASE ChangePassword(r)
  BY <1>16, <1>15 DEF ChangePassword, rows
<1>17. CASE Begin(r)
  BY <1>17, EndsOK, TotpsOK DEF Begin, history
<1>18. CASE Confirm(r)
  BY <1>18, GoesOK, EndsOK DEF Confirm, PCs, rows, history
<1>19. CASE Enable(r)
  <2>1. [totp EXCEPT !.confirmed = TRUE, !.codes = Issue(issued + 1)] \in Totp
    <3>1. Issue(issued + 1) \in SUBSET Codes
      BY TotpsOK
    <3> QED BY <3>1 DEF Totp
  <2> QED BY <1>19, <2>1, <1>15 DEF Enable
<1>20. CASE Regenerate(r)
  BY <1>20, GoesOK, EndsOK DEF Regenerate, PCs, rows, history
<1>21. CASE Replace(r)
  <2>1. [totp EXCEPT !.codes = Issue(issued + 1)] \in Totp
    BY TotpsOK DEF Totp
  <2> QED BY <1>21, <2>1, EndsOK DEF Replace
<1>22. CASE Disable(r)
  BY <1>22, <1>15, TotpsOK DEF Disable
<1>23. CASE EndOthers(r)
  <2>1. Q.change \in Nat /\ Q.own \in Sessions \cup {None}
    BY <1>q DEF Request
  <2>2. settled' \in Nat /\ keeper' \in Sessions \cup {None}
    BY <1>23, <2>1 DEF EndOthers, Settles
  <2> QED BY <1>23, <2>2, EndsOK, ClosedOK DEF EndOthers
<1>24. ASSUME NEW l \in Links, FindLink(r, l) PROVE TypeOK'
  <2>1. [Idle EXCEPT !.pc = "redeem", !.link = l] \in Request
    BY IdleOK DEF Request, PCs
  <2> QED BY <1>24, <2>1, CallOK DEF FindLink, rows, history
<1>25. CASE Redeem(r)
  <2>1. Closed(Sessions) \in [Sessions -> Session]
    BY ClosedOK
  <2>2. redeemed' \in [Links -> Nat] /\ link' \in [Links -> {"none", "live", "expired", "used", "gone"}]
    BY <1>25 DEF Redeem
  <2>3. session' \in [Sessions -> Session] /\ changed' \in Nat /\ settled' \in Nat
        /\ keeper' \in Sessions \cup {None}
    BY <1>25, <2>1 DEF Redeem
  <2> QED BY <1>25, <2>2, <2>3, EndsOK DEF Redeem
<1>26. CASE Crash(r)
  BY <1>26, EndsOK DEF Crash, rows, history
<1> HIDE DEF TypeOK
<1> QED BY <1>1, <1>2, <1>3, <1>4, <1>5, <1>6, <1>7, <1>8, <1>9, <1>10, <1>11, <1>12, <1>13, <1>14,
           <1>16, <1>17, <1>18, <1>19, <1>20, <1>21, <1>22, <1>23, <1>24, <1>25, <1>26 DEF Steps

\* The steps that no request takes.
Others ==
    \/ \E l \in Links : RequestLink(l)
    \/ Tick \/ Expire \/ PruneSessions \/ PruneChallenges

LEMMA TOther ==
  ASSUME TypeOK, Others
  PROVE  TypeOK'
<1> USE DEF TypeOK
<1>1. ASSUME NEW l \in Links, RequestLink(l) PROVE TypeOK'
  BY <1>1, CallOK DEF RequestLink, history
<1>2. CASE Tick
  <2>2. session' \in [Sessions -> Session]
    BY <1>2, SessionsOK DEF Tick
  <2> QED BY <1>2, <2>2 DEF Tick
<1>3. CASE Expire
  <2>1. [challenge EXCEPT !.live = FALSE] \in Challenge
    BY DEF Challenge
  <2> QED BY <1>3, <2>1 DEF Expire, history
<1>4. CASE PruneSessions
  BY <1>4, ClosedOK DEF PruneSessions, history
<1>5. CASE PruneChallenges
  BY <1>5 DEF PruneChallenges, NoChallenge, Challenge, history
<1> QED BY <1>1, <1>2, <1>3, <1>4, <1>5 DEF Others

LEMMA NextIs == Next <=> (\E r \in Requests : Steps(r)) \/ Others
BY DEF Next, Steps, Others

LEMMA TNext == TypeOK /\ [Next]_vars => TypeOK'
<1> SUFFICES ASSUME TypeOK, [Next]_vars PROVE TypeOK'
  OBVIOUS
<1>1. CASE UNCHANGED vars
  BY <1>1 DEF TypeOK, vars, rows, history
<1>2. CASE Next
  BY <1>2, NextIs, TStep, TOther
<1> QED BY <1>1, <1>2

(* The rows, the requests and the history keep their types.               *)
THEOREM TypeCorrect == Spec => []TypeOK
<1> QED BY TInit, TNext, PTL DEF Spec
----------------------------------------------------------------------------
(* Sessions. *)

\* What has become of the window of a session: what is left of it and how long the session
\* has gone unused make up the idle window, but for the refresh interval.
Rolling(s) ==
    s.open => /\ s.left > 0 => s.left + s.unused \in (IdleTTL - RefreshAfter)..IdleTTL
              /\ s.left = 0 => s.unused >= IdleTTL - RefreshAfter

RInv == TypeOK /\ \A s \in Sessions : Rolling(session[s])

LEMMA RollingKept ==
  /\ Rolling(NoSession) /\ \A n \in Nat : Rolling(NewSession(n))
  /\ \A s \in Session : Rolling(Touched(s)) /\ (Rolling(s) => Rolling(Aged(s)))
  /\ \A s \in Session : s.left >= IdleTTL - RefreshAfter => Rolling([s EXCEPT !.unused = 0])
<1>1. Rolling(NoSession) /\ \A n \in Nat : Rolling(NewSession(n))
  BY DEF Rolling, NoSession, NewSession
<1>2. ASSUME NEW s \in Session PROVE Rolling(Touched(s))
  BY DEF Rolling, Touched, Session
<1>3. ASSUME NEW s \in Session, Rolling(s) PROVE Rolling(Aged(s))
  BY <1>3 DEF Rolling, Aged, Session
<1>4. ASSUME NEW s \in Session, s.left >= IdleTTL - RefreshAfter
      PROVE  Rolling([s EXCEPT !.unused = 0])
  BY <1>4 DEF Rolling, Session
<1> QED BY <1>1, <1>2, <1>3, <1>4

\* What a step may do to a session.
Moved(s) ==
    \/ session'[s] = session[s]
    \/ session'[s] = NoSession
    \/ /\ UNCHANGED <<changed, settled, keeper>>
       /\ \/ session'[s] = NewSession(changed)
          \/ session'[s] = Touched(session[s]) /\ session[s].open
          \/ session'[s] = [session[s] EXCEPT !.unused = 0] /\ ~NeedsTouch(session[s])
          \/ session'[s] = Aged(session[s])

LEMMA SessionMoves ==
  ASSUME TypeOK, [Next]_vars, NEW s \in Sessions
  PROVE  Moved(s)
<1> USE DEF TypeOK, Moved
<1>1. CASE UNCHANGED session
  BY <1>1
<1>2. ASSUME NEW S, session' = Closed(S) PROVE session'[s] = session[s] \/ session'[s] = NoSession
  BY <1>2 DEF Closed
<1>3. ASSUME NEW r \in Requests, StartSession(r)
      PROVE  Moved(s)
  BY <1>3 DEF StartSession
<1>4. ASSUME NEW r \in Requests, NEW z \in Sessions, NEW to \in Pages, Visit(r, z, to)
      PROVE  Moved(s)
  BY <1>4 DEF Visit
<1>5. ASSUME NEW r \in Requests, Touch(r)
      PROVE  Moved(s)
  BY <1>5 DEF Touch
<1>6. CASE Tick
  BY <1>6 DEF Tick
<1>7. ASSUME NEW r \in Requests, Redeem(r)
      PROVE  session' = session \/ session' = Closed(Sessions)
  BY <1>7 DEF Redeem
<1>8. ASSUME NEW r \in Requests, SignOut(r) \/ EndOthers(r)
      PROVE  \E S \in SUBSET (Sessions \cup {None}) : session' = Closed(S)
  <2>1. req[r].own \in Sessions \cup {None}
    BY DEF Request
  <2> QED BY <1>8, <2>1 DEF SignOut, EndOthers
<1>9. CASE PruneSessions
  BY <1>9, <1>2 DEF PruneSessions
<1>10. ASSUME NEW r \in Requests, Steps(r),
              ~StartSession(r), ~Touch(r), ~Redeem(r), ~SignOut(r), ~EndOthers(r),
              \A z \in Sessions, to \in Pages : ~Visit(r, z, to)
       PROVE  UNCHANGED session
  BY <1>10 DEF Steps, SignIn, Ask, Open, Answer, Judge, ReadCodes, Consume, Drop, Fail, Exhaust,
     ChangePassword, Begin, Confirm, Enable, Regenerate, Replace, Disable, FindLink, Crash, rows
<1>11. CASE Others
  BY <1>11, <1>6, <1>9, <1>1 DEF Others, RequestLink, Expire, PruneChallenges
<1>12. ASSUME NEW r \in Requests, Steps(r) PROVE Moved(s)
  BY <1>12, <1>1, <1>2, <1>3, <1>4, <1>5, <1>7, <1>8, <1>10, Zenon
<1>13. CASE UNCHANGED vars
  BY <1>13 DEF vars, rows
<1> QED BY <1>11, <1>12, <1>13, NextIs

LEMMA RStep == RInv /\ [Next]_vars => RInv'
<1> SUFFICES ASSUME RInv, [Next]_vars PROVE RInv'
  OBVIOUS
<1>1. TypeOK /\ TypeOK'
  BY TNext DEF RInv
<1>2. ASSUME NEW s \in Sessions PROVE Rolling(session'[s])
  <2>1. session[s] \in Session /\ Rolling(session[s]) /\ changed \in Nat
    BY <1>1 DEF RInv, TypeOK
  <2>2. ~NeedsTouch(session[s]) => session[s].left >= IdleTTL - RefreshAfter
    BY <2>1 DEF NeedsTouch, Session
  <2> QED BY <1>1, <2>1, <2>2, SessionMoves, RollingKept DEF Moved
<1> QED BY <1>1, <1>2 DEF RInv

(* A session that is not signed out nor at its cap is good for the idle    *)
(* window less the refresh interval after its last use, and no longer than *)
(* the idle window.                                                        *)
THEOREM WindowRolls == Spec => []RollingWindow
<1>1. Init => RInv
  <2> SUFFICES ASSUME Init PROVE RInv
    OBVIOUS
  <2>1. \A s \in Sessions : Rolling(session[s])
    BY RollingKept, 0 \in Nat DEF Init
  <2> QED BY <2>1, TInit DEF RInv
<1>2. RInv => RollingWindow
  <2> SUFFICES ASSUME RInv, NEW s \in Sessions, session[s].open, session[s].age < AbsoluteTTL
               PROVE  /\ session[s].unused < IdleTTL - RefreshAfter => Live(session[s])
                      /\ Live(session[s]) => session[s].unused < IdleTTL
    BY DEF RollingWindow
  <2>1. session[s] \in Session /\ Rolling(session[s])
    BY DEF RInv, TypeOK
  <2> QED BY <2>1 DEF Rolling, Live, Session
<1> QED BY <1>1, <1>2, RStep, PTL DEF Spec

\* What a step may do to the number of changes, and to the change a request has made.
LEMMA ChangeMoves ==
  ASSUME TypeOK, [Next]_vars
  PROVE  /\ changed' \in {changed, changed + 1}
         /\ \A q \in Requests : req'[q].change \in {req[q].change, 0, changed'}
         /\ \/ UNCHANGED <<settled, keeper>>
            \/ \E r \in Requests : EndOthers(r) \/ Redeem(r)
<1> USE DEF TypeOK
<1>1. ASSUME NEW r \in Requests, Steps(r), NEW q \in Requests
      PROVE  /\ changed' \in {changed, changed + 1}
             /\ req'[q].change \in {req[q].change, 0, changed'}
             /\ UNCHANGED <<settled, keeper>> \/ EndOthers(r) \/ Redeem(r)
  <2>1. ASSUME NEW pc, Goes(r, pc) PROVE req'[q].change = req[q].change
    BY <2>1 DEF Goes, Request
  <2>2. ASSUME Ends(r) PROVE req'[q].change \in {req[q].change, 0}
    BY <2>2 DEF Ends, Idle
  <2>3. ASSUME Changes(r) PROVE req'[q].change \in {req[q].change, changed'} /\ changed' = changed + 1
    BY <2>3 DEF Changes, Request
  <2>4. ASSUME NEW kind \in Kinds, NEW code \in Given \cup {None}, Answer(r, kind, code)
        PROVE  req'[q].change \in {req[q].change, 0} /\ UNCHANGED <<changed, settled, keeper>>
    BY <2>4 DEF Answer, Idle
  <2>5. ASSUME NEW s \in Sessions, NEW to \in Pages, Visit(r, s, to)
        PROVE  req'[q].change \in {req[q].change, 0} /\ UNCHANGED <<changed, settled, keeper>>
    BY <2>5 DEF Visit, Idle
  <2>6. ASSUME NEW l \in Links, FindLink(r, l)
        PROVE  req'[q].change \in {req[q].change, 0} /\ UNCHANGED <<changed, settled, keeper>>
    BY <2>6 DEF FindLink, Idle, history
  <2>7. ASSUME ReadCodes(r)
        PROVE  req'[q].change = req[q].change /\ UNCHANGED <<changed, settled, keeper>>
    <3>1. CASE Goes(r, "fail")
      BY <2>7, <3>1, <2>1 DEF ReadCodes
    <3>2. CASE req' = [req EXCEPT ![r] = [req[r] EXCEPT !.pc = "consume", !.read = totp.codes]]
      BY <2>7, <3>2 DEF ReadCodes, Request
    <3> QED BY <2>7, <3>1, <3>2 DEF ReadCodes
  <2>8. CASE ChangePassword(r) \/ Enable(r) \/ Disable(r)
    BY <2>8, <2>3 DEF ChangePassword, Enable, Disable
  <2>9. CASE \/ SignIn(r) \/ Ask(r) \/ Open(r) \/ StartSession(r) \/ Judge(r) \/ Consume(r)
             \/ Drop(r) \/ Fail(r) \/ Exhaust(r) \/ Touch(r) \/ SignOut(r) \/ Begin(r) \/ Confirm(r)
             \/ Regenerate(r) \/ Replace(r) \/ Crash(r)
    BY <2>9, <2>1, <2>2 DEF SignIn, Ask, Open, StartSession, Judge, Consume, Drop, Fail, Exhaust,
       Touch, SignOut, Begin, Confirm, Regenerate, Replace, Crash, history
  <2>10. CASE EndOthers(r) \/ Redeem(r)
    BY <2>10, <2>2 DEF EndOthers, Redeem
  <2> QED BY <1>1, <2>4, <2>5, <2>6, <2>7, <2>8, <2>9, <2>10 DEF Steps
<1>2. CASE Others
  BY <1>2 DEF Others, RequestLink, Tick, Expire, PruneSessions, PruneChallenges, history
<1>3. CASE UNCHANGED vars
  BY <1>3 DEF vars, history
<1>4. ASSUME NEW r \in Requests, Steps(r)
      PROVE  /\ changed' \in {changed, changed + 1}
             /\ \A q \in Requests : req'[q].change \in {req[q].change, 0, changed'}
             /\ UNCHANGED <<settled, keeper>> \/ EndOthers(r) \/ Redeem(r)
  BY <1>4, <1>1
<1> QED BY <1>2, <1>3, <1>4, NextIs

SInv ==
    /\ TypeOK
    /\ settled <= changed
    /\ \A r \in Requests : req[r].change <= changed
    /\ OldSessionsEnd

LEMMA SStep == SInv /\ [Next]_vars => SInv'
<1> SUFFICES ASSUME SInv, [Next]_vars PROVE SInv'
  OBVIOUS
<1>1. TypeOK /\ TypeOK'
  BY TNext DEF SInv
<1>2. /\ changed \in Nat /\ changed' \in Nat /\ settled \in Nat /\ settled' \in Nat
      /\ \A r \in Requests : req[r].change \in Nat /\ req'[r].change \in Nat
  BY <1>1 DEF TypeOK, Request
<1>3. \A r \in Requests : req'[r].change <= changed'
  BY <1>1, <1>2, ChangeMoves DEF SInv
<1>4. settled' <= changed'
  <2>1. CASE UNCHANGED settled
    BY <2>1, <1>1, <1>2, ChangeMoves DEF SInv
  <2>2. ASSUME NEW r \in Requests, EndOthers(r) PROVE settled' <= changed'
    BY <2>2, <1>2 DEF EndOthers, Settles, SInv
  <2>3. ASSUME NEW r \in Requests, Redeem(r) PROVE settled' <= changed'
    BY <2>3, <1>2 DEF Redeem, SInv
  <2> QED BY <2>1, <2>2, <2>3, <1>1, ChangeMoves
<1>5. ASSUME NEW s \in Sessions, session'[s].open, session'[s].since < settled'
      PROVE  s = keeper'
  <2>1. session[s] \in Session /\ session'[s] \in Session
    BY <1>1 DEF TypeOK
  <2>2. CASE UNCHANGED <<settled, keeper>>
    <3>1. Moved(s)
      BY <1>1, SessionMoves
    <3>2. \/ session[s].open /\ session'[s].since = session[s].since
          \/ session'[s].since = changed
      BY <1>5, <2>1, <3>1 DEF Moved, NoSession, NewSession, Touched, Aged, Session
    <3> QED BY <3>2, <2>2, <1>5, <1>2 DEF SInv, OldSessionsEnd
  <2>3. ASSUME NEW r \in Requests, EndOthers(r) PROVE s = keeper'
    <3>1. s = req[r].own /\ session'[s] = session[s]
      BY <1>5, <2>3 DEF EndOthers, Closed, NoSession
    <3>2. CASE req[r].change > settled
      BY <3>1, <3>2, <2>3 DEF EndOthers, Settles
    <3>3. CASE ~(req[r].change > settled)
      <4>1. UNCHANGED <<settled, keeper>>
        BY <3>3, <2>3 DEF EndOthers, Settles
      <4> QED BY <4>1, <3>1, <1>5 DEF SInv, OldSessionsEnd
    <3> QED BY <3>2, <3>3
  <2>4. ASSUME NEW r \in Requests, Redeem(r) PROVE s = keeper'
    <3>1. UNCHANGED <<settled, keeper, session>>
      BY <1>5, <2>4 DEF Redeem, Closed, NoSession
    <3> QED BY <3>1, <1>5 DEF SInv, OldSessionsEnd
  <2> QED BY <2>2, <2>3, <2>4, <1>1, ChangeMoves
<1> QED BY <1>1, <1>3, <1>4, <1>5 DEF SInv, OldSessionsEnd

(* A change of the password or of the second factor, once it has ended the *)
(* other sessions, leaves none that was started before it but its own.     *)
THEOREM OthersEnd == Spec => []OldSessionsEnd
<1>1. Init => SInv
  <2> SUFFICES ASSUME Init PROVE SInv
    OBVIOUS
  <2>1. settled = 0 /\ changed = 0 /\ \A r \in Requests : req[r].change = 0
    BY DEF Init, Idle
  <2>2. \A s \in Sessions : session[s].since = 0
    BY DEF Init, NoSession, NewSession
  <2> QED BY <2>1, <2>2, TInit DEF SInv, OldSessionsEnd
<1>2. SInv => OldSessionsEnd
  BY DEF SInv
<1> QED BY <1>1, <1>2, SStep, PTL DEF Spec

----------------------------------------------------------------------------
(* Recovery codes. *)

\* Which steps leave a request about to store the codes it has read, and which change the codes.
LEMMA CodeMoves ==
  ASSUME TypeOK, [Next]_vars
  PROVE  /\ \A q \in Requests : req'[q].pc = "consume" => req'[q] = req[q] \/ ReadCodes(q)
         /\ \/ UNCHANGED <<totp, issued, spent, again>>
            \/ totp'.codes = {} /\ UNCHANGED <<issued, spent, again>>
            \/ totp'.codes = Issue(issued + 1) /\ issued' = issued + 1 /\ UNCHANGED <<spent, again>>
            \/ \E r \in Requests : Consume(r)
         /\ UNCHANGED crossed \/ \E r \in Requests : ReadCodes(r)
<1> USE DEF TypeOK
<1>1. ASSUME NEW r \in Requests, Steps(r), NEW q \in Requests, req'[q].pc = "consume"
      PROVE  req'[q] = req[q] \/ ReadCodes(q)
  <2>1. CASE q # r
    <3>1. ASSUME NEW pc, Goes(r, pc) PROVE req'[q] = req[q]
      BY <2>1, <3>1 DEF Goes
    <3>2. ASSUME Ends(r) PROVE req'[q] = req[q]
      BY <2>1, <3>2 DEF Ends
    <3> QED BY <1>1, <2>1, <3>1, <3>2 DEF Steps, SignIn, Ask, Open, StartSession, Answer, Judge, ReadCodes,
            Consume, Drop, Fail, Exhaust, Visit, Touch, SignOut, ChangePassword, Begin, Confirm, Enable,
            Regenerate, Replace, Disable, EndOthers, FindLink, Redeem, Crash, Changes
  <2>2. CASE q = r
    <3>1. ASSUME NEW pc, Goes(r, pc) PROVE req'[r].pc = pc
      BY <3>1 DEF Goes, Request
    <3>2. ASSUME Ends(r) PROVE req'[r].pc = "idle"
      BY <3>2 DEF Ends, Idle
    <3>3. ASSUME Changes(r) PROVE req'[r].pc = "others"
      BY <3>3 DEF Changes, Request
    <3>4. ASSUME NEW kind \in Kinds, NEW code \in Given \cup {None}, Answer(r, kind, code)
          PROVE  req'[r].pc = "state"
      BY <3>4 DEF Answer, Idle
    <3>5. ASSUME NEW s \in Sessions, NEW to \in Pages, Visit(r, s, to)
          PROVE  req' = req \/ req'[r].pc \in {"touch", to}
      BY <3>5 DEF Visit, Idle
    <3>6. ASSUME NEW l \in Links, FindLink(r, l) PROVE req'[r].pc = "redeem"
      BY <3>6 DEF FindLink, Idle
    <3>7. CASE Touch(r)
      <4>1. req[r].to # "consume"
        BY DEF Request, Pages
      <4> QED BY <4>1, <3>7, <2>2, <1>1, <3>1, <3>2 DEF Touch
    <3>8. ASSUME NEW to \in Pages PROVE to # "consume"
      BY DEF Pages
    <3>9. CASE ChangePassword(r) \/ Enable(r) \/ Disable(r)
      BY <3>9, <3>3, <2>2, <1>1 DEF ChangePassword, Enable, Disable
    <3>10. CASE \/ SignIn(r) \/ Ask(r) \/ Open(r) \/ StartSession(r) \/ Judge(r) \/ Consume(r)
                \/ Drop(r) \/ Fail(r) \/ Exhaust(r) \/ SignOut(r) \/ Begin(r) \/ Confirm(r)
                \/ Regenerate(r) \/ Replace(r) \/ EndOthers(r) \/ Redeem(r) \/ Crash(r)
      BY <3>10, <3>1, <3>2, <2>2, <1>1 DEF SignIn, Ask, Open, StartSession, Judge, Consume, Drop, Fail,
         Exhaust, SignOut, Begin, Confirm, Regenerate, Replace, EndOthers, Redeem, Crash
    <3> QED BY <1>1, <2>2, <3>4, <3>5, <3>6, <3>7, <3>8, <3>9, <3>10 DEF Steps
  <2> QED BY <2>1, <2>2
<1>2. ASSUME NEW r \in Requests, Steps(r)
      PROVE  /\ \/ UNCHANGED <<totp, issued, spent, again>>
                \/ totp'.codes = {} /\ UNCHANGED <<issued, spent, again>>
                \/ totp'.codes = Issue(issued + 1) /\ issued' = issued + 1 /\ UNCHANGED <<spent, again>>
                \/ Consume(r)
             /\ UNCHANGED crossed \/ ReadCodes(r)
  <2>1. CASE Begin(r) \/ Disable(r)
    BY <2>1 DEF Begin, Disable, TotpOff, history
  <2>2. CASE Enable(r) \/ Replace(r)
    BY <2>2 DEF Enable, Replace, Totp
  <2>3. ASSUME NEW kind \in Kinds, NEW code \in Given \cup {None}, Answer(r, kind, code)
        PROVE  UNCHANGED <<totp, issued, spent, again, crossed>>
    BY <2>3 DEF Answer, rows
  <2>4. ASSUME NEW s \in Sessions, NEW to \in Pages, Visit(r, s, to)
        PROVE  UNCHANGED <<totp, issued, spent, again, crossed>>
    BY <2>4 DEF Visit
  <2>5. ASSUME NEW l \in Links, FindLink(r, l) PROVE UNCHANGED <<totp, issued, spent, again, crossed>>
    BY <2>5 DEF FindLink, rows, history
  <2>6. CASE \/ SignIn(r) \/ Ask(r) \/ Open(r) \/ StartSession(r) \/ Judge(r) \/ Drop(r) \/ Fail(r)
             \/ Exhaust(r) \/ Touch(r) \/ SignOut(r) \/ ChangePassword(r) \/ Confirm(r)
             \/ Regenerate(r) \/ EndOthers(r) \/ Redeem(r) \/ Crash(r) \/ ReadCodes(r) \/ Consume(r)
    BY <2>6 DEF SignIn, Ask, Open, StartSession, Judge, Drop, Fail, Exhaust, Touch, SignOut,
       ChangePassword, Confirm, Regenerate, EndOthers, Redeem, Crash, ReadCodes, Consume, rows, history
  <2> QED BY <1>2, <2>1, <2>2, <2>3, <2>4, <2>5, <2>6 DEF Steps
<1>3. CASE Others
  BY <1>3 DEF Others, RequestLink, Tick, Expire, PruneSessions, PruneChallenges, history
<1>4. CASE UNCHANGED vars
  BY <1>4 DEF vars, rows, history
<1>5. ASSUME NEW r \in Requests, Steps(r)
      PROVE  /\ \A q \in Requests : req'[q].pc = "consume" => req'[q] = req[q] \/ ReadCodes(q)
             /\ \/ UNCHANGED <<totp, issued, spent, again>>
                \/ totp'.codes = {} /\ UNCHANGED <<issued, spent, again>>
                \/ totp'.codes = Issue(issued + 1) /\ issued' = issued + 1 /\ UNCHANGED <<spent, again>>
                \/ Consume(r)
             /\ UNCHANGED crossed \/ ReadCodes(r)
  BY <1>5, <1>1, <1>2
<1> QED BY <1>3, <1>4, <1>5, NextIs

\* The codes a request is about to store are of one issue, that of the code it spends.
OneIssue(q) == q.pc = "consume" => q.code \in Codes /\ q.read \subseteq Issue(q.code[1]) /\ q.code \in q.read

OInv == TypeOK /\ OnlyTheLastIssue /\ \A r \in Requests : OneIssue(req[r])

\* A request that stores them spends a code of the last issue.
LEMMA ConsumeIs ==
  ASSUME OInv, NEW r \in Requests, Consume(r), req[r].code \in totp.codes
  PROVE  /\ req[r].code[1] = issued
         /\ req[r].read \subseteq Issue(issued)
         /\ totp'.codes = req[r].read \ {req[r].code}
         /\ Accepts(r)
         /\ UNCHANGED issued
<1>1. req[r].code[1] = issued
  BY DEF OInv, OnlyTheLastIssue, Issue
<1>2. req[r].read \subseteq Issue(issued)
  BY <1>1 DEF OInv, OneIssue, Consume
<1>3. totp'.codes = req[r].read \ {req[r].code}
  BY DEF Consume, OInv, TypeOK, Totp
<1> QED BY <1>1, <1>2, <1>3 DEF Consume

LEMMA ReadIs ==
  ASSUME TypeOK, NEW r \in Requests, ReadCodes(r), req'[r].pc = "consume"
  PROVE  /\ req[r].code \in totp.codes
         /\ req'[r].code = req[r].code /\ req'[r].read = totp.codes
         /\ UNCHANGED <<totp, issued, spent, again>>
         /\ \A q \in Rivals(r) : {req[q].code, req[r].code} \subseteq crossed'
         /\ \A q \in Requests \ {r} : req'[q] = req[q]
<1>1. CASE req[r].code \in totp.codes
  <2>1. req' = [req EXCEPT ![r] = [req[r] EXCEPT !.pc = "consume", !.read = totp.codes]]
    BY <1>1 DEF ReadCodes
  <2>2. req'[r] = [req[r] EXCEPT !.pc = "consume", !.read = totp.codes]
    BY <2>1 DEF TypeOK
  <2>3. req'[r].code = req[r].code /\ req'[r].read = totp.codes
    BY <2>2 DEF TypeOK, Request
  <2>4. \A q \in Requests \ {r} : req'[q] = req[q]
    BY <2>1 DEF TypeOK
  <2> QED BY <1>1, <2>3, <2>4 DEF ReadCodes, rows
<1>2. CASE req[r].code \notin totp.codes
  BY <1>2 DEF ReadCodes, Goes, TypeOK, Request
<1> QED BY <1>1, <1>2

LEMMA OStep == OInv /\ [Next]_vars => OInv'
<1> SUFFICES ASSUME OInv, [Next]_vars PROVE OInv'
  OBVIOUS
<1>1. TypeOK /\ TypeOK'
  BY TNext DEF OInv
<1>2. totp'.codes \subseteq Issue(issued')
  <2>1. ASSUME NEW r \in Requests, Consume(r) PROVE totp'.codes \subseteq Issue(issued')
    <3>1. CASE req[r].code \in totp.codes
      BY <2>1, <3>1, ConsumeIs
    <3>2. CASE req[r].code \notin totp.codes
      BY <2>1, <3>2 DEF Consume, OInv, OnlyTheLastIssue
    <3> QED BY <3>1, <3>2
  <2>2. CASE UNCHANGED <<totp, issued>>
    BY <2>2 DEF OInv, OnlyTheLastIssue
  <2> QED BY <2>1, <2>2, <1>1, CodeMoves
<1>3. ASSUME NEW q \in Requests PROVE OneIssue(req'[q])
  <2>1. CASE req'[q] = req[q]
    BY <2>1 DEF OInv
  <2>2. CASE ReadCodes(q) /\ req'[q].pc = "consume"
    <3>1. req'[q].code \in totp.codes /\ req'[q].read = totp.codes
      BY <2>2, <1>1, ReadIs
    <3>2. totp.codes \subseteq Codes /\ totp.codes \subseteq Issue(issued)
      BY <1>1 DEF TypeOK, Totp, OInv, OnlyTheLastIssue
    <3> QED BY <3>1, <3>2 DEF OneIssue, Issue
  <2> QED BY <2>1, <2>2, <1>1, CodeMoves DEF OneIssue
<1> QED BY <1>1, <1>2, <1>3 DEF OInv, OnlyTheLastIssue

LEMMA OInit == Init => OInv
<1> SUFFICES ASSUME Init PROVE OInv
  OBVIOUS
<1>1. totp.codes \subseteq Issue(issued)
  BY DEF Init, TotpOff, TotpOn
<1>2. \A r \in Requests : req[r].pc = "idle"
  BY DEF Init, Idle
<1> QED BY <1>1, <1>2, TInit DEF OInv, OnlyTheLastIssue, OneIssue

(* A new set of recovery codes puts an end to the sets before it, whatever *)
(* requests were spending a code of theirs.                                *)
THEOREM LastIssueOnly == Spec => []OnlyTheLastIssue
<1>1. OInv => OnlyTheLastIssue
  BY DEF OInv
<1> QED BY <1>1, OInit, OStep, PTL DEF Spec

\* A code that was never being spent beside a different one has been accepted once at most, is
\* not stored if it has, and no request that spends another code is about to store it.
Alone(c) ==
    /\ c \notin again
    /\ c \in spent => c \notin totp.codes
    /\ \A q, r \in Requests :
          req[q].pc = "consume" /\ req[r].pc = "consume" /\ req[q].code = c => req[r].code = c
    /\ \A r \in Requests : c \in spent /\ req[r].pc = "consume" /\ c \in req[r].read => req[r].code = c

CInv == OInv /\ (\A c \in spent : c[1] <= issued) /\ \A c \in Codes \ crossed : Alone(c)

LEMMA CrossedGrows ==
  ASSUME [Next]_vars, TypeOK
  PROVE  crossed \subseteq crossed'
<1>1. ASSUME NEW r \in Requests, ReadCodes(r) PROVE crossed \subseteq crossed'
  BY <1>1 DEF ReadCodes
<1> QED BY <1>1, CodeMoves

\* A request that has read the codes, and spends one that is not crossed, is alone with it.
LEMMA ReadKeepsAlone ==
  ASSUME TypeOK, NEW c, c \notin crossed', Alone(c),
         NEW r \in Requests, ReadCodes(r), req'[r].pc = "consume"
  PROVE  Alone(c)'
<1>1. /\ req'[r].code = req[r].code /\ req'[r].read = totp.codes
      /\ UNCHANGED <<totp, spent, again>>
      /\ \A q \in Requests : req[q].pc = "consume" /\ req[q].code # req[r].code
                              => {req[q].code, req[r].code} \subseteq crossed'
      /\ \A q \in Requests \ {r} : req'[q] = req[q]
  BY ReadIs DEF Rivals
<1>2. ASSUME NEW x \in Requests, NEW q \in Requests,
             req'[q].pc = "consume", req'[x].pc = "consume", req'[q].code = c
      PROVE  req'[x].code = c
  <2>1. CASE q # r /\ x # r
    BY <2>1, <1>1, <1>2 DEF Alone
  <2>2. CASE q = r /\ x # r
    BY <2>2, <1>1, <1>2
  <2>3. CASE q # r /\ x = r
    BY <2>3, <1>1, <1>2
  <2> QED BY <2>1, <2>2, <2>3, <1>2
<1>3. ASSUME NEW q \in Requests, c \in spent', req'[q].pc = "consume", c \in req'[q].read
      PROVE  req'[q].code = c
  <2>1. CASE q = r
    BY <2>1, <1>1, <1>3 DEF Alone
  <2>2. CASE q # r
    BY <2>2, <1>1, <1>3 DEF Alone
  <2> QED BY <2>1, <2>2
<1> QED BY <1>1, <1>2, <1>3 DEF Alone

\* The write of a request that is told its code was good.
LEMMA ConsumeKeepsAlone ==
  ASSUME OInv, NEW c, Alone(c), NEW r \in Requests, Consume(r), req[r].code \in totp.codes,
         \A q \in Requests : req'[q].pc = "consume" => req'[q] = req[q]
  PROVE  Alone(c)'
<1>1. /\ req[r].pc = "consume"
      /\ totp'.codes = req[r].read \ {req[r].code}
      /\ spent' = spent \cup {req[r].code}
      /\ again' = IF req[r].code \in spent THEN again \cup {req[r].code} ELSE again
  BY ConsumeIs DEF Consume, Accepts
<1>2. c \notin again'
  BY <1>1 DEF Alone
<1>3. c \in spent' => c \notin totp'.codes
  BY <1>1 DEF Alone
<1>4. ASSUME NEW q \in Requests, c \in spent', req'[q].pc = "consume", c \in req'[q].read
      PROVE  req'[q].code = c
  <2>1. req'[q] = req[q]
    BY <1>4
  <2> QED BY <1>1, <1>4, <2>1 DEF Alone
<1>5. ASSUME NEW q \in Requests, NEW x \in Requests,
             req'[q].pc = "consume", req'[x].pc = "consume", req'[q].code = c
      PROVE  req'[x].code = c
  BY <1>5 DEF Alone
<1> QED BY <1>2, <1>3, <1>4, <1>5 DEF Alone

LEMMA CStep == CInv /\ [Next]_vars => CInv'
<1> SUFFICES ASSUME CInv, [Next]_vars PROVE CInv'
  OBVIOUS
<1>1. OInv /\ OInv' /\ TypeOK /\ TypeOK'
  BY OStep DEF CInv, OInv
<1>2. issued \in Nat /\ issued' \in Nat /\ \A c \in spent : c[1] \in Nat
  BY <1>1 DEF TypeOK, Codes
<1>3. \A c \in spent' : c[1] <= issued'
  <2>1. ASSUME NEW r \in Requests, Consume(r) PROVE \A c \in spent' : c[1] <= issued'
    <3>1. CASE req[r].code \in totp.codes
      BY <2>1, <3>1, <1>1, <1>2, ConsumeIs DEF CInv, Accepts
    <3>2. CASE req[r].code \notin totp.codes
      BY <2>1, <3>2 DEF Consume, CInv
    <3> QED BY <3>1, <3>2
  <2>2. CASE UNCHANGED spent /\ issued' \in {issued, issued + 1}
    BY <2>2, <1>2 DEF CInv
  <2> QED BY <2>1, <2>2, <1>1, CodeMoves
<1>4. ASSUME NEW c \in Codes \ crossed' PROVE Alone(c)'
  <2>1. Alone(c)
    BY <1>1, <1>4, CrossedGrows DEF CInv
  <2>2. ASSUME NEW r \in Requests, ReadCodes(r), req'[r].pc = "consume" PROVE Alone(c)'
    BY <2>1, <2>2, <1>1, <1>4, ReadKeepsAlone
  <2>3. CASE ~\E r \in Requests : ReadCodes(r) /\ req'[r].pc = "consume"
    <3>1. \A q \in Requests : req'[q].pc = "consume" => req'[q] = req[q]
      BY <2>3, <1>1, CodeMoves
    <3>2. ASSUME NEW r \in Requests, Consume(r), req[r].code \in totp.codes PROVE Alone(c)'
      BY <3>1, <3>2, <2>1, <1>1, ConsumeKeepsAlone
    <3>3. ASSUME UNCHANGED <<spent, again>>, c \in spent' => c \notin totp'.codes PROVE Alone(c)'
      BY <3>3, <3>1, <2>1 DEF Alone
    <3>4. CASE UNCHANGED <<totp, issued, spent, again>>
      BY <3>3, <3>4, <2>1 DEF Alone
    <3>5. CASE totp'.codes = {} /\ UNCHANGED <<spent, again>>
      BY <3>3, <3>5
    <3>6. CASE totp'.codes = Issue(issued + 1) /\ UNCHANGED <<spent, again>>
      <4>1. \A d \in Issue(issued + 1) : d[1] = issued + 1
        BY DEF Issue
      <4>2. c \in spent => c \notin Issue(issued + 1)
        BY <4>1, <1>2 DEF CInv
      <4> QED BY <3>3, <3>6, <4>2
    <3>7. ASSUME NEW r \in Requests, Consume(r), req[r].code \notin totp.codes PROVE Alone(c)'
      BY <3>3, <3>7, <2>1 DEF Consume, Alone
    <3> QED BY <3>2, <3>4, <3>5, <3>6, <3>7, <1>1, CodeMoves
  <2> QED BY <2>2, <2>3
<1> QED BY <1>1, <1>3, <1>4 DEF CInv

(* However many requests present a recovery code, together or later, it is *)
(* accepted once, unless it was being spent while a different one was.     *)
THEOREM CodesSpentOnce == Spec => []CodeSpentOnce
<1>1. Init => CInv
  <2> SUFFICES ASSUME Init PROVE CInv
    OBVIOUS
  <2>1. \A r \in Requests : req[r].pc = "idle"
    BY DEF Init, Idle
  <2>2. spent = {} /\ again = {}
    BY DEF Init
  <2> QED BY <2>1, <2>2, OInit DEF CInv, Alone
<1>2. CInv => CodeSpentOnce
  <2> SUFFICES ASSUME CInv, NEW c \in again PROVE c \in crossed
    BY DEF CodeSpentOnce
  <2>1. c \in Codes
    BY DEF CInv, OInv, TypeOK
  <2> QED BY <2>1 DEF CInv, Alone
<1> QED BY <1>1, <1>2, CStep, PTL DEF Spec

----------------------------------------------------------------------------
(* Reset links. *)

LInv == TypeOK /\ \A l \in Links : redeemed[l] <= 1 /\ (link[l] # "used" => redeemed[l] = 0)

LEMMA LinkMoves ==
  ASSUME TypeOK, [Next]_vars
  PROVE  \/ UNCHANGED <<link, redeemed>>
         \/ UNCHANGED redeemed /\ \A l \in Links : link'[l] = "used" <=> link[l] = "used"
         \/ \E r \in Requests : Redeem(r)
<1> USE DEF TypeOK
<1>1. ASSUME NEW r \in Requests, Steps(r) PROVE UNCHANGED <<link, redeemed>> \/ Redeem(r)
  BY <1>1 DEF Steps, SignIn, Ask, Open, StartSession, Answer, Judge, ReadCodes, Consume, Drop, Fail,
     Exhaust, Visit, Touch, SignOut, ChangePassword, Begin, Confirm, Enable, Regenerate, Replace,
     Disable, EndOthers, FindLink, Crash, rows, history
<1>2. CASE Tick \/ PruneSessions \/ PruneChallenges \/ UNCHANGED vars
  BY <1>2 DEF Tick, PruneSessions, PruneChallenges, vars, rows, history
<1>3. CASE Expire
  BY <1>3 DEF Expire, history
<1>4. ASSUME NEW l \in Links, RequestLink(l)
      PROVE  UNCHANGED redeemed /\ \A k \in Links : link'[k] = "used" <=> link[k] = "used"
  BY <1>4 DEF RequestLink, history
<1> QED BY <1>1, <1>2, <1>3, <1>4, NextIs DEF Others

LEMMA LStep == LInv /\ [Next]_vars => LInv'
<1> SUFFICES ASSUME LInv, [Next]_vars PROVE LInv'
  OBVIOUS
<1>1. TypeOK /\ TypeOK'
  BY TNext DEF LInv
<1>2. ASSUME NEW r \in Requests, Redeem(r), NEW l \in Links
      PROVE  redeemed'[l] <= 1 /\ (link'[l] # "used" => redeemed'[l] = 0)
  BY <1>1, <1>2 DEF Redeem, LInv, TypeOK
<1> QED BY <1>1, <1>2, LinkMoves DEF LInv

(* A reset link sets at most one password. *)
THEOREM LinksWorkOnce == Spec => []LinkWorksOnce
<1>1. Init => LInv
  <2> SUFFICES ASSUME Init PROVE LInv
    OBVIOUS
  <2>1. \A l \in Links : redeemed[l] = 0
    BY DEF Init
  <2> QED BY <2>1, TInit DEF LInv
<1>2. LInv => LinkWorksOnce
  BY DEF LInv, LinkWorksOnce
<1> QED BY <1>1, <1>2, LStep, PTL DEF Spec

----------------------------------------------------------------------------
(* Challenges. *)

Answering == {"state", "codes", "consume", "drop"}

\* A challenge that was passed is gone, and nobody is answering it any more.
OnceOnly(c) ==
    /\ passed[c] <= 1
    /\ passed[c] = 1 => challenge.id # c /\ \A r \in Requests : req[r].ch = c => req[r].pc \notin Answering
    /\ \A q, r \in Requests : req[q].ch = c /\ req[r].ch = c => q = r

PInv ==
    /\ TypeOK
    /\ challenge.id <= opened /\ \A r \in Requests : req[r].ch <= opened
    /\ \A c \in Challenges : c > opened => passed[c] = 0
    /\ \A c \in Challenges \ shared : OnceOnly(c)

\* What the other steps do to challenges and to those who answer them.
Plain(q) ==
    /\ req'[q].ch \in {req[q].ch, 0}
    /\ req'[q].ch # 0 /\ req'[q].pc \in Answering => req[q].pc \in Answering

LEMMA PlainSteps ==
  ASSUME TypeOK, [Next]_vars,
         \A r \in Requests : /\ ~Open(r) /\ ~Drop(r)
                             /\ \A kind \in Kinds, code \in Given \cup {None} : ~Answer(r, kind, code)
  PROVE  /\ UNCHANGED <<opened, passed, shared>>
         /\ challenge'.id \in {challenge.id, 0}
         /\ \A q \in Requests : Plain(q)
<1> USE DEF TypeOK
<1>1. ASSUME NEW r \in Requests, Steps(r), NEW q \in Requests PROVE Plain(q)
  <2>1. ASSUME NEW pc, Goes(r, pc), pc \in Answering => req[r].pc \in Answering PROVE Plain(q)
    BY <2>1 DEF Goes, Request, Plain
  <2>2. ASSUME Ends(r) PROVE Plain(q)
    BY <2>2 DEF Ends, Idle, Plain
  <2>3. ASSUME Changes(r) PROVE Plain(q)
    BY <2>3 DEF Changes, Request, Plain, Answering
  <2>4. ASSUME NEW s \in Sessions, NEW to \in Pages, Visit(r, s, to) PROVE Plain(q)
    BY <2>4 DEF Visit, Idle, Plain
  <2>5. ASSUME NEW l \in Links, FindLink(r, l) PROVE Plain(q)
    BY <2>5 DEF FindLink, Idle, Plain
  <2>6. CASE ReadCodes(r)
    <3>1. CASE req' = [req EXCEPT ![r] = [req[r] EXCEPT !.pc = "consume", !.read = totp.codes]]
      BY <2>6, <3>1 DEF ReadCodes, Request, Plain, Answering
    <3>2. CASE Goes(r, "fail")
      BY <2>1, <3>2 DEF Answering
    <3> QED BY <2>6, <3>1, <3>2 DEF ReadCodes
  <2>7. CASE Judge(r) \/ Consume(r)
    <3>1. req[r].pc \in Answering
      BY <2>7 DEF Judge, Consume, Answering
    <3> QED BY <2>7, <3>1, <2>1 DEF Judge, Consume
  <2>8. CASE SignIn(r) \/ Ask(r) \/ Fail(r) \/ Confirm(r) \/ Regenerate(r)
    <3>1. /\ "ask" \notin Answering /\ "open" \notin Answering /\ "session" \notin Answering
          /\ "exhaust" \notin Answering /\ "enable" \notin Answering /\ "replace" \notin Answering
      BY DEF Answering
    <3> QED BY <2>8, <3>1, <2>1, <2>2 DEF SignIn, Ask, Fail, Confirm, Regenerate
  <2>9. CASE Touch(r)
    <3>1. req[r].to \notin Answering
      BY DEF Request, Pages, Answering
    <3> QED BY <2>9, <3>1, <2>1, <2>2 DEF Touch
  <2>10. CASE ChangePassword(r) \/ Enable(r) \/ Disable(r)
    BY <2>10, <2>3 DEF ChangePassword, Enable, Disable
  <2>11. CASE \/ StartSession(r) \/ Exhaust(r) \/ SignOut(r) \/ Begin(r) \/ Replace(r) \/ EndOthers(r)
              \/ Redeem(r) \/ Crash(r)
    BY <2>11, <2>2 DEF StartSession, Exhaust, SignOut, Begin, Replace, EndOthers, Redeem, Crash
  <2> QED BY <1>1, <2>4, <2>5, <2>6, <2>7, <2>8, <2>9, <2>10, <2>11 DEF Steps
<1>2. ASSUME NEW r \in Requests, Steps(r)
      PROVE  UNCHANGED <<opened, passed, shared>> /\ challenge'.id \in {challenge.id, 0}
  <2>1. NoChallenge.id = 0 /\ [challenge EXCEPT !.attempts = @ + 1].id = challenge.id
    BY DEF NoChallenge, Challenge
  <2>2. CASE Fail(r) \/ Exhaust(r)
    BY <2>1, <2>2 DEF Fail, Exhaust, history
  <2>3. UNCHANGED <<opened, passed, shared, challenge>> \/ Fail(r) \/ Exhaust(r)
    BY <1>2 DEF Steps, SignIn, Ask, StartSession, Judge, ReadCodes, Consume,
       Visit, Touch, SignOut, ChangePassword, Begin, Confirm, Enable, Regenerate, Replace,
       Disable, EndOthers, FindLink, Redeem, Crash, rows, history
  <2> QED BY <2>2, <2>3
<1>3. CASE Others \/ UNCHANGED vars
  <2>1. NoChallenge.id = 0 /\ [challenge EXCEPT !.live = FALSE].id = challenge.id
    BY DEF NoChallenge, Challenge
  <2>2. UNCHANGED <<opened, passed, shared, req>> /\ challenge'.id \in {challenge.id, 0}
    BY <1>3, <2>1 DEF Others, RequestLink, Tick, Expire, PruneSessions, PruneChallenges, vars, rows, history
  <2> QED BY <2>2 DEF Plain
<1> QED BY <1>1, <1>2, <1>3, NextIs

LEMMA PStep == PInv /\ [Next]_vars => PInv'
<1> SUFFICES ASSUME PInv, [Next]_vars PROVE PInv'
  OBVIOUS
<1>1. TypeOK /\ TypeOK'
  BY TNext DEF PInv
<1>2. /\ opened \in Nat /\ challenge.id \in Nat /\ passed \in [Challenges -> Nat]
      /\ \A r \in Requests : req[r].ch \in Nat
      /\ Challenges \subseteq Nat \ {0}
  BY <1>1 DEF TypeOK, Request, Challenge, Challenges
<1>3. ASSUME NEW r \in Requests, Open(r) PROVE PInv'
  <2>1. challenge'.id = opened + 1 /\ opened' = opened + 1 /\ UNCHANGED <<passed, shared>>
    BY <1>3 DEF Open, NewChallenge
  <2>2. req'[r].ch = 0 /\ req'[r].pc = "idle" /\ \A q \in Requests \ {r} : req'[q] = req[q]
    BY <1>1, <1>3 DEF Open, Ends, Idle, TypeOK
  <2>3. \A q \in Requests : req'[q].ch <= opened'
    BY <1>2, <2>1, <2>2 DEF PInv
  <2>4. ASSUME NEW c \in Challenges \ shared' PROVE OnceOnly(c)'
    <3>1. OnceOnly(c) /\ (c > opened => passed[c] = 0) /\ c # 0
      BY <2>1, <1>2 DEF PInv
    <3> QED BY <3>1, <1>2, <2>1, <2>2 DEF OnceOnly
  <2>5. \A c \in Challenges : c > opened' => passed'[c] = 0
    <3>1. \A c \in Challenges : c \in Nat /\ (c > opened + 1 => c > opened)
      BY <1>2
    <3>2. \A c \in Challenges : c > opened => passed[c] = 0
      BY DEF PInv
    <3> QED BY <3>1, <3>2, <2>1
  <2>6. challenge'.id <= opened'
    BY <1>2, <2>1
  <2> QED BY <1>1, <2>3, <2>4, <2>5, <2>6 DEF PInv
<1>4. ASSUME NEW r \in Requests, Drop(r) PROVE PInv'
  <2>1. challenge'.id # req[r].ch \/ req[r].ch = 0
    BY <1>4 DEF Drop, NoChallenge
  <2>2. challenge'.id \in {challenge.id, 0}
    BY <1>4 DEF Drop, NoChallenge
  <2>3. /\ req'[r].ch = req[r].ch /\ req'[r].pc = "session" /\ req[r].pc = "drop"
        /\ \A q \in Requests \ {r} : req'[q] = req[q]
    BY <1>1, <1>4 DEF Drop, Goes, TypeOK, Request
  <2>4. \A c \in Challenges : passed'[c] = IF c = req[r].ch THEN passed[c] + 1 ELSE passed[c]
    BY <1>2, <1>4 DEF Drop
  <2>5. UNCHANGED <<opened, shared>>
    BY <1>4 DEF Drop
  <2>6. ASSUME NEW c \in Challenges \ shared' PROVE OnceOnly(c)'
    <3>1. OnceOnly(c) /\ c # 0 /\ passed[c] \in Nat
      BY <2>5, <1>2 DEF PInv
    <3>2. CASE c = req[r].ch
      <4>1. passed[c] = 0
        BY <3>1, <3>2, <2>3 DEF OnceOnly, Answering
      <4>2. challenge'.id # c
        BY <2>1, <3>1, <3>2
      <4>3. \A q \in Requests : req'[q].ch = c => q = r
        BY <2>3, <3>1, <3>2 DEF OnceOnly
      <4>4. req'[r].pc \notin Answering
        BY <2>3 DEF Answering
      <4> QED BY <4>1, <4>2, <4>3, <4>4, <2>4, <3>2 DEF OnceOnly
    <3>3. CASE c # req[r].ch
      BY <3>1, <3>3, <2>2, <2>3, <2>4 DEF OnceOnly
    <3> QED BY <3>2, <3>3
  <2>7. ASSUME NEW c \in Challenges, c > opened' PROVE passed'[c] = 0
    <3>1. passed[c] = 0 /\ opened' = opened
      BY <2>5, <2>7 DEF PInv
    <3>2. req[r].ch <= opened
      BY DEF PInv
    <3>3. c # req[r].ch
      BY <3>1, <3>2, <2>7, <1>2
    <3> QED BY <3>1, <3>3, <2>4
  <2>8. \A q \in Requests : req'[q].ch <= opened'
    BY <2>3, <2>5 DEF PInv
  <2>9. challenge'.id <= opened'
    BY <2>2, <2>5, <1>2 DEF PInv
  <2> QED BY <1>1, <2>6, <2>7, <2>8, <2>9 DEF PInv
<1>5. ASSUME NEW r \in Requests, NEW kind \in Kinds, NEW code \in Given \cup {None}, Answer(r, kind, code)
      PROVE  PInv'
  <2>1. UNCHANGED <<opened, challenge, passed>>
    BY <1>5 DEF Answer, rows
  <2>2. req'[r].ch = challenge.id /\ \A q \in Requests \ {r} : req'[q] = req[q]
    BY <1>1, <1>5 DEF Answer, Idle, TypeOK
  <2>3. /\ shared \subseteq shared'
        /\ (\E q \in Requests : req[q].ch = challenge.id) => challenge.id \in shared'
    BY <1>5 DEF Answer
  <2>4. ASSUME NEW c \in Challenges \ shared' PROVE OnceOnly(c)'
    <3>1. OnceOnly(c)
      BY <2>3 DEF PInv
    <3>2. c = challenge.id => \A q \in Requests : req[q].ch # c
      BY <2>3
    <3> QED BY <3>1, <3>2, <2>1, <2>2, <1>2 DEF OnceOnly
  <2> QED BY <1>1, <2>1, <2>2, <2>4 DEF PInv
<1>6. CASE \A r \in Requests : /\ ~Open(r) /\ ~Drop(r)
                               /\ \A kind \in Kinds, code \in Given \cup {None} : ~Answer(r, kind, code)
  <2>1. /\ UNCHANGED <<opened, passed, shared>> /\ challenge'.id \in {challenge.id, 0}
        /\ \A q \in Requests : Plain(q)
    BY <1>1, <1>6, PlainSteps
  <2>2. ASSUME NEW c \in Challenges \ shared' PROVE OnceOnly(c)'
    <3>1. OnceOnly(c) /\ c # 0
      BY <2>1, <1>2 DEF PInv
    <3> QED BY <3>1, <2>1 DEF OnceOnly, Plain
  <2>3. challenge'.id <= opened' /\ \A r \in Requests : req'[r].ch <= opened'
    BY <2>1, <1>2 DEF PInv, Plain
  <2> QED BY <1>1, <2>1, <2>2, <2>3 DEF PInv
<1> QED BY <1>3, <1>4, <1>5, <1>6

(* Answers given one after the other pass a challenge at most once.        *)
THEOREM PassedOnce == Spec => []ChallengePassedOnce
<1>1. Init => PInv
  <2> SUFFICES ASSUME Init PROVE PInv
    OBVIOUS
  <2>1. \A r \in Requests : req[r].ch = 0
    BY DEF Init, Idle
  <2>2. opened = challenge.id /\ opened \in Nat /\ \A c \in Challenges : passed[c] = 0 /\ c # 0
    BY TInit DEF Init, TypeOK, Challenges
  <2>3. \A c \in Challenges : OnceOnly(c)
    BY <2>1, <2>2 DEF OnceOnly
  <2> QED BY <2>1, <2>2, <2>3, TInit DEF PInv
<1>2. PInv => ChallengePassedOnce
  BY DEF PInv, OnceOnly, ChallengePassedOnce
<1> QED BY <1>1, <1>2, PStep, PTL DEF Spec
=============================================================================

------------------------------- MODULE SignIn -------------------------------
(***************************************************************************)
(* Signing in and staying in, for one trader (app/(auth)/actions.ts,       *)
(* auth/session.ts, auth/two-factor.ts and the settings actions, over      *)
(* db/sessions.ts, db/two-factor.ts and db/reset-tokens.ts).  A request is *)
(* a server action; it may be suspended, or die, between any two of its    *)
(* statements, and others go on beside it.                                 *)
(*                                                                         *)
(* A request whose password or limiter refuses it leaves no trace here, so *)
(* passwords are always right.  Time is relative: a session knows how long *)
(* it has left and how old it is.                                          *)
(***************************************************************************)
EXTENDS Naturals

CONSTANTS Requests, Sessions,
          IdleTTL,      \* SESSION_IDLE_TTL_MS
          RefreshAfter, \* SESSION_REFRESH_AFTER_MS
          AbsoluteTTL,  \* SESSION_ABSOLUTE_TTL_MS
          MaxAttempts,  \* MAX_CHALLENGE_ATTEMPTS
          Slots,        \* the recovery codes of a set
          MaxCalls,     \* bound on the server actions, page views apart
          None

ASSUME LimitsAssumption ==
    /\ IdleTTL \in Nat /\ RefreshAfter \in 1..IdleTTL /\ AbsoluteTTL \in Nat \ {0}
    /\ MaxAttempts \in Nat \ {0} /\ MaxCalls \in Nat

VARIABLES session,   \* the rows of `sessions`
          totp,      \* the totp columns of the user
          challenge, \* the row of `two_factor_challenges`
          link,      \* the rows of `password_reset_tokens`
          req,       \* the requests
          calls,
          \* history
          opened,    \* challenges so far
          issued,    \* sets of recovery codes so far
          changed,   \* changes of the password or the second factor so far
          settled,   \* the last of them that ended the other sessions,
          keeper,    \* but this one
          spent,     \* recovery codes that have been accepted
          again,     \* those of them that have been accepted more than once
          crossed,   \* those that were being spent while a different one was
          passed,    \* how often each challenge was passed
          shared,    \* the challenges two requests were answering at once
          redeemed   \* how often each link set a password

rows    == <<session, totp, challenge, link>>
history == <<opened, issued, changed, settled, keeper, spent, again, crossed, passed,
             shared, redeemed>>
vars    == <<rows, req, calls, history>>

Challenges == 1..(MaxCalls + 1)
Links      == 1..(MaxCalls + 1)
Codes      == Nat \X Slots
Issue(n)   == {n} \X Slots

ASSUME NoneAssumption == None \notin Sessions \cup ((1..(MaxCalls + 1)) \X Slots)

\* left: until expiresAt.  age: since createdAt, up to AbsoluteTTL.  History: unused, how long
\* ago it was last used, up to IdleTTL; since, the change before which it was started.
Session == [open : BOOLEAN, left : 0..IdleTTL, age : 0..AbsoluteTTL, unused : 0..IdleTTL,
            since : Nat]

NoSession     == [open |-> FALSE, left |-> 0, age |-> 0, unused |-> 0, since |-> 0]
NewSession(n) == [open |-> TRUE, left |-> IdleTTL, age |-> 0, unused |-> 0, since |-> n]

Totp == [secret : BOOLEAN, confirmed : BOOLEAN, codes : SUBSET Codes]

TotpOff == [secret |-> FALSE, confirmed |-> FALSE, codes |-> {}]
TotpOn(n) == [secret |-> TRUE, confirmed |-> TRUE, codes |-> Issue(n)]

\* createTwoFactorChallenge deletes the rows before it, so there is one at most.
Challenge == [id : Nat, attempts : Nat, live : BOOLEAN]

NoChallenge == [id |-> 0, attempts |-> 0, live |-> FALSE]
NewChallenge(n) == [id |-> n, attempts |-> 0, live |-> TRUE]

\* What is typed at the code step: a code of the phone that verifies, a recovery code, or neither.
Kinds == {"totp", "code", "wrong"}

\* What a signed-in trader asks for.
Pages == {"page", "signout", "password", "begin", "confirm", "regenerate", "disable"}

PCs == Pages \cup {"idle", "ask", "open", "session", "state", "codes", "consume", "drop",
                   "fail", "exhaust", "touch", "enable", "replace", "others", "redeem"}

Request == [pc : PCs, own : Sessions \cup {None}, to : Pages, ch : Nat, kind : Kinds,
            code : Codes \cup {None}, read : SUBSET Codes, link : Links \cup {0}, change : Nat]

Idle == [pc |-> "idle", own |-> None, to |-> "page", ch |-> 0,
         kind |-> "wrong", code |-> None, read |-> {}, link |-> 0, change |-> 0]

Init ==
    /\ session \in [Sessions -> {NoSession, NewSession(0)}]
    /\ \/ totp = TotpOff /\ challenge = NoChallenge
       \/ totp = TotpOn(1) /\ challenge \in {NoChallenge, NewChallenge(1)}
    /\ \E first \in {"none", "live"} : link = [l \in Links |-> IF l = 1 THEN first ELSE "none"]
    /\ req = [r \in Requests |-> Idle]
    /\ calls = 0
    /\ opened = challenge.id /\ issued = 1 /\ changed = 0 /\ settled = 0 /\ keeper = None
    /\ spent = {} /\ again = {} /\ crossed = {}
    /\ passed = [c \in Challenges |-> 0] /\ shared = {}
    /\ redeemed = [l \in Links |-> 0]

Call == calls < MaxCalls /\ calls' = calls + 1

Goes(r, pc) == req' = [req EXCEPT ![r].pc = pc]
Ends(r)     == req' = [req EXCEPT ![r] = Idle]

----------------------------------------------------------------------------
(* Signing in. *)

\* signInAction: the password has verified.
SignIn(r) ==
    /\ req[r].pc = "idle" /\ Call
    /\ Goes(r, "ask")
    /\ UNCHANGED <<rows, history>>

\* twoFactorIsOn
IsOn(t) == t.secret /\ t.confirmed

Ask(r) ==
    /\ req[r].pc = "ask"
    /\ Goes(r, IF IsOn(totp) THEN "open" ELSE "session")
    /\ UNCHANGED <<rows, calls, history>>

\* createTwoFactorChallenge, a transaction
Open(r) ==
    /\ req[r].pc = "open"
    /\ opened' = opened + 1
    /\ challenge' = NewChallenge(opened + 1)
    /\ Ends(r)
    /\ UNCHANGED <<session, totp, link, calls, issued, changed, settled, keeper, spent, again,
                   crossed, passed, shared, redeemed>>

\* completeSignIn
StartSession(r) ==
    /\ req[r].pc = "session"
    /\ \E s \in Sessions :
          /\ ~session[s].open /\ \A q \in Requests : req[q].own # s
          /\ session' = [session EXCEPT ![s] = NewSession(changed)]
    /\ Ends(r)
    /\ UNCHANGED <<totp, challenge, link, calls, opened, issued, changed, settled, keeper,
                   spent, again, crossed, passed, shared, redeemed>>

----------------------------------------------------------------------------
(* The second factor: verifyTwoFactorAction and answerChallenge. *)

\* The recovery codes the trader has been shown.
Given == (1..issued) \X Slots

\* pendingChallenge
Answer(r, kind, code) ==
    /\ req[r].pc = "idle" /\ Call
    /\ challenge.live
    /\ kind = "code" <=> code # None
    /\ req' = [req EXCEPT ![r] = [Idle EXCEPT !.pc = "state", !.ch = challenge.id,
                                              !.kind = kind, !.code = code]]
    /\ shared' = IF \E q \in Requests : req[q].ch = challenge.id
                 THEN shared \cup {challenge.id} ELSE shared
    /\ UNCHANGED <<rows, opened, issued, changed, settled, keeper, spent, again, crossed, passed,
                   redeemed>>

\* getTwoFactorState, and the verdict on it
Judge(r) ==
    /\ req[r].pc = "state"
    /\ Goes(r, IF ~IsOn(totp) THEN "drop"
               ELSE IF req[r].kind = "code" THEN "codes"
               ELSE IF req[r].kind = "totp" THEN "drop" ELSE "fail")
    /\ UNCHANGED <<rows, calls, history>>

\* The requests between the read and the write of a different code.
Rivals(r) == {q \in Requests : req[q].pc = "consume" /\ req[q].code # req[r].code}

\* The read of consumeRecoveryCodeHash.
ReadCodes(r) ==
    /\ req[r].pc = "codes"
    /\ IF req[r].code \in totp.codes
       THEN /\ req' = [req EXCEPT ![r] = [req[r] EXCEPT !.pc = "consume", !.read = totp.codes]]
            /\ crossed' = crossed \cup UNION {{req[q].code, req[r].code} : q \in Rivals(r)}
       ELSE Goes(r, "fail") /\ UNCHANGED crossed
    /\ UNCHANGED <<rows, calls, opened, issued, changed, settled, keeper, spent, again, passed,
                   shared, redeemed>>

Accepts(r) ==
    /\ spent' = spent \cup {req[r].code}
    /\ again' = IF req[r].code \in spent THEN again \cup {req[r].code} ELSE again

\* Mutant: the write does not ask whether the code is still there.
Consume_Unconditionally(r) ==
    /\ req[r].pc = "consume"
    /\ totp' = [totp EXCEPT !.codes = req[r].read \ {req[r].code}]
    /\ Accepts(r)
    /\ Goes(r, "drop")
    /\ UNCHANGED <<session, challenge, link, calls, opened, issued, changed, settled, keeper,
                   crossed, passed, shared, redeemed>>

\* Its write: the code must still be among those stored.
Consume(r) ==
    /\ req[r].pc = "consume"
    /\ IF req[r].code \in totp.codes
       THEN /\ totp' = [totp EXCEPT !.codes = req[r].read \ {req[r].code}]
            /\ Accepts(r)
            /\ Goes(r, "drop")
       ELSE Goes(r, "fail") /\ UNCHANGED <<totp, spent, again>>
    /\ UNCHANGED <<session, challenge, link, calls, opened, issued, changed, settled, keeper,
                   crossed, passed, shared, redeemed>>

\* Mutant: the challenge that was passed stays.
Drop_LeavesTheRow(r) ==
    /\ req[r].pc = "drop"
    /\ passed' = [passed EXCEPT ![req[r].ch] = @ + 1]
    /\ Goes(r, "session")
    /\ UNCHANGED <<rows, calls, opened, issued, changed, settled, keeper, spent, again, crossed,
                   shared, redeemed>>

\* deleteTwoFactorChallenge, after which the answer has passed
Drop(r) ==
    /\ req[r].pc = "drop"
    /\ challenge' = IF challenge.id = req[r].ch THEN NoChallenge ELSE challenge
    /\ passed' = [passed EXCEPT ![req[r].ch] = @ + 1]
    /\ Goes(r, "session")
    /\ UNCHANGED <<session, totp, link, calls, opened, issued, changed, settled, keeper, spent,
                   again, crossed, shared, redeemed>>

\* failTwoFactorChallenge; the update throws when the row is gone
Fail(r) ==
    /\ req[r].pc = "fail"
    /\ IF challenge.id = req[r].ch
       THEN /\ challenge' = [challenge EXCEPT !.attempts = @ + 1]
            /\ IF challenge.attempts + 1 >= MaxAttempts THEN Goes(r, "exhaust") ELSE Ends(r)
       ELSE Ends(r) /\ UNCHANGED challenge
    /\ UNCHANGED <<session, totp, link, calls, history>>

Exhaust(r) ==
    /\ req[r].pc = "exhaust"
    /\ challenge' = IF challenge.id = req[r].ch THEN NoChallenge ELSE challenge
    /\ Ends(r)
    /\ UNCHANGED <<session, totp, link, calls, history>>

----------------------------------------------------------------------------
(* Being signed in. *)

\* findSession
Live(s) == s.open /\ s.left > 0 /\ s.age < AbsoluteTTL

\* Mutant: the expiry is rewritten near its end only.
NeedsTouch_TooLate(s) == s.left < RefreshAfter

NeedsTouch(s) == s.left < IdleTTL - RefreshAfter

\* getSession, at the head of every page and of every action of a signed-in trader
Visit(r, s, to) ==
    /\ req[r].pc = "idle" /\ Live(session[s])
    /\ IF to = "page" THEN UNCHANGED calls ELSE Call
    /\ req' = IF ~NeedsTouch(session[s]) /\ to = "page" THEN req
              ELSE [req EXCEPT ![r] = [Idle EXCEPT !.own = s, !.to = to,
                      !.pc = IF NeedsTouch(session[s]) THEN "touch" ELSE to]]
    /\ session' = IF NeedsTouch(session[s]) THEN session ELSE [session EXCEPT ![s].unused = 0]
    /\ UNCHANGED <<totp, challenge, link, opened, issued, changed, settled, keeper, spent, again,
                   crossed, passed, shared, redeemed>>

Touched(s) == [open |-> s.open, left |-> IdleTTL, age |-> s.age, unused |-> 0, since |-> s.since]

\* touchSession; the update throws when the row is gone
Touch(r) ==
    LET s == req[r].own
    IN /\ req[r].pc = "touch"
       /\ IF session[s].open
          THEN /\ session' = [session EXCEPT ![s] = Touched(session[s])]
               /\ IF req[r].to = "page" THEN Ends(r) ELSE Goes(r, req[r].to)
          ELSE Ends(r) /\ UNCHANGED session
       /\ UNCHANGED <<totp, challenge, link, calls, opened, issued, changed, settled, keeper,
                      spent, again, crossed, passed, shared, redeemed>>

Closed(S) == [s \in Sessions |-> IF s \in S THEN NoSession ELSE session[s]]

\* endSession
SignOut(r) ==
    /\ req[r].pc = "signout"
    /\ session' = Closed({req[r].own})
    /\ Ends(r)
    /\ UNCHANGED <<totp, challenge, link, calls, history>>

\* The password, or the factor, is replaced; the other sessions are still there.
Changes(r) ==
    /\ changed' = changed + 1
    /\ req' = [req EXCEPT ![r] = [req[r] EXCEPT !.pc = "others", !.change = changed + 1]]

\* setOwnPasswordHash
ChangePassword(r) ==
    /\ req[r].pc = "password"
    /\ Changes(r)
    /\ UNCHANGED <<rows, calls, opened, issued, settled, keeper, spent, again, crossed, passed,
                   shared, redeemed>>

\* beginTwoFactorSetup
Begin(r) ==
    /\ req[r].pc = "begin"
    /\ totp' = [TotpOff EXCEPT !.secret = TRUE]
    /\ Ends(r)
    /\ UNCHANGED <<session, challenge, link, calls, history>>

\* confirmTwoFactorAction, with a code of the phone that verifies
Confirm(r) ==
    /\ req[r].pc = "confirm"
    /\ IF totp.secret /\ ~totp.confirmed THEN Goes(r, "enable") ELSE Ends(r)
    /\ UNCHANGED <<rows, calls, history>>

\* confirmTwoFactor
Enable(r) ==
    /\ req[r].pc = "enable"
    /\ issued' = issued + 1
    /\ totp' = [totp EXCEPT !.confirmed = TRUE, !.codes = Issue(issued + 1)]
    /\ Changes(r)
    /\ UNCHANGED <<session, challenge, link, calls, opened, settled, keeper, spent, again, crossed,
                   passed, shared, redeemed>>

Regenerate(r) ==
    /\ req[r].pc = "regenerate"
    /\ IF totp.confirmed THEN Goes(r, "replace") ELSE Ends(r)
    /\ UNCHANGED <<rows, calls, history>>

\* replaceRecoveryCodes
Replace(r) ==
    /\ req[r].pc = "replace"
    /\ issued' = issued + 1
    /\ totp' = [totp EXCEPT !.codes = Issue(issued + 1)]
    /\ Ends(r)
    /\ UNCHANGED <<session, challenge, link, calls, opened, changed, settled, keeper, spent, again,
                   crossed, passed, shared, redeemed>>

\* disableTwoFactor
Disable(r) ==
    /\ req[r].pc = "disable"
    /\ totp' = TotpOff
    /\ Changes(r)
    /\ UNCHANGED <<session, challenge, link, calls, opened, issued, settled, keeper, spent, again,
                   crossed, passed, shared, redeemed>>

\* The change a request has made is the last that ended the other sessions.
Settles(change, s) ==
    IF change > settled THEN settled' = change /\ keeper' = s ELSE UNCHANGED <<settled, keeper>>

\* Mutant: no session is ended.
EndOthers_OfNone(r) ==
    /\ req[r].pc = "others"
    /\ Settles(req[r].change, req[r].own)
    /\ Ends(r)
    /\ UNCHANGED <<rows, calls, opened, issued, changed, spent, again, crossed, passed, shared,
                   redeemed>>

\* deleteOtherUserSessions
EndOthers(r) ==
    /\ req[r].pc = "others"
    /\ session' = Closed(Sessions \ {req[r].own})
    /\ Settles(req[r].change, req[r].own)
    /\ Ends(r)
    /\ UNCHANGED <<totp, challenge, link, calls, opened, issued, changed, spent, again, crossed,
                   passed, shared, redeemed>>

----------------------------------------------------------------------------
(* The way back in: a reset link. *)

\* createResetToken, a transaction: only one live link
RequestLink(l) ==
    /\ Call
    /\ link[l] = "none" /\ \A k \in Links : k < l => link[k] # "none"
    /\ link' = [k \in Links |-> IF k = l THEN "live" ELSE IF link[k] \in {"live", "expired"} THEN "gone" ELSE link[k]]
    /\ UNCHANGED <<session, totp, challenge, req, history>>

\* findValidResetToken
FindLink(r, l) ==
    /\ req[r].pc = "idle" /\ Call
    /\ link[l] = "live"
    /\ req' = [req EXCEPT ![r] = [Idle EXCEPT !.pc = "redeem", !.link = l]]
    /\ UNCHANGED <<rows, history>>

\* Mutant: the link is marked without asking whether it was used.
Redeem_Unclaimed(r) ==
    LET l == req[r].link
    IN /\ req[r].pc = "redeem"
       /\ link' = [link EXCEPT ![l] = "used"]
       /\ session' = Closed(Sessions)
       /\ changed' = changed + 1 /\ settled' = changed + 1 /\ keeper' = None
       /\ redeemed' = [redeemed EXCEPT ![l] = @ + 1]
       /\ Ends(r)
       /\ UNCHANGED <<totp, challenge, calls, opened, issued, spent, again, crossed, passed,
                      shared>>

\* redeemResetToken, a transaction
Redeem(r) ==
    LET l == req[r].link
    IN /\ req[r].pc = "redeem"
       /\ IF link[l] \in {"live", "expired"}
          THEN /\ link' = [link EXCEPT ![l] = "used"]
               /\ session' = Closed(Sessions)
               /\ changed' = changed + 1 /\ settled' = changed + 1 /\ keeper' = None
               /\ redeemed' = [redeemed EXCEPT ![l] = @ + 1]
          ELSE UNCHANGED <<link, session, changed, settled, keeper, redeemed>>
       /\ Ends(r)
       /\ UNCHANGED <<totp, challenge, calls, opened, issued, spent, again, crossed, passed,
                      shared>>

----------------------------------------------------------------------------
(* Time, the hourly sweep, and requests that die. *)

Aged(s) ==
    [open |-> s.open, left |-> IF s.left > 0 THEN s.left - 1 ELSE 0,
     age |-> IF s.age < AbsoluteTTL THEN s.age + 1 ELSE s.age,
     unused |-> IF s.unused < IdleTTL THEN s.unused + 1 ELSE s.unused, since |-> s.since]

Tick ==
    /\ \E s \in Sessions : session[s].open
    /\ session' = [s \in Sessions |-> IF session[s].open THEN Aged(session[s]) ELSE session[s]]
    /\ UNCHANGED <<totp, challenge, link, req, calls, opened, issued, changed, settled, keeper,
                   spent, again, crossed, passed, shared, redeemed>>

\* The five minutes of a challenge, or the half hour of a link, are over.
Expire ==
    /\ \/ challenge.live /\ challenge' = [challenge EXCEPT !.live = FALSE] /\ UNCHANGED link
       \/ \E l \in Links : link[l] = "live" /\ link' = [link EXCEPT ![l] = "expired"] /\ UNCHANGED challenge
    /\ UNCHANGED <<session, totp, req, calls, history>>

\* pruneExpiredSessions
PruneSessions ==
    /\ session' = Closed({s \in Sessions : ~Live(session[s])})
    /\ session' # session
    /\ UNCHANGED <<totp, challenge, link, req, calls, history>>

\* pruneExpiredTwoFactorChallenges
PruneChallenges ==
    /\ challenge.id # 0 /\ ~challenge.live
    /\ challenge' = NoChallenge
    /\ UNCHANGED <<session, totp, link, req, calls, history>>

Crash(r) ==
    /\ req[r].pc # "idle"
    /\ Ends(r)
    /\ UNCHANGED <<rows, calls, history>>

Next ==
    \/ \E r \in Requests :
          \/ SignIn(r) \/ Ask(r) \/ Open(r) \/ StartSession(r)
          \/ \E kind \in Kinds, code \in Given \cup {None} : Answer(r, kind, code)
          \/ Judge(r) \/ ReadCodes(r) \/ Consume(r) \/ Drop(r) \/ Fail(r) \/ Exhaust(r)
          \/ \E s \in Sessions, to \in Pages : Visit(r, s, to)
          \/ Touch(r) \/ SignOut(r) \/ ChangePassword(r) \/ Begin(r) \/ Confirm(r) \/ Enable(r)
          \/ Regenerate(r) \/ Replace(r) \/ Disable(r) \/ EndOthers(r)
          \/ \E l \in Links : FindLink(r, l)
          \/ Redeem(r) \/ Crash(r)
    \/ \E l \in Links : RequestLink(l)
    \/ Tick \/ Expire \/ PruneSessions \/ PruneChallenges

Spec == Init /\ [][Next]_vars

----------------------------------------------------------------------------

\* The sessions, the factor, the challenge, the link and the requests are of their types.
TypeOK ==
    /\ session \in [Sessions -> Session]
    /\ totp \in Totp
    /\ challenge \in Challenge
    /\ link \in [Links -> {"none", "live", "expired", "used", "gone"}]
    /\ req \in [Requests -> Request]
    /\ calls \in 0..MaxCalls
    /\ opened \in Nat /\ issued \in Nat /\ changed \in Nat /\ settled \in Nat
    /\ keeper \in Sessions \cup {None}
    /\ spent \subseteq Codes /\ again \subseteq Codes /\ crossed \subseteq Codes \cup {None}
    /\ passed \in [Challenges -> Nat] /\ shared \subseteq Nat
    /\ redeemed \in [Links -> Nat]

(***************************************************************************)
(* "It only ever ends a session nobody was using", though its expiry is    *)
(* rewritten on some uses only and the sweep runs beside: a session that   *)
(* has not been signed out nor reached its cap is good for at least the    *)
(* idle window less the refresh interval after its last use, and for no    *)
(* longer than the idle window.                                            *)
(***************************************************************************)
RollingWindow ==
    \A s \in Sessions : session[s].open /\ session[s].age < AbsoluteTTL =>
        /\ session[s].unused < IdleTTL - RefreshAfter => Live(session[s])
        /\ Live(session[s]) => session[s].unused < IdleTTL

(***************************************************************************)
(* "Two requests submitting the same code at once would both read it as    *)
(* present", and the database decides which has it: however many requests  *)
(* present a code, together or later, one is told that it was good.  Two   *)
(* different codes being spent at the same time are another matter: the    *)
(* later write stores the list it read, and the other code is good again.  *)
(* So a code is accepted twice only if it was spent beside a different one.*)
(***************************************************************************)
CodeSpentOnce == again \subseteq crossed

(***************************************************************************)
(* "The old set stops working the moment this returns": no request that    *)
(* was spending a code of an older set can bring one of its codes back.    *)
(***************************************************************************)
OnlyTheLastIssue == totp.codes \subseteq Issue(issued)

(***************************************************************************)
(* "Two uses of one challenge is one sign-in too many": answers given one  *)
(* after the other pass a challenge at most once, whichever of them dies   *)
(* on the way.                                                             *)
(***************************************************************************)
ChallengePassedOnce == \A c \in Challenges \ shared : passed[c] <= 1

(***************************************************************************)
(* "Marking the token first makes the claim atomic": a link sets at most   *)
(* one password, however many posts of it are under way.                   *)
(***************************************************************************)
LinkWorksOnce == \A l \in Links : redeemed[l] <= 1

(***************************************************************************)
(* Changing the password or the factor, or redeeming a link, ends every    *)
(* session started before it but the one that asked, whatever signs in,    *)
(* expires or changes something else between the change and the ending.    *)
(***************************************************************************)
OldSessionsEnd ==
    \A s \in Sessions : session[s].open /\ session[s].since < settled => s = keeper
=============================================================================

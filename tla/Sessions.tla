------------------------------ MODULE Sessions ------------------------------
(***************************************************************************)
(* The sessions of one user in one browser: the refresh tokens of          *)
(* AuthService (apps/api/src/modules/auth), the cookie that carries them   *)
(* (AuthController) and the tabs that use them (apps/web/lib/api-client.ts *)
(* and auth-store.ts).                                                     *)
(*                                                                         *)
(* The tabs share the cookie; each tab has a refreshPromise of its own,    *)
(* which keeps its refreshes one at a time.  A refresh reads the token's   *)
(* record, revokes it and inserts the next one, in three statements; a     *)
(* token that is found revoked is taken for stolen, and all sessions of    *)
(* the user are revoked.                                                   *)
(***************************************************************************)
EXTENDS Integers, Sequences, FiniteSets

CONSTANTS
  Tabs,
  TabCalls,      \* requests of the tabs to /auth, as <<tab, number>>
  MaxCalls,      \* bound: requests under way at one time
  MaxTokens      \* bound: tokens that are issued

ASSUME SessionAssumption ==
  /\ TabCalls \subseteq Tabs \X Nat
  /\ IsFiniteSet(TabCalls)
  /\ MaxCalls \in Nat /\ MaxTokens \in Nat

VARIABLES
  tokens,     \* the refresh tokens in the order they were issued: "live", or
              \* revoked, and (history) "replaced" by a refresh or "ended"
  cookie,     \* krz_rt: a token, or 0
  errand,       \* each request: what it is for, where it is, which token it has
  usedBy,     \* history: the tabs that have sent each token to be refreshed
  unheard     \* history: a request died, or its answer did

sessionVars == <<tokens, cookie, errand, usedBy, unheard>>

Call(purpose, stage, token) == [purpose |-> purpose, stage |-> stage, token |-> token]

NoSend == Call("none", "idle", 0)

SessionInit ==
  /\ tokens = <<>> /\ cookie = 0
  /\ errand = [r \in TabCalls |-> NoSend]
  /\ usedBy = <<>> /\ unheard = FALSE

-----------------------------------------------------------------------------
\* The tab.

Send(r, purpose, token) ==
  /\ errand[r] = NoSend
  /\ Cardinality({q \in TabCalls : errand[q] # NoSend}) < MaxCalls
  /\ errand' = [errand EXCEPT ![r] = Call(purpose, "sent", token)]
  /\ UNCHANGED <<tokens, cookie, unheard>>

\* Mutant of NoRefreshOf: a tab starts a refresh for each request that got a 401.
NoWaitOf(tab) == TRUE

\* refreshPromise
NoRefreshOf(tab) ==
  \A r \in TabCalls : r[1] = tab => errand[r].purpose # "refresh"

\* refreshAccessToken, after a 401 or when the page is loaded
SendRefresh(r) ==
  /\ NoRefreshOf(r[1])
  /\ cookie # 0
  /\ Send(r, "refresh", cookie)
  /\ usedBy' = [usedBy EXCEPT ![cookie] = @ \cup {r[1]}]

\* login, register, verifyOtp, googleLogin; changePassword; resetPassword
SendCredentials(r) == Send(r, "credentials", 0) /\ UNCHANGED usedBy

SendLogout(r) == Send(r, "logout", cookie) /\ UNCHANGED usedBy

-----------------------------------------------------------------------------
\* The server.

\* A step of request r on the server, which leaves the browser alone.
Moves(r, purpose, from, to) ==
  /\ errand[r].purpose = purpose /\ errand[r].stage = from
  /\ errand' = [errand EXCEPT ![r].stage = to]
  /\ UNCHANGED <<cookie, usedBy, unheard>>

\* refresh: the token is verified and its record is read.
ReadSession(r) ==
  /\ Moves(r, "refresh", "sent", IF tokens[errand[r].token] = "live" THEN "valid" ELSE "stolen")
  /\ UNCHANGED tokens

\* The token has outlived its refreshTtl, or a password or a code is wrong.
RefuseToken(r) ==
  /\ errand[r].purpose # "logout"
  /\ Moves(r, errand[r].purpose, "sent", "refused")
  /\ UNCHANGED tokens

\* revokeAllSessions
EndAll ==
  tokens' = [k \in DOMAIN tokens |-> IF tokens[k] = "live" THEN "ended" ELSE tokens[k]]

Alarm(r) == Moves(r, "refresh", "stolen", "refused") /\ EndAll

\* Rotation: this token is done with, and then there is a new one.
RevokeOwn(r) ==
  /\ Moves(r, "refresh", "valid", "issuing")
  /\ tokens' = [tokens EXCEPT ![errand[r].token] = IF @ = "live" THEN "replaced" ELSE @]

\* A password has been checked, or a code.
Authenticate(r) == Moves(r, "credentials", "sent", "issuing") /\ UNCHANGED tokens

\* changePassword goes on to a new session; resetPassword does not.
ChangePassword(r) == Moves(r, "credentials", "sent", "issuing") /\ EndAll

ResetPassword(r) == Moves(r, "credentials", "sent", "refused") /\ EndAll

Logout(r) ==
  /\ Moves(r, "logout", "sent", "loggedOut")
  /\ tokens' = [k \in DOMAIN tokens |-> IF k = errand[r].token THEN "ended" ELSE tokens[k]]

\* issueTokens
IssueTokens(r) ==
  /\ errand[r].stage = "issuing"
  /\ Len(tokens) < MaxTokens
  /\ tokens' = Append(tokens, "live")
  /\ usedBy' = Append(usedBy, {})
  /\ errand' = [errand EXCEPT ![r].stage = "issued", ![r].token = Len(tokens')]
  /\ UNCHANGED <<cookie, unheard>>

-----------------------------------------------------------------------------
\* The answer.

\* Mutant of SetRefreshCookie: the answer to a refresh keeps the cookie.
KeepCookie(r) == IF errand[r].purpose = "refresh" THEN cookie ELSE errand[r].token

\* setRefreshCookie
SetRefreshCookie(r) == errand[r].token

HearAnswer(r) ==
  /\ errand[r].stage \in {"issued", "refused", "loggedOut"}
  /\ cookie' = CASE errand[r].stage = "issued"    -> SetRefreshCookie(r)
                 [] errand[r].stage = "loggedOut" -> 0
                 [] OTHER                       -> cookie
  /\ errand' = [errand EXCEPT ![r] = NoSend]
  /\ UNCHANGED <<tokens, usedBy, unheard>>

\* The connection breaks, the page is closed or the server dies.
LoseCall(r) ==
  /\ errand[r] # NoSend
  /\ errand' = [errand EXCEPT ![r] = NoSend]
  /\ unheard' = TRUE
  /\ UNCHANGED <<tokens, cookie, usedBy>>

SessionNext ==
  \E r \in TabCalls :
    \/ SendRefresh(r) \/ SendCredentials(r) \/ SendLogout(r)
    \/ ReadSession(r) \/ RefuseToken(r) \/ Alarm(r) \/ RevokeOwn(r) \/ Authenticate(r)
    \/ ChangePassword(r) \/ ResetPassword(r) \/ Logout(r) \/ IssueTokens(r)
    \/ HearAnswer(r) \/ LoseCall(r)

SessionSpec == SessionInit /\ [][SessionNext]_sessionVars

-----------------------------------------------------------------------------
Issued == 1 .. Len(tokens)

\* The types of the tokens and of the requests.
SessionTypeOK ==
  /\ tokens \in Seq({"live", "replaced", "ended"})
  /\ cookie \in 0 .. Len(tokens)
  /\ DOMAIN errand = TabCalls
  /\ \A r \in TabCalls : errand[r].token \in 0 .. Len(tokens)
  /\ Len(usedBy) = Len(tokens)
  /\ \A k \in Issued : usedBy[k] \subseteq Tabs
  /\ unheard \in BOOLEAN

\* A user whose tab refreshes and hears the answers is never taken for a thief:
\* a false alarm takes a lost answer, two tabs that refresh with one cookie, or
\* a session that was ended meanwhile.  (Two tabs are enough, see README.)
AlarmHasCause ==
  \A r \in TabCalls :
    errand[r].stage = "stolen" =>
      \/ unheard
      \/ tokens[errand[r].token] = "ended"
      \/ Cardinality(usedBy[errand[r].token]) > 1

\* The cookie is good for another refresh unless its session was ended or it is
\* being replaced: no answer that comes late leaves the browser with a token
\* that was used up.
StaysSignedIn ==
  cookie \in Issued /\ tokens[cookie] = "replaced" =>
    \/ unheard
    \/ \E r \in TabCalls :
         /\ errand[r].purpose = "refresh"
         /\ \/ errand[r].stage = "issuing" /\ errand[r].token = cookie
            \/ errand[r].stage = "issued" /\ tokens[errand[r].token] # "replaced"
=============================================================================

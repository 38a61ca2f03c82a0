----------------------------- MODULE RateLimits -----------------------------
(***************************************************************************)
(* The counters that limit the codes sent to one telephone or address and  *)
(* the failed logins of its owner: sendOtp and login in                    *)
(* apps/api/src/modules/auth/auth.service.ts, and incrWithTtl in           *)
(* apps/api/src/common/redis.service.ts.                                   *)
(*                                                                         *)
(* In Redis a counter is incremented by one command and given its time to  *)
(* live by another, when the first has returned 1; in the memory of the    *)
(* process both are one step.                                              *)
(***************************************************************************)
EXTENDS Integers

CONSTANTS
  Visitors,      \* requests to /auth that run at one time
  HourLimit,     \* codes an hour
  LoginLimit,    \* failed logins in LOGIN_WINDOW_SEC
  Window         \* times to live of the counters, in ticks

ASSUME LimitAssumption ==
  /\ HourLimit \in Nat \ {0} /\ LoginLimit \in Nat \ {0}
  /\ Window \in [{"minute", "hour", "login"} -> Nat \ {0}]

VARIABLES
  inRedis,   \* the counters are in Redis, else in memory
  counter,   \* count and ticks to live of each counter
  visit      \* where each request is, and its counter

limitVars == <<inRedis, counter, visit>>

Counters == {"minute", "hour", "login"}

\* A counter that has reached its limit refuses the next request.
Limit(k) == CASE k = "minute" -> 1 [] k = "hour" -> HourLimit [] k = "login" -> LoginLimit

Unset == [count |-> 0, ttl |-> 0]

Visit(at, key) == [at |-> at, key |-> key]

Away == Visit("away", "minute")

LimitInit ==
  /\ inRedis \in BOOLEAN
  /\ counter = [k \in Counters |-> Unset]
  /\ visit = [r \in Visitors |-> Away]

-----------------------------------------------------------------------------
\* Request r goes from one place to the next.
Goes(r, from, next) ==
  /\ visit[r].at = from
  /\ visit' = [visit EXCEPT ![r] = next]
  /\ UNCHANGED inRedis

\* After its counter a request is refused or goes on, to the hour or to the end.
AfterCount(key, allowed) ==
  IF allowed /\ key = "minute" THEN Visit("count", "hour") ELSE Away

\* Beyond its limit a counter's value makes no difference.
Incremented(k) ==
  IF counter[k].count > Limit(k) THEN counter[k].count ELSE counter[k].count + 1

\* Mutant of TtlAfter: every increment starts the window anew.
TtlRenewed(k, count) == Window[k]

\* expiresAt of a counter in memory
TtlAfter(k, count) == IF count = 1 THEN Window[k] ELSE counter[k].ttl

\* incrWithTtl
CountInMemory(r) ==
  LET k == visit[r].key
      n == Incremented(k)
  IN  /\ ~inRedis
      /\ Goes(r, "count", AfterCount(k, n <= Limit(k)))
      /\ counter' = [counter EXCEPT ![k] = [count |-> n, ttl |-> TtlAfter(k, n)]]

CountInRedis(r) ==
  LET k == visit[r].key
      n == Incremented(k)
  IN  /\ inRedis
      /\ Goes(r, "count", IF n = 1 THEN Visit("expire", k) ELSE AfterCount(k, n <= Limit(k)))
      /\ counter' = [counter EXCEPT ![k].count = n]

SetExpiry(r) ==
  LET k == visit[r].key
  IN  /\ Goes(r, "expire", AfterCount(k, TRUE))
      /\ counter' = [counter EXCEPT ![k].ttl = IF counter[k].count = 0 THEN 0 ELSE Window[k]]

StartSend(r) == Goes(r, "away", Visit("count", "minute")) /\ UNCHANGED counter

\* login: LOGIN_LOCKED, or on to the password.
StartLogin(r) ==
  /\ counter["login"].count < LoginLimit
  /\ Goes(r, "away", Visit("password", "login"))
  /\ UNCHANGED counter

ComparePassword(r) ==
  /\ \E next \in {"clear", "count"} : Goes(r, "password", Visit(next, "login"))
  /\ UNCHANGED counter

ClearFailures(r) ==
  /\ Goes(r, "clear", Away)
  /\ counter' = [counter EXCEPT !["login"] = Unset]

\* The process dies, or Redis does not answer.
VisitorDies(r) ==
  /\ visit[r].at # "away"
  /\ Goes(r, visit[r].at, Away)
  /\ UNCHANGED counter

LimitTick ==
  /\ \E k \in Counters : counter[k].ttl > 0
  /\ counter' = [k \in Counters |->
                   CASE counter[k].ttl = 0 -> counter[k]
                     [] counter[k].ttl = 1 -> Unset
                     [] OTHER              -> [counter[k] EXCEPT !.ttl = @ - 1]]
  /\ UNCHANGED <<inRedis, visit>>

LimitNext ==
  \/ \E r \in Visitors :
       \/ StartSend(r) \/ CountInMemory(r) \/ CountInRedis(r) \/ SetExpiry(r)
       \/ StartLogin(r) \/ ComparePassword(r) \/ ClearFailures(r)
       \/ VisitorDies(r)
  \/ LimitTick

LimitSpec == LimitInit /\ [][LimitNext]_limitVars

\* Time goes by, and a process that lives sends its EXPIRE.
LimitFairness ==
  /\ WF_limitVars(LimitTick)
  /\ \A r \in Visitors : WF_limitVars(SetExpiry(r))

-----------------------------------------------------------------------------
\* The types of the counters and of the requests' places.
LimitTypeOK ==
  /\ inRedis \in BOOLEAN
  /\ \A k \in Counters : /\ counter[k].count \in 0 .. Limit(k) + 1
                         /\ counter[k].ttl \in 0 .. Window[k]
  /\ visit \in [Visitors -> [at : {"away", "count", "expire", "password", "clear"},
                             key : Counters]]

Limited(k) == counter[k].count >= Limit(k)

\* A counter without a time to live, and nobody who will set it.
Abandoned(k) ==
  /\ counter[k].count > 0 /\ counter[k].ttl = 0
  /\ \A r \in Visitors : visit[r].at = "expire" => visit[r].key # k

\* A visitor who is limited can send codes or log in again some time, however
\* often they try in the meantime, unless a process died between INCR and
\* EXPIRE: that counter refuses for ever.
LimitLifts == \A k \in Counters : Limited(k) ~> ~Limited(k) \/ Abandoned(k)
=============================================================================

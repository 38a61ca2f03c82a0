----------------------------- MODULE MCProgress -----------------------------
(***************************************************************************)
(* What must go on: the queue's jobs, the visitors that a limit holds up   *)
(* and the transactions that wait for rows, in one run of TLC (see         *)
(* MCServices for the scenes).  Liveness is checked without symmetry.      *)
(*                                                                         *)
(* A minute, an hour and the window of failed logins are one, three and    *)
(* two ticks: codes asked for once a minute can reach the limit of an      *)
(* hour.                                                                   *)
(***************************************************************************)
EXTENDS MCInventory, JobQueue, RateLimits

VARIABLE scene     \* the part that moves

Scenes == {"jobs", "limits", "locks"}

ProgressInit ==
  /\ scene \in Scenes
  /\ JobInit   /\ (scene # "jobs" => redisUp)
  /\ LimitInit /\ (scene # "limits" => inRedis)
  /\ Init

ProgressNext ==
  /\ UNCHANGED scene
  /\ IF scene = "jobs"   THEN JobNext   ELSE UNCHANGED jobVars
  /\ IF scene = "limits" THEN LimitNext ELSE UNCHANGED limitVars
  /\ IF scene = "locks"  THEN Next      ELSE UNCHANGED vars

progressVars == <<scene, jobVars, limitVars, vars>>

\* Each part's own fairness.  No fair action is enabled in an initial state, so
\* that a part which does not move satisfies its own.
ProgressSpec ==
  /\ ProgressInit /\ [][ProgressNext]_progressVars
  /\ JobFairness /\ LimitFairness /\ LocksFairness

-----------------------------------------------------------------------------
MCWindow == [k \in {"minute", "hour", "login"} |->
               CASE k = "minute" -> 1 [] k = "hour" -> 3 [] k = "login" -> 2]

-----------------------------------------------------------------------------
\* The types of everything.
ProgressTypeOK == scene \in Scenes /\ JobTypeOK /\ LimitTypeOK /\ TypeOK
=============================================================================

------------------------------ MODULE JobQueue ------------------------------
(***************************************************************************)
(* The background jobs (apps/api/src/common/queue.service.ts), which send  *)
(* the messages of NotificationsService: a list in Redis, one worker loop  *)
(* in the process, and the jobs it has started and does not wait for.      *)
(*                                                                         *)
(* A job is out of the list while it runs and while it waits for its next  *)
(* attempt; a process that dies takes these with it.  RedisService never   *)
(* connects again once the connection is lost: until the next start of the *)
(* process, new jobs are executed at once and the list is left alone.      *)
(***************************************************************************)
EXTENDS Integers, Sequences, FiniteSets, SequencesExt

CONSTANTS
  Jobs,
  Emails,           \* the jobs whose handler swallows every error
  MaxAttempts, MaxConcurrency,
  MaxStarts         \* bound: starts of the process

ASSUME JobAssumption ==
  /\ Emails \subseteq Jobs
  /\ MaxAttempts \in Nat \ {0}
  /\ MaxConcurrency \in Nat \ {0}
  /\ MaxStarts \in Nat

VARIABLES
  queue,        \* the list in Redis; lpush at its head, brpop from its end
  running,      \* the jobs a handler works on
  backoff,      \* failed jobs, held in memory until they are pushed again
  attempts,     \* the counter each job carries with it
  counted,      \* the jobs activeJobsCount stands for
  executions,   \* how often a handler was called for a job
  outcome,      \* "new", "accepted", then "done", "givenUp" or "lost"
  redisUp,      \* isOnline
  worker,       \* the worker loop is there; it starts with the process or never
  starts

jobVars == <<queue, running, backoff, attempts, counted, executions, outcome,
             redisUp, worker, starts>>

JobInit ==
  /\ queue = <<>>
  /\ running = {} /\ backoff = {} /\ counted = {}
  /\ attempts = [j \in Jobs |-> 0]
  /\ executions = [j \in Jobs |-> 0]
  /\ outcome = [j \in Jobs |-> "new"]
  /\ redisUp \in BOOLEAN
  /\ worker = redisUp
  /\ starts = 1

-----------------------------------------------------------------------------
Execute(j) ==
  /\ running' = running \cup {j}
  /\ executions' = [executions EXCEPT ![j] = @ + 1]

Accept(j) ==
  /\ outcome[j] = "new"
  /\ outcome' = [outcome EXCEPT ![j] = "accepted"]

\* enqueue
Enqueue(j) ==
  /\ redisUp
  /\ Accept(j)
  /\ queue' = <<j>> \o queue
  /\ UNCHANGED <<running, backoff, attempts, counted, executions, redisUp, worker, starts>>

\* Without Redis the job is executed at once, outside the worker's count.
ExecuteAtOnce(j) ==
  /\ ~redisUp
  /\ Accept(j)
  /\ Execute(j)
  /\ UNCHANGED <<queue, backoff, attempts, counted, redisUp, worker, starts>>

\* Mutant of WorkerTakes: the entry is read and stays in the list.
WorkerReads ==
  /\ worker /\ redisUp
  /\ Cardinality(counted) < MaxConcurrency
  /\ queue # <<>>
  /\ counted' = counted \cup {Last(queue)}
  /\ Execute(Last(queue))
  /\ UNCHANGED <<queue, backoff, attempts, outcome, redisUp, worker, starts>>

\* One turn of the worker loop.
WorkerTakes ==
  /\ worker /\ redisUp
  /\ Cardinality(counted) < MaxConcurrency
  /\ queue # <<>>
  /\ queue' = Front(queue)
  /\ counted' = counted \cup {Last(queue)}
  /\ Execute(Last(queue))
  /\ UNCHANGED <<backoff, attempts, outcome, redisUp, worker, starts>>

\* execute has returned, and with it the worker's .finally
End(j, result) ==
  /\ running' = running \ {j}
  /\ backoff' = backoff \ {j}
  /\ counted' = counted \ {j}
  /\ outcome' = [outcome EXCEPT ![j] = result]

Succeed(j) ==
  /\ j \in running
  /\ End(j, "done")
  /\ UNCHANGED <<queue, attempts, executions, redisUp, worker, starts>>

\* The handler throws: the job is tried again after a pause, if it may be.
FailAndWait(j) ==
  /\ j \in running \ Emails
  /\ attempts[j] + 1 < MaxAttempts /\ redisUp
  /\ attempts' = [attempts EXCEPT ![j] = @ + 1]
  /\ running' = running \ {j}
  /\ backoff' = backoff \cup {j}
  /\ UNCHANGED <<queue, counted, executions, outcome, redisUp, worker, starts>>

\* Mutant of GiveUp: the worker does not hear of it.
GiveUpUncounted(j) ==
  /\ j \in running \ Emails
  /\ attempts[j] + 1 >= MaxAttempts \/ ~redisUp
  /\ attempts' = [attempts EXCEPT ![j] = @ + 1]
  /\ running' = running \ {j}
  /\ outcome' = [outcome EXCEPT ![j] = "givenUp"]
  /\ UNCHANGED <<queue, backoff, counted, executions, redisUp, worker, starts>>

\* Or it is given up and the operators are told.
GiveUp(j) ==
  /\ j \in running \ Emails
  /\ attempts[j] + 1 >= MaxAttempts \/ ~redisUp
  /\ attempts' = [attempts EXCEPT ![j] = @ + 1]
  /\ End(j, "givenUp")
  /\ UNCHANGED <<queue, executions, redisUp, worker, starts>>

\* Mutant of PushAgain: the job is pushed as it was first enqueued.
PushAnew(j) ==
  /\ j \in backoff /\ redisUp
  /\ queue' = <<j>> \o queue
  /\ attempts' = [attempts EXCEPT ![j] = 0]
  /\ backoff' = backoff \ {j}
  /\ counted' = counted \ {j}
  /\ UNCHANGED <<running, executions, outcome, redisUp, worker, starts>>

PushAgain(j) ==
  /\ j \in backoff /\ redisUp
  /\ queue' = <<j>> \o queue
  /\ backoff' = backoff \ {j}
  /\ counted' = counted \ {j}
  /\ UNCHANGED <<running, attempts, executions, outcome, redisUp, worker, starts>>

\* Redis has gone during the pause; the error of the push is swallowed.
PushFails(j) ==
  /\ j \in backoff /\ ~redisUp
  /\ End(j, "lost")
  /\ UNCHANGED <<queue, attempts, executions, redisUp, worker, starts>>

-----------------------------------------------------------------------------
LoseRedis ==
  /\ redisUp
  /\ redisUp' = FALSE
  /\ UNCHANGED <<queue, running, backoff, attempts, counted, executions, outcome,
                 worker, starts>>

\* The process dies and starts again: its memory is gone, the list is not.
Restart ==
  /\ starts < MaxStarts
  /\ starts' = starts + 1
  /\ running' = {} /\ backoff' = {} /\ counted' = {}
  /\ outcome' = [j \in Jobs |-> IF j \in running \cup backoff THEN "lost" ELSE outcome[j]]
  /\ redisUp' \in BOOLEAN
  /\ worker' = redisUp'
  /\ UNCHANGED <<queue, attempts, executions>>

JobStep(j) ==
  \/ Succeed(j) \/ FailAndWait(j) \/ GiveUp(j)
  \/ PushAgain(j) \/ PushFails(j)

JobNext ==
  \/ \E j \in Jobs : Enqueue(j) \/ ExecuteAtOnce(j) \/ JobStep(j)
  \/ WorkerTakes
  \/ LoseRedis
  \/ Restart

JobSpec == JobInit /\ [][JobNext]_jobVars

\* The loop goes round, timers go off and handlers return: each of them awaits
\* a request that times out.
JobFairness ==
  /\ WF_jobVars(WorkerTakes)
  /\ \A j \in Jobs : WF_jobVars(JobStep(j))

-----------------------------------------------------------------------------
\* The types of the queue, the jobs and the worker.
JobTypeOK ==
  /\ queue \in Seq(Jobs)
  /\ running \subseteq Jobs /\ backoff \subseteq Jobs /\ counted \subseteq Jobs
  /\ attempts \in [Jobs -> Nat]
  /\ executions \in [Jobs -> Nat]
  /\ outcome \in [Jobs -> {"new", "accepted", "done", "givenUp", "lost"}]
  /\ redisUp \in BOOLEAN /\ worker \in BOOLEAN /\ starts \in Nat

Places(j) ==
  Cardinality({i \in DOMAIN queue : queue[i] = j})
    + (IF j \in running THEN 1 ELSE 0) + (IF j \in backoff THEN 1 ELSE 0)

\* A job that has been accepted and not ended is in one place, the list, a
\* handler or its pause, and one that has ended is in none: retries, outages and
\* restarts neither run a job twice at a time nor bring back an ended one.
EachJobInOnePlace ==
  \A j \in Jobs : Places(j) = (IF outcome[j] = "accepted" THEN 1 ELSE 0)

\* No message is handed to the gateways more often than the attempts allow,
\* whatever outages and restarts come in between.
ExecutionsBounded == \A j \in Jobs : executions[j] <= MaxAttempts

\* While Redis answers, no accepted job is left behind: jobs that fail, wait and
\* are given up free their place among the concurrent ones.
JobsEnd ==
  \A j \in Jobs : outcome[j] = "accepted" ~> outcome[j] # "accepted" \/ ~redisUp
=============================================================================

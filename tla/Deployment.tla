----------------------------- MODULE Deployment -----------------------------
(***************************************************************************)
(* How a push reaches the server: the listener that is connected to        *)
(* smee.io (scripts/ci-listener.js), the deploy that it starts             *)
(* (scripts/local-deploy.js) and the script that this runs on the server   *)
(* (scripts/deploy-on-server.sh).                                          *)
(*                                                                         *)
(* Commits are numbered as they are pushed to main.  Webhooks are late or  *)
(* lost.  Any command of the deploy may fail, and the connection to the    *)
(* server may break, which ends the script on the server at the command it *)
(* has reached.  The script asks the host to restart a process, by         *)
(* touching tmp/restart.txt; when the host does so is up to the host, and  *)
(* neither script waits for it or fails without it.                        *)
(***************************************************************************)
EXTENDS Naturals

CONSTANT MaxCommits     \* bound: pushes to main

ASSUME DeploymentAssumption == MaxCommits \in Nat

VARIABLES
  head,          \* GitHub: the last commit of main
  link,          \* currentRequest and isConnecting of the listener
  timer,         \* reconnectTimeout is set
  stage,         \* the command that the deploy has reached, "idle" without one
  wanted,        \* the commit of the webhook that started the last deploy
  checkout,      \* the commit of the working tree
  configured,    \* the server has a .env or an envvars file for the migrations
  api,           \* the server's API: dist, dist.bak and what runs
  web,           \* the server's web: the same
  report,        \* how the last deploy ended
  gitFailed,     \* history: the last deploy could not update the tree
  migrated,      \* history: the last build whose migrations all ran
  brokeOff,      \* history: since then a rollout ended, or went on, with its files
                 \* in place and without their migrations
  strayed        \* history: a rollout was under way, or had ended halfway, when the
                 \* API's process loaded what it runs

deployVars == <<head, link, timer, stage, wanted, checkout, configured, api, web,
                report, gitFailed, migrated, brokeOff, strayed>>

listener == <<link, timer>>
history == <<gitFailed, migrated, brokeOff, strayed>>

Nothing == MaxCommits + 1     \* no directory
Partial == MaxCommits + 2     \* a directory with some of the files

Builds == 0..MaxCommits \union {Nothing, Partial}

\* dist or .next, the backup, and the build that the process has loaded; due: it
\* has been asked to restart and has not.
Apps == [files : Builds, backup : Builds, runs : Builds, due : BOOLEAN]

FirstBuild == [files |-> 0, backup |-> Nothing, runs |-> 0, due |-> FALSE]

DeployInit ==
  /\ head = 0
  /\ link = "connecting" /\ timer = FALSE
  /\ stage = "idle" /\ wanted = 0 /\ checkout = 0
  /\ configured \in BOOLEAN
  /\ api = FirstBuild /\ web = FirstBuild
  /\ report = "none"
  /\ gitFailed = FALSE /\ migrated = 0 /\ brokeOff = FALSE /\ strayed = FALSE

-----------------------------------------------------------------------------
\* The listener.

\* connectToSmee returns at once when a connection is being made.
TimerFires ==
  /\ timer
  /\ timer' = FALSE
  /\ link' = "connecting"
  /\ UNCHANGED <<head, stage, wanted, checkout, configured, api, web, report, history>>

Connected ==
  /\ link = "connecting"
  /\ link' = "open"
  /\ UNCHANGED <<head, timer, stage, wanted, checkout, configured, api, web, report, history>>

\* Mutant of LinkLost: the end of the stream only forgets the request.
LinkForgotten == link' = "none" /\ timer' = timer

\* The handlers of end, error, timeout and of an answer other than 200.
LinkLost == link' = "none" /\ timer' = TRUE

Disconnected ==
  /\ link # "none"
  /\ LinkLost
  /\ UNCHANGED <<head, stage, wanted, checkout, configured, api, web, report, history>>

Push ==
  /\ head < MaxCommits
  /\ head' = head + 1
  /\ UNCHANGED <<listener, stage, wanted, checkout, configured, api, web, report, history>>

\* handleWebhook and runDeploy: a webhook that comes while a deploy runs, or
\* while the listener hears nothing, starts none, and nothing remembers it.
Webhook(commit) ==
  /\ link = "open" /\ stage = "idle"
  /\ commit \in 1..head
  /\ stage' = "git" /\ wanted' = commit
  /\ UNCHANGED <<head, listener, checkout, configured, api, web, report, history>>

-----------------------------------------------------------------------------
\* local-deploy.js

\* Mutant of Fetched: the tree is updated from what was fetched before.
NotFetched == checkout

\* git reset --hard origin/main after git fetch
Fetched == head

\* Without the network the deploy goes on with the tree it has.
UpdateTree(works) ==
  /\ stage = "git"
  /\ checkout' = IF works THEN Fetched ELSE checkout
  /\ gitFailed' = ~works
  /\ stage' = "build"
  /\ UNCHANGED <<head, listener, wanted, configured, api, web, report, migrated, brokeOff, strayed>>

\* npm ci and build of both applications, the two archives and the uploads.
BuildAndUpload ==
  /\ stage = "build"
  /\ stage' = "api.backup"
  /\ UNCHANGED <<head, listener, wanted, checkout, configured, api, web, report, history>>

\* A command fails: the deploy ends, with the files as they are.
CommandFails ==
  /\ stage \notin {"idle", "git", "api.migrate"}
  /\ stage' = "idle" /\ report' = "failed"
  /\ brokeOff' = (brokeOff \/ stage = "api.install")
  /\ UNCHANGED <<head, listener, wanted, checkout, configured, api, web, gitFailed, migrated, strayed>>

-----------------------------------------------------------------------------
\* deploy-on-server.sh

\* cp -a dist dist.bak; rm -rf dist
BackedUp(app) ==
  [app EXCEPT !.files = Nothing,
              !.backup = IF app.files = Nothing THEN @ ELSE app.files]

\* Mutant of ApiBackedUp: the API's directory is emptied before it is copied.
EmptiedFirst == [api EXCEPT !.files = Nothing]

ApiBackedUp == BackedUp(api)

BackUpApi ==
  /\ stage = "api.backup"
  /\ api' = ApiBackedUp
  /\ stage' = "api.extract"
  /\ UNCHANGED <<head, listener, wanted, checkout, configured, web, report, history>>

ExtractApi ==
  /\ stage = "api.extract"
  /\ api' = [api EXCEPT !.files = checkout]
  /\ stage' = "api.install"
  /\ UNCHANGED <<head, listener, wanted, checkout, configured, web, report, history>>

\* tar stops halfway: the directory that is there is the next one backed up.
ExtractionStops ==
  /\ \/ stage = "api.extract" /\ api' = [api EXCEPT !.files = Partial]
        /\ brokeOff' = TRUE /\ UNCHANGED web
     \/ stage = "web.extract" /\ web' = [web EXCEPT !.files = Partial]
        /\ UNCHANGED <<api, brokeOff>>
  /\ stage' = "idle" /\ report' = "failed"
  /\ UNCHANGED <<head, listener, wanted, checkout, configured, gitFailed, migrated, strayed>>

InstallApi ==
  /\ stage = "api.install"
  /\ stage' = "api.migrate"
  /\ UNCHANGED <<head, listener, wanted, checkout, configured, api, web, report, history>>

\* The backup goes, and the process is asked to restart.
Finished(app) == [app EXCEPT !.backup = Nothing, !.due = TRUE]

MigrateApi ==
  /\ stage = "api.migrate" /\ configured
  /\ api' = Finished(api)
  /\ migrated' = api.files /\ brokeOff' = FALSE
  /\ stage' = "web.backup"
  /\ UNCHANGED <<head, listener, wanted, checkout, configured, web, report, gitFailed, strayed>>

\* Without .env and envvars the rollout goes on without its migrations.
SkipMigrations ==
  /\ stage = "api.migrate" /\ ~configured
  /\ api' = Finished(api)
  /\ brokeOff' = TRUE
  /\ stage' = "web.backup"
  /\ UNCHANGED <<head, listener, wanted, checkout, configured, web, report, gitFailed, migrated, strayed>>

\* Somebody creates .env, as the script advises.
Configure ==
  /\ ~configured
  /\ configured' = TRUE
  /\ UNCHANGED <<head, listener, stage, wanted, checkout, api, web, report, history>>

\* rm -rf dist; mv dist.bak dist
MigrationFails ==
  /\ stage = "api.migrate" /\ configured
  /\ api' = [api EXCEPT !.files = api.backup, !.backup = Nothing]
  /\ stage' = "idle" /\ report' = "rolled back"
  /\ UNCHANGED <<head, listener, wanted, checkout, configured, web, history>>

\* The connection breaks before the migrations end or the backup is put back.
MigrationCutOff ==
  /\ stage = "api.migrate"
  /\ stage' = "idle" /\ report' = "failed" /\ brokeOff' = TRUE
  /\ UNCHANGED <<head, listener, wanted, checkout, configured, api, web, gitFailed, migrated, strayed>>

BackUpWeb ==
  /\ stage = "web.backup"
  /\ web' = BackedUp(web)
  /\ stage' = "web.extract"
  /\ UNCHANGED <<head, listener, wanted, checkout, configured, api, report, history>>

ExtractWeb ==
  /\ stage = "web.extract"
  /\ web' = [web EXCEPT !.files = checkout]
  /\ stage' = "web.install"
  /\ UNCHANGED <<head, listener, wanted, checkout, configured, api, report, history>>

\* npm install; both processes are asked to restart.  What follows only looks:
\* answers and missing processes are logged, and the script ends as a success.
InstallWeb ==
  /\ stage = "web.install"
  /\ web' = Finished(web)
  /\ api' = [api EXCEPT !.due = TRUE]
  /\ stage' = "idle" /\ report' = "success"
  /\ UNCHANGED <<head, listener, wanted, checkout, configured, history>>

\* The host restarts a process it was asked to restart, or stops one that is idle;
\* either way it loads the directory again.
Reloaded(app) == [app EXCEPT !.runs = app.files, !.due = FALSE]

HostReloads ==
  /\ \/ api' = Reloaded(api) /\ strayed' = (api.backup # Nothing) /\ UNCHANGED web
     \/ web' = Reloaded(web) /\ UNCHANGED <<api, strayed>>
  /\ UNCHANGED <<head, listener, stage, wanted, checkout, configured, report,
                 gitFailed, migrated, brokeOff>>

DeployNext ==
  \/ TimerFires \/ Connected \/ Disconnected
  \/ Push \/ (\E commit \in 1..MaxCommits : Webhook(commit))
  \/ \E works \in BOOLEAN : UpdateTree(works)
  \/ BuildAndUpload \/ CommandFails \/ ExtractionStops
  \/ BackUpApi \/ ExtractApi \/ InstallApi \/ MigrateApi \/ SkipMigrations
  \/ Configure \/ MigrationFails \/ MigrationCutOff
  \/ BackUpWeb \/ ExtractWeb \/ InstallWeb \/ HostReloads

DeploySpec == DeployInit /\ [][DeployNext]_deployVars

-----------------------------------------------------------------------------
\* The types of the listener, the deploy and the server.
DeployTypeOK ==
  /\ head \in 0..MaxCommits /\ wanted \in 0..MaxCommits
  /\ checkout \in 0..MaxCommits /\ migrated \in Builds
  /\ link \in {"none", "connecting", "open"}
  /\ timer \in BOOLEAN
  /\ stage \in {"idle", "git", "build", "api.backup", "api.extract", "api.install",
                "api.migrate", "web.backup", "web.extract", "web.install"}
  /\ configured \in BOOLEAN /\ api \in Apps /\ web \in Apps
  /\ report \in {"none", "success", "failed", "rolled back"}
  /\ gitFailed \in BOOLEAN /\ brokeOff \in BOOLEAN /\ strayed \in BOOLEAN

\* The listener is never deaf for good: it is connected, or connecting, or
\* about to.
NeverSilent == link # "none" \/ timer

\* A deploy that is reported as a success of some commit has put that commit or a
\* later one on the server, in both applications, and each process runs one, or has
\* been asked to restart and has not yet: nothing more is promised by a success.
\* Unless git failed: that is only logged, and the tree there was is deployed.
SuccessMeansDeployed ==
  stage = "idle" /\ report = "success" /\ ~gitFailed =>
    \A app \in {api, web} :
      app.files \in wanted..head /\ (app.runs \in wanted..head \/ app.due)

\* When the migrations fail, the server is left with the last build whose migrations
\* ran, unless an earlier rollout ended, or went on, between the extraction and the
\* migrations: its files are what is backed up and put back.  The process runs that
\* build too, if it has not loaded another one while the rollout was under way, and
\* if the restart it was asked for when that build was installed has taken place.
RollbackRestores ==
  stage = "idle" /\ report = "rolled back" /\ ~brokeOff =>
    api.files = migrated /\ (api.runs = migrated \/ strayed \/ api.due)
=============================================================================

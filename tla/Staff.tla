-------------------------------- MODULE Staff --------------------------------
(***************************************************************************)
(* Who holds the role super_admin: assignRoles and remove of               *)
(* AdminUsersService (apps/api/src/modules/admin-users), and assignRoles   *)
(* of RbacService.                                                         *)
(*                                                                         *)
(* Neither runs in a transaction.  assignRoles reads the target, counts    *)
(* the super admins when the target would cease to be one, deletes the     *)
(* target's rows of role_user and inserts the new ones; remove reads the   *)
(* target, deletes its rows and deletes the user.  Requests interleave at  *)
(* every statement and may die between two of them.                        *)
(***************************************************************************)
EXTENDS Naturals, FiniteSets

CONSTANTS
  Accounts,      \* rows of users
  Desks,         \* requests that run at one time
  NoAccount

ASSUME StaffAssumption ==
  /\ IsFiniteSet(Accounts)
  /\ NoAccount \notin Accounts

VARIABLES
  accounts,      \* the accounts that exist
  supers,        \* the accounts with a row of role_user for super_admin
  task,          \* each request: its next statement, its target, its outcome
  clashed,       \* history: a request that takes roles away ever overlapped one
  brokenOff      \* history: a request died when it had deleted a super's rows

staffVars == <<accounts, supers, task, clashed, brokenOff>>

\* makes: the roles to be written contain super_admin.
Task(at, target, makes) == [at |-> at, target |-> target, makes |-> makes]

NoTask == Task("idle", NoAccount, FALSE)

StaffInit ==
  /\ accounts = Accounts
  /\ supers \in SUBSET Accounts /\ supers # {}
  /\ task = [d \in Desks |-> NoTask]
  /\ clashed = FALSE /\ brokenOff = FALSE

-----------------------------------------------------------------------------

TakesRole(t) == t.at \in {"count", "delete", "unrole", "erase"} /\ ~t.makes

\* A request begins; the history notes that it overlaps another one.
BeginTask(d, t) ==
  /\ task[d] = NoTask
  /\ task' = [task EXCEPT ![d] = t]
  /\ clashed' = (clashed \/ \E o \in Desks :
                   task[o] # NoTask /\ (TakesRole(t) \/ TakesRole(task[o])))
  /\ UNCHANGED <<accounts, supers, brokenOff>>

\* assertNoSuperGrant
MayGrant(admin, target, makes) ==
  (target \in supers \/ makes) => admin \in supers

\* assignRoles up to the count: wasSuper /\ ~willBeSuper asks for the count.
StartAssign(d, admin, target, makes) ==
  /\ {admin, target} \subseteq accounts
  /\ MayGrant(admin, target, makes)
  /\ BeginTask(d, Task(IF target \in supers /\ ~makes THEN "count" ELSE "delete", target, makes))

Advance(d, at) == task' = [task EXCEPT ![d].at = at]

LeaveDesk(d) == task' = [task EXCEPT ![d] = NoTask]

\* Mutant of LastSuper: the last super admin is not looked for.
NeverLast == FALSE

\* superCount <= 1
LastSuper == Cardinality(supers) <= 1

CountSupers(d) ==
  /\ task[d].at = "count"
  /\ IF LastSuper THEN LeaveDesk(d) ELSE Advance(d, "delete")
  /\ UNCHANGED <<accounts, supers, clashed, brokenOff>>

DeleteRoles(d) ==
  /\ task[d].at = "delete"
  /\ supers' = supers \ {task[d].target}
  /\ IF task[d].makes THEN Advance(d, "insert") ELSE LeaveDesk(d)
  /\ UNCHANGED <<accounts, clashed, brokenOff>>

\* INSERT IGNORE: nothing is written for a user that is gone.
InsertRoles(d) ==
  /\ task[d].at = "insert"
  /\ supers' = supers \union ({task[d].target} \intersect accounts)
  /\ LeaveDesk(d)
  /\ UNCHANGED <<accounts, clashed, brokenOff>>

\* remove refuses a super admin and the admin's own account.
StartErase(d, admin, target) ==
  /\ {admin, target} \subseteq accounts
  /\ target \notin supers /\ target # admin
  /\ BeginTask(d, Task("unrole", target, FALSE))

RemoveRoles(d) ==
  /\ task[d].at = "unrole"
  /\ supers' = supers \ {task[d].target}
  /\ Advance(d, "erase")
  /\ UNCHANGED <<accounts, clashed, brokenOff>>

\* The rows of role_user go with the user.
EraseAccount(d) ==
  /\ task[d].at = "erase"
  /\ accounts' = accounts \ {task[d].target}
  /\ supers' = supers \ {task[d].target}
  /\ LeaveDesk(d)
  /\ UNCHANGED <<clashed, brokenOff>>

\* The API stops, or the database refuses the next statement.
RequestDies(d) ==
  /\ task[d] # NoTask
  /\ LeaveDesk(d)
  /\ brokenOff' = (brokenOff \/ task[d].at = "insert")
  /\ UNCHANGED <<accounts, supers, clashed>>

StaffNext ==
  \E d \in Desks :
    \/ \E admin, target \in Accounts :
         \/ \E makes \in BOOLEAN : StartAssign(d, admin, target, makes)
         \/ StartErase(d, admin, target)
    \/ CountSupers(d) \/ DeleteRoles(d) \/ InsertRoles(d)
    \/ RemoveRoles(d) \/ EraseAccount(d)
    \/ RequestDies(d)

StaffSpec == StaffInit /\ [][StaffNext]_staffVars

-----------------------------------------------------------------------------
\* The types of the accounts and of the requests.
StaffTypeOK ==
  /\ accounts \subseteq Accounts
  /\ supers \subseteq accounts
  /\ task \in [Desks -> [at : {"idle", "count", "delete", "insert", "unrole", "erase"},
                         target : Accounts \union {NoAccount}, makes : BOOLEAN]]
  /\ clashed \in BOOLEAN /\ brokenOff \in BOOLEAN

\* The shop keeps a super admin, as LAST_SUPER_ADMIN is for, except while one
\* is written anew, when a request died halfway, and when a request that takes
\* roles away overlapped another: two may both have counted two super admins,
\* and one that reads a target between the other's DELETE and INSERT takes it
\* for an ordinary account.
SuperAdminRemains ==
  \/ supers # {}
  \/ \E d \in Desks : task[d].at = "insert"
  \/ clashed \/ brokenOff
=============================================================================

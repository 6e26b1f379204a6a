------------------------------ MODULE Directory ------------------------------
(***************************************************************************)
(* Departments and their members (IdentityAccessService), and the          *)
(* idempotency keys under which administrators change them.  Every change  *)
(* is a transaction that reserves its key first; the ones that depend on a *)
(* department lock its row, and the deactivation holds that lock while it  *)
(* counts the department's work: first the jobs of its documents, then its *)
(* pending submissions, both without a lock on them.  Uploads and new      *)
(* submissions take the lock; revisions of documents and approvals of      *)
(* submissions only read the department, some time before they commit.     *)
(***************************************************************************)
EXTENDS Integers, FiniteSets

CONSTANTS
    Departments,    \* bound: departments that are created
    Members,        \* user accounts
    DirectoryKeys,  \* bound: idempotency keys
    DirectoryEdits, \* bound: versions of a department
    DirectoryWork   \* bound: kinds of work in all departments at a time

NoDepartment == "none"

ASSUME DirectoryAssumption ==
    NoDepartment \notin Departments /\ DirectoryEdits \in Nat /\ DirectoryWork \in Nat

VARIABLES
    departments,    \* identity_department, with the lock of a deactivation
    members,        \* department and lifecycle of the users
    working,        \* the kinds of work each department's space has
    answers         \* identity_idempotency: what each key was answered, and for what

directoryVars == <<departments, members, working, answers>>

NotCreated == [status |-> "none", version |-> 0, deactivating |-> FALSE, key |-> "none"]
Unused == [request |-> "none", answer |-> "none"]
ActiveDepartment(d) == departments[d].status = "active"
Unlocked(d) == ~departments[d].deactivating

\* What is in progress in a space: submissions that are pending, some of them
\* with their approval authorised; revisions of documents (a replacement, a
\* restore, a reindex or a replay) that are authorised and not yet committed;
\* and the nonterminal jobs, of uploads and of revisions and approvals
WorkKinds == {"submission", "approving", "revising", "upload", "revision"}
PendingOf(d) == working \cap ({d} \X {"submission", "approving"})
JobsOf(d) == working \cap ({d} \X {"upload", "revision"})
MembersOf(d) == {u \in Members : members[u].department = d /\ members[u].status \in {"active", "pending_delete"}}

\* _IdempotencyOperation: a key that was completed is answered again (or refused,
\* for another request) and nothing else happens; otherwise the answer, a
\* refusal included, is stored with the effect in one transaction
Fresh(key) == answers[key] = Unused /\ \A d \in Departments : departments[d].key # key
Complete(key, request, answer) == answers' = [answers EXCEPT ![key] = [request |-> request, answer |-> answer]]
Refuse(key, request) ==
    /\ Complete(key, request, "error")
    /\ UNCHANGED <<departments, members, working>>

DirectoryTypeOK ==
    /\ departments \in [Departments ->
         [status : {"none", "active", "inactive"}, version : Nat, deactivating : BOOLEAN,
          key : DirectoryKeys \cup {"none"}]]
    /\ members \in [Members -> [status : {"none", "active", "pending_delete", "deleted"},
                               department : Departments \cup {NoDepartment}]]
    /\ working \subseteq Departments \X WorkKinds
    /\ answers \in [DirectoryKeys -> [request : {"none", "create", "rename", "user", "move", "deactivate"},
                                     answer : {"none", "ok", "error"}]]

-----------------------------------------------------------------------------
\* create_department, with its space
CreateDepartment(key, d) ==
    /\ Fresh(key)
    /\ IF departments[d].status # "none" THEN Refuse(key, "create")     \* the name exists
       ELSE /\ departments' = [departments EXCEPT ![d] = [NotCreated EXCEPT !.status = "active", !.version = 1]]
            /\ Complete(key, "create", "ok")
            /\ UNCHANGED <<members, working>>

\* rename_department: no lock, but the update is conditional on the version read
RenameDepartment(key, d, expected) ==
    /\ Fresh(key) /\ Unlocked(d)
    /\ departments[d].version < DirectoryEdits
    /\ IF ~ActiveDepartment(d) \/ departments[d].version # expected THEN Refuse(key, "rename")
       ELSE /\ departments' = [departments EXCEPT ![d].version = @ + 1]
            /\ Complete(key, "rename", "ok")
            /\ UNCHANGED <<members, working>>

\* create_managed_user, _insert_user_record: into an active department, locked
CreateUser(key, u, d) ==
    /\ Fresh(key)
    /\ d # NoDepartment => Unlocked(d)
    /\ IF members[u].status # "none" \/ (d # NoDepartment /\ ~ActiveDepartment(d))
       THEN Refuse(key, "user")
       ELSE /\ members' = [members EXCEPT ![u] = [status |-> "active", department |-> d]]
            /\ Complete(key, "user", "ok")
            /\ UNCHANGED <<departments, working>>

\* update_managed_user: a user moves between departments, with the user's row
\* and the new department's row locked
MayJoin(d) == d # NoDepartment => Unlocked(d) /\ ActiveDepartment(d)
MoveUser(key, u, d) ==
    /\ Fresh(key)
    /\ members[u].status = "active"
    /\ MayJoin(d)
    /\ members' = [members EXCEPT ![u].department = d]
    /\ Complete(key, "move", "ok")
    /\ UNCHANGED <<departments, working>>

\* delete_managed_user, and much later the tombstone, which leaves the department
RemoveUser(u) ==
    \/ /\ members[u].status = "active"
       /\ members' = [members EXCEPT ![u].status = "pending_delete"]
       /\ UNCHANGED <<departments, working, answers>>
    \/ /\ members[u].status = "pending_delete"
       /\ members' = [members EXCEPT ![u] = [status |-> "deleted", department |-> NoDepartment]]
       /\ UNCHANGED <<departments, working, answers>>

\* An upload or a submission into the department's space, by a member or an
\* administrator: authorize_space locks every department in the transaction that
\* creates the work
AuthorizeSpace(d) == ActiveDepartment(d) /\ \A other \in Departments : Unlocked(other)
StartWork(d) ==
    /\ AuthorizeSpace(d) /\ Cardinality(working) < DirectoryWork
    /\ \E kind \in {"upload", "submission"} : working' = working \cup {<<d, kind>>}
    /\ UNCHANGED <<departments, members, answers>>

\* A revision of a document, or the approval of a submission, is authorised: on
\* a connection of its own, which reads the department without its lock ...
Authorize(d) ==
    /\ ActiveDepartment(d)
    /\ \/ /\ Cardinality(working) < DirectoryWork
          /\ working' = working \cup {<<d, "revising">>}
       \/ /\ <<d, "submission">> \in working
          /\ working' = (working \ {<<d, "submission">>}) \cup {<<d, "approving">>}
    /\ UNCHANGED <<departments, members, answers>>

\* ... and its transaction commits the job, whatever became of the department
CommitWork(d) ==
    /\ \E kind \in {"revising", "approving"} :
          /\ <<d, kind>> \in working
          /\ working' = (working \ {<<d, kind>>}) \cup {<<d, "revision">>}
    /\ UNCHANGED <<departments, members, answers>>

\* work ends, is given up or refused; an approval that fails leaves its submission
EndWork(d) ==
    /\ \/ \E kind \in WorkKinds \ {"approving"} :
             <<d, kind>> \in working /\ working' = working \ {<<d, kind>>}
       \/ /\ <<d, "approving">> \in working
          /\ \E left \in {{}, {<<d, "submission">>}} :
                working' = (working \ {<<d, "approving">>}) \cup left
    /\ UNCHANGED <<departments, members, answers>>

\* deactivate_department: with the row locked, no member (not even one pending
\* deletion) and no job, which the work check may also fail to tell ...
MutantMayDeactivate(d) == ~\E u \in Members : members[u] = [status |-> "active", department |-> d]
MayDeactivate(d) == MembersOf(d) = {}
DeactivateBegin(key, d, expected) ==
    /\ Fresh(key) /\ Unlocked(d)
    /\ \/ /\ ActiveDepartment(d) /\ departments[d].version = expected
          /\ MayDeactivate(d) /\ JobsOf(d) = {}
          /\ departments' = [departments EXCEPT ![d].deactivating = TRUE, ![d].key = key]
          /\ UNCHANGED <<members, working, answers>>
       \/ Refuse(key, "deactivate")

\* ... then, in a statement of its own, no pending submission: the department is
\* inactive, or the deactivation is refused
DeactivateEnd(d) ==
    /\ departments[d].deactivating
    /\ IF PendingOf(d) # {}
       THEN /\ departments' = [departments EXCEPT ![d].deactivating = FALSE, ![d].key = "none"]
            /\ Complete(departments[d].key, "deactivate", "error")
       ELSE /\ departments' = [departments EXCEPT ![d] = [NotCreated EXCEPT !.status = "inactive",
                                                          !.version = departments[d].version + 1]]
            /\ Complete(departments[d].key, "deactivate", "ok")
    /\ UNCHANGED <<members, working>>

\* prune_completed_history: after its retention a key may be used again
PruneKey(key) ==
    /\ ~Fresh(key)
    /\ answers' = [answers EXCEPT ![key] = Unused]
    /\ UNCHANGED <<departments, members, working>>

-----------------------------------------------------------------------------
DirectoryInit ==
    /\ departments = [d \in Departments |-> NotCreated]
    /\ members = [u \in Members |-> [status |-> "none", department |-> NoDepartment]]
    /\ working = {}
    /\ answers = [key \in DirectoryKeys |-> Unused]

DirectoryNext ==
    \/ \E key \in DirectoryKeys :
          \/ PruneKey(key)
          \/ \E d \in Departments :
                \/ CreateDepartment(key, d)
                \/ \E expected \in 1..DirectoryEdits : RenameDepartment(key, d, expected) \/ DeactivateBegin(key, d, expected)
          \/ \E u \in Members, d \in Departments \cup {NoDepartment} : CreateUser(key, u, d) \/ MoveUser(key, u, d)
    \/ \E u \in Members : RemoveUser(u)
    \/ \E d \in Departments :
          \/ StartWork(d) \/ Authorize(d) \/ CommitWork(d) \/ EndWork(d) \/ DeactivateEnd(d)

DirectorySpec == DirectoryInit /\ [][DirectoryNext]_directoryVars

-----------------------------------------------------------------------------
(* Properties *)

\* A department that was deactivated has no member, not even an account that
\* waits for its deletion, no upload, and no submission that anyone could still
\* approve: members, uploads and submissions only come under the department's
\* lock, and an approval under way during the deactivation does not put its
\* submission back.  (Jobs of revisions and approvals that were authorised before
\* may be committed after: nothing locks them out.)
DirectorySafe ==
    /\ DirectoryTypeOK
    /\ \A d \in Departments : departments[d].status = "inactive" =>
          MembersOf(d) = {} /\ <<d, "upload">> \notin working /\ PendingOf(d) = {}
===============================================================================

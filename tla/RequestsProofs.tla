----------------------------- MODULE RequestsProofs -----------------------------
(* What MCRequests checks of the departments, the generations of the index, the *)
(* releases of retrieval, the builds of the graph, the requests of a user, the  *)
(* context of an answer, the enrichment of a document, the quota of pages and   *)
(* the local meters, for any instance of the constants: the invariant of each   *)
(* part is proved by itself, and at the end for the parts side by side.         *)
EXTENDS MCRequests, SequenceTheorems, FiniteSetTheorems, WellFoundedInduction, TLAPS
-----------------------------------------------------------------------------
(* Departments and their members *)

\* What a deactivation has seen of members and uploads stays true until it
\* commits, since it holds the row that whoever joins or starts work has to lock;
\* the revisions it has not seen are not in this, and submissions are once it ends
EmptyOnceSeen ==
    \A d \in Departments :
        /\ departments[d].deactivating => departments[d].status = "active"
        /\ departments[d].deactivating \/ departments[d].status = "inactive" =>
              /\ <<d, "upload">> \notin working
              /\ \A u \in Members : members[u].department = d => members[u].status \notin {"active", "pending_delete"}
        /\ departments[d].status = "inactive" =>
              <<d, "submission">> \notin working /\ <<d, "approving">> \notin working

DirectoryInv == DirectoryTypeOK /\ EmptyOnceSeen

DepartmentRow == [status : {"none", "active", "inactive"}, version : Nat, deactivating : BOOLEAN,
                  key : DirectoryKeys \cup {"none"}]

LEMMA NonePending ==
    ASSUME NEW d, PendingOf(d) = {}
    PROVE  <<d, "submission">> \notin working /\ <<d, "approving">> \notin working
<1>1. <<d, "submission">> \in {d} \X {"submission", "approving"}
      /\ <<d, "approving">> \in {d} \X {"submission", "approving"}
  OBVIOUS
<1> QED BY <1>1 DEF PendingOf

\* the row of a department is replaced
LEMMA DepartmentWritten ==
    ASSUME DirectoryInv, NEW d \in Departments, NEW row \in DepartmentRow,
           departments' = [departments EXCEPT ![d] = row], UNCHANGED <<members, working>>,
           DirectoryTypeOK' \/ UNCHANGED answers,
           row.deactivating => row.status = "active",
           row.deactivating \/ row.status = "inactive" =>
              \/ departments[d].deactivating \/ departments[d].status = "inactive"
              \/ MembersOf(d) = {} /\ JobsOf(d) = {},
           row.status = "inactive" =>
              departments[d].status = "inactive" \/ PendingOf(d) = {}
    PROVE  DirectoryInv'
<1>1. DirectoryTypeOK' BY DEF DirectoryInv, DirectoryTypeOK, DepartmentRow
<1>2. ASSUME NEW e \in Departments
      PROVE  /\ departments'[e].deactivating => departments'[e].status = "active"
             /\ departments'[e].deactivating \/ departments'[e].status = "inactive" =>
                   /\ <<e, "upload">> \notin working'
                   /\ \A u \in Members : members'[u].department = e =>
                         members'[u].status \notin {"active", "pending_delete"}
             /\ departments'[e].status = "inactive" =>
                   <<e, "submission">> \notin working' /\ <<e, "approving">> \notin working'
  <2>1. CASE e # d
    <3>1. departments'[e] = departments[e] BY <2>1
    <3> QED BY <3>1 DEF DirectoryInv, EmptyOnceSeen
  <2>2. CASE e = d
    <3>1. departments'[e] = row BY <2>2 DEF DirectoryInv, DirectoryTypeOK
    <3>5. departments'[e].status = "inactive" =>
             <<e, "submission">> \notin working' /\ <<e, "approving">> \notin working'
      <4>1. CASE departments[d].status = "inactive"
        BY <2>2, <4>1 DEF DirectoryInv, EmptyOnceSeen
      <4>2. CASE PendingOf(d) = {} BY <2>2, <4>2, NonePending
      <4> QED BY <2>2, <3>1, <4>1, <4>2
    <3>2. CASE MembersOf(d) = {} /\ JobsOf(d) = {}
      <4>1. \A u \in Members : members[u].department = d =>
               members[u].status \notin {"active", "pending_delete"}
        BY <3>2 DEF MembersOf
      <4>2. <<e, "upload">> \notin working' BY <2>2, <3>2 DEF JobsOf
      <4> QED BY <2>2, <3>1, <3>5, <4>1, <4>2
    <3>3. CASE departments[d].deactivating \/ departments[d].status = "inactive"
      BY <2>2, <3>1, <3>3, <3>5 DEF DirectoryInv, EmptyOnceSeen
    <3>4. CASE ~(row.deactivating \/ row.status = "inactive") BY <3>1, <3>4, <3>5
    <3> QED BY <3>2, <3>3, <3>4
  <2> QED BY <2>1, <2>2
<1> QED BY <1>1, <1>2 DEF DirectoryInv, EmptyOnceSeen

\* the row of a user is replaced, without joining a department that is locked
\* or inactive
LEMMA MemberWritten ==
    ASSUME DirectoryInv, DirectoryTypeOK', NEW u \in Members, UNCHANGED <<departments, working>>,
           \A x \in Members : x # u => members'[x] = members[x],
           \A d \in Departments :
              /\ members'[u].department = d /\ members'[u].status \in {"active", "pending_delete"}
              => \/ Unlocked(d) /\ departments[d].status # "inactive"
                 \/ members[u].department = d /\ members[u].status \in {"active", "pending_delete"}
    PROVE  DirectoryInv'
BY DEF DirectoryInv, EmptyOnceSeen, Unlocked

LEMMA AnswersTyped ==
    ASSUME DirectoryTypeOK, NEW key \in DirectoryKeys,
           NEW request \in {"none", "create", "rename", "user", "move", "deactivate"},
           NEW answer \in {"none", "ok", "error"}, Complete(key, request, answer)
    PROVE  answers' \in [DirectoryKeys -> [request : {"none", "create", "rename", "user", "move", "deactivate"},
                                           answer : {"none", "ok", "error"}]]
BY DEF DirectoryTypeOK, Complete

\* nothing but an answer is written
LEMMA OnlyAnswered ==
    ASSUME DirectoryInv, UNCHANGED <<departments, members, working>>,
           answers' \in [DirectoryKeys -> [request : {"none", "create", "rename", "user", "move", "deactivate"},
                                           answer : {"none", "ok", "error"}]]
    PROVE  DirectoryInv'
BY DEF DirectoryInv, DirectoryTypeOK, EmptyOnceSeen

LEMMA Refused ==
    ASSUME DirectoryInv, NEW key \in DirectoryKeys,
           NEW request \in {"create", "rename", "user", "deactivate"}, Refuse(key, request)
    PROVE  DirectoryInv'
BY AnswersTyped, OnlyAnswered DEF DirectoryInv, Refuse

LEMMA InitDirectory == DirectoryInit => DirectoryInv
<1> SUFFICES ASSUME DirectoryInit PROVE DirectoryInv OBVIOUS
<1>1. NotCreated \in DepartmentRow /\ NotCreated.status = "none" /\ ~NotCreated.deactivating
  BY DEF NotCreated, DepartmentRow
<1>2. Unused \in [request : {"none", "create", "rename", "user", "move", "deactivate"},
                  answer : {"none", "ok", "error"}]
  BY DEF Unused
<1>3. DirectoryTypeOK BY <1>1, <1>2 DEF DirectoryInit, DirectoryTypeOK, DepartmentRow
<1> QED BY <1>1, <1>3 DEF DirectoryInit, DirectoryInv, EmptyOnceSeen

LEMMA DepartmentStep ==
    ASSUME DirectoryInv, NEW key \in DirectoryKeys, NEW d \in Departments,
           \/ CreateDepartment(key, d)
           \/ \E expected \in 1..DirectoryEdits : RenameDepartment(key, d, expected) \/ DeactivateBegin(key, d, expected)
    PROVE  DirectoryInv'
<1>0. departments[d] \in DepartmentRow BY DEF DirectoryInv, DirectoryTypeOK, DepartmentRow
<1>t. DirectoryTypeOK BY DEF DirectoryInv
<1>1. CASE CreateDepartment(key, d)
  <2>1. CASE departments[d].status # "none" BY <1>1, <2>1, Refused DEF CreateDepartment
  <2>2. CASE departments[d].status = "none"
    <3> DEFINE row == [NotCreated EXCEPT !.status = "active", !.version = 1]
    <3>1. row \in DepartmentRow /\ row.status = "active" /\ ~row.deactivating
      BY DEF NotCreated, DepartmentRow
    <3> HIDE DEF row
    <3>2. departments' = [departments EXCEPT ![d] = row] /\ UNCHANGED <<members, working>>
      BY <1>1, <2>2 DEF CreateDepartment, row
    <3>3. Complete(key, "create", "ok") BY <1>1, <2>2 DEF CreateDepartment
    <3>4. DirectoryTypeOK'
      BY <1>t, <3>1, <3>2, <3>3, AnswersTyped DEF DirectoryTypeOK, DepartmentRow
    <3> QED BY <3>1, <3>2, <3>4, DepartmentWritten
  <2> QED BY <2>1, <2>2
<1>2. ASSUME NEW expected \in 1..DirectoryEdits, RenameDepartment(key, d, expected)
      PROVE  DirectoryInv'
  <2>1. CASE ~ActiveDepartment(d) \/ departments[d].version # expected
    BY <1>2, <2>1, Refused DEF RenameDepartment
  <2>2. CASE ActiveDepartment(d) /\ departments[d].version = expected
    <3> DEFINE row == [departments[d] EXCEPT !.version = departments[d].version + 1]
    <3>1. row \in DepartmentRow /\ row.status = "active" /\ ~row.deactivating
      BY <1>0, <1>2, <2>2 DEF DepartmentRow, ActiveDepartment, RenameDepartment, Unlocked
    <3>2. departments' = [departments EXCEPT ![d] = row] /\ UNCHANGED <<members, working>>
      BY <1>2, <2>2 DEF RenameDepartment
    <3> HIDE DEF row
    <3>3. Complete(key, "rename", "ok") BY <1>2, <2>2 DEF RenameDepartment
    <3>4. DirectoryTypeOK'
      BY <1>t, <3>1, <3>2, <3>3, AnswersTyped DEF DirectoryTypeOK, DepartmentRow
    <3> QED BY <3>1, <3>2, <3>4, DepartmentWritten
  <2> QED BY <2>1, <2>2
<1>3. ASSUME NEW expected \in 1..DirectoryEdits, DeactivateBegin(key, d, expected)
      PROVE  DirectoryInv'
  <2>1. CASE Refuse(key, "deactivate") BY <2>1, Refused
  <2>2. CASE ~Refuse(key, "deactivate")
    <3> DEFINE row == [departments[d] EXCEPT !.deactivating = TRUE, !.key = key]
    <3>1. ActiveDepartment(d) /\ MayDeactivate(d) /\ JobsOf(d) = {}
      BY <1>3, <2>2 DEF DeactivateBegin
    <3>2. row \in DepartmentRow /\ row.status = "active"
      BY <1>0, <3>1 DEF DepartmentRow, ActiveDepartment
    <3>3. departments' = [departments EXCEPT ![d] = row] /\ UNCHANGED <<members, working, answers>>
      <4>1. departments' = [departments EXCEPT ![d].deactivating = TRUE, ![d].key = key]
        BY <1>3, <2>2 DEF DeactivateBegin
      <4>2. [departments EXCEPT ![d].deactivating = TRUE, ![d].key = key] = [departments EXCEPT ![d] = row]
        BY <1>t DEF DirectoryTypeOK
      <4> QED BY <1>3, <2>2, <4>1, <4>2 DEF DeactivateBegin
    <3> HIDE DEF row
    <3> QED BY <3>1, <3>2, <3>3, DepartmentWritten DEF MayDeactivate
  <2> QED BY <2>1, <2>2
<1> QED BY <1>1, <1>2, <1>3

LEMMA MemberStep ==
    ASSUME DirectoryInv, NEW key \in DirectoryKeys, NEW u \in Members,
           NEW d \in Departments \cup {NoDepartment}, CreateUser(key, u, d) \/ MoveUser(key, u, d)
    PROVE  DirectoryInv'
<1> DEFINE Row == [status : {"none", "active", "pending_delete", "deleted"},
                   department : Departments \cup {NoDepartment}]
<1>t. DirectoryTypeOK BY DEF DirectoryInv
<1>0. members \in [Members -> Row] BY <1>t DEF DirectoryTypeOK
<1>1. CASE CreateUser(key, u, d)
  <2>1. CASE members[u].status # "none" \/ (d # NoDepartment /\ ~ActiveDepartment(d))
    BY <1>1, <2>1, Refused DEF CreateUser
  <2>2. CASE ~(members[u].status # "none" \/ (d # NoDepartment /\ ~ActiveDepartment(d)))
    <3> DEFINE row == [status |-> "active", department |-> d]
    <3>1. row \in Row OBVIOUS
    <3>2. members' = [members EXCEPT ![u] = row] /\ Complete(key, "user", "ok")
          /\ UNCHANGED <<departments, working>>
      BY <1>1, <2>2 DEF CreateUser
    <3>3. DirectoryTypeOK' BY <1>t, <3>1, <3>2, AnswersTyped DEF DirectoryTypeOK
    <3>4. members'[u] = row /\ \A x \in Members : x # u => members'[x] = members[x]
      BY <1>0, <3>2
    <3>5. d \in Departments => Unlocked(d) /\ departments[d].status # "inactive"
      BY <1>1, <2>2, DirectoryAssumption DEF CreateUser, ActiveDepartment
    <3> QED BY <3>2, <3>3, <3>4, <3>5, MemberWritten
  <2> QED BY <2>1, <2>2
<1>2. CASE MoveUser(key, u, d)
  <2> DEFINE row == [members[u] EXCEPT !.department = d]
  <2>1. row \in Row /\ row.department = d BY <1>0
  <2>2. members' = [members EXCEPT ![u] = row] /\ Complete(key, "move", "ok")
        /\ UNCHANGED <<departments, working>>
    BY <1>2 DEF MoveUser
  <2> HIDE DEF row
  <2>3. DirectoryTypeOK' BY <1>t, <2>1, <2>2, AnswersTyped DEF DirectoryTypeOK
  <2>4. members'[u] = row /\ \A x \in Members : x # u => members'[x] = members[x]
    BY <1>0, <2>2
  <2>5. d \in Departments => Unlocked(d) /\ departments[d].status # "inactive"
    BY <1>2, DirectoryAssumption DEF MoveUser, MayJoin, ActiveDepartment
  <2> QED BY <2>1, <2>2, <2>3, <2>4, <2>5, MemberWritten
<1> QED BY <1>1, <1>2

LEMMA RemoveStep ==
    ASSUME DirectoryInv, NEW u \in Members, RemoveUser(u)
    PROVE  DirectoryInv'
<1> DEFINE Row == [status : {"none", "active", "pending_delete", "deleted"},
                   department : Departments \cup {NoDepartment}]
<1>t. DirectoryTypeOK BY DEF DirectoryInv
<1>0. members \in [Members -> Row] BY <1>t DEF DirectoryTypeOK
<1>1. CASE members[u].status = "active" /\ members' = [members EXCEPT ![u].status = "pending_delete"]
           /\ UNCHANGED <<departments, working, answers>>
  <2> DEFINE row == [members[u] EXCEPT !.status = "pending_delete"]
  <2>1. row \in Row /\ row.department = members[u].department BY <1>0
  <2>2. members' = [members EXCEPT ![u] = row] BY <1>1
  <2> HIDE DEF row
  <2>0. members' \in [Members -> Row] BY <1>0, <2>1, <2>2
  <2>3. DirectoryTypeOK' BY <1>t, <1>1, <2>0 DEF DirectoryTypeOK
  <2>4. members'[u] = row /\ \A x \in Members : x # u => members'[x] = members[x]
    BY <1>0, <2>2
  <2> QED BY <1>1, <2>1, <2>3, <2>4, MemberWritten
<1>2. CASE members[u].status = "pending_delete"
           /\ members' = [members EXCEPT ![u] = [status |-> "deleted", department |-> NoDepartment]]
           /\ UNCHANGED <<departments, working, answers>>
  <2>1. DirectoryTypeOK' BY <1>t, <1>2 DEF DirectoryTypeOK
  <2>2. members'[u].status = "deleted" /\ \A x \in Members : x # u => members'[x] = members[x]
    BY <1>0, <1>2
  <2> QED BY <1>2, <2>1, <2>2, MemberWritten
<1> QED BY <1>1, <1>2 DEF RemoveUser

\* work that begins, goes on or ends
LEMMA WorkStep ==
    ASSUME DirectoryInv, NEW d \in Departments,
           StartWork(d) \/ Authorize(d) \/ CommitWork(d) \/ EndWork(d)
    PROVE  DirectoryInv'
<1>t. DirectoryTypeOK BY DEF DirectoryInv
<1>1. UNCHANGED <<departments, members, answers>>
  BY DEF StartWork, Authorize, CommitWork, EndWork
<1>2. working' \subseteq Departments \X WorkKinds
  <2>0. working \subseteq Departments \X WorkKinds
        /\ \A kind \in WorkKinds : <<d, kind>> \in Departments \X WorkKinds
    BY <1>t DEF DirectoryTypeOK
  <2>1. CASE StartWork(d) BY <2>0, <2>1 DEF StartWork, WorkKinds
  <2>2. CASE Authorize(d) BY <2>0, <2>2 DEF Authorize, WorkKinds
  <2>3. CASE CommitWork(d) BY <2>0, <2>3 DEF CommitWork, WorkKinds
  <2>4. CASE EndWork(d)
    <3>1. CASE \E kind \in WorkKinds : working' = working \ {<<d, kind>>} BY <2>0, <3>1
    <3>2. CASE \E left \in {{}, {<<d, "submission">>}} : working' = (working \ {<<d, "approving">>}) \cup left
      BY <2>0, <3>2 DEF WorkKinds
    <3> QED BY <2>4, <3>1, <3>2 DEF EndWork
  <2> QED BY <2>1, <2>2, <2>3, <2>4
<1>3. DirectoryTypeOK' BY <1>t, <1>1, <1>2 DEF DirectoryTypeOK
<1>4. ASSUME NEW e \in Departments
      PROVE  /\ departments[e].deactivating \/ departments[e].status = "inactive" =>
                   <<e, "upload">> \notin working'
             /\ departments[e].status = "inactive" =>
                   <<e, "submission">> \notin working' /\ <<e, "approving">> \notin working'
  <2>1. CASE e # d
    <3>1. ASSUME NEW kind, <<e, kind>> \in working' PROVE <<e, kind>> \in working
      <4>0. \A x : <<e, kind>> # <<d, x>> BY <2>1
      <4>1. CASE StartWork(d) BY <3>1, <4>0, <4>1 DEF StartWork
      <4>2. CASE Authorize(d) BY <3>1, <4>0, <4>2 DEF Authorize
      <4>3. CASE CommitWork(d) BY <3>1, <4>0, <4>3 DEF CommitWork
      <4>4. CASE EndWork(d) BY <3>1, <4>0, <4>4 DEF EndWork
      <4> QED BY <4>1, <4>2, <4>3, <4>4
    <3> QED BY <3>1 DEF DirectoryInv, EmptyOnceSeen, WorkKinds
  <2>2. CASE e = d
    <3>1. CASE StartWork(d)
      BY <2>2, <3>1 DEF StartWork, AuthorizeSpace, ActiveDepartment, Unlocked
    <3>2. CASE Authorize(d)
      BY <2>2, <3>2 DEF Authorize, ActiveDepartment, DirectoryInv, EmptyOnceSeen
    <3>3. CASE CommitWork(d) BY <2>2, <3>3 DEF CommitWork, DirectoryInv, EmptyOnceSeen
    <3>4. CASE EndWork(d) BY <2>2, <3>4 DEF EndWork, DirectoryInv, EmptyOnceSeen
    <3> QED BY <3>1, <3>2, <3>3, <3>4
  <2> QED BY <2>1, <2>2
<1> QED BY <1>1, <1>3, <1>4 DEF DirectoryInv, EmptyOnceSeen

LEMMA DeactivationStep ==
    ASSUME DirectoryInv, NEW d \in Departments, DeactivateEnd(d)
    PROVE  DirectoryInv'
<1>t. DirectoryTypeOK BY DEF DirectoryInv
<1>0. departments[d] \in DepartmentRow BY <1>t DEF DirectoryTypeOK, DepartmentRow
<1>1. departments[d].deactivating /\ UNCHANGED <<members, working>>
      /\ \E answer \in {"ok", "error"} : Complete(departments[d].key, "deactivate", answer)
  BY DEF DeactivateEnd
<1>2. answers' \in [DirectoryKeys -> [request : {"none", "create", "rename", "user", "move", "deactivate"},
                                      answer : {"none", "ok", "error"}]]
  <2>1. PICK answer \in {"ok", "error"} : Complete(departments[d].key, "deactivate", answer)
    BY <1>1
  <2> QED BY <1>t, <2>1 DEF DirectoryTypeOK, Complete
<1>3. ASSUME NEW row \in DepartmentRow, departments' = [departments EXCEPT ![d] = row]
      PROVE  DirectoryTypeOK'
  BY <1>t, <1>1, <1>2, <1>3 DEF DirectoryTypeOK, DepartmentRow
<1>4. CASE PendingOf(d) # {}
  <2> DEFINE row == [departments[d] EXCEPT !.deactivating = FALSE, !.key = "none"]
  <2>1. row \in DepartmentRow /\ row.status = "active" /\ ~row.deactivating
    BY <1>0, <1>1 DEF DepartmentRow, DirectoryInv, EmptyOnceSeen
  <2>2. departments' = [departments EXCEPT ![d] = row]
    <3>1. departments' = [departments EXCEPT ![d].deactivating = FALSE, ![d].key = "none"]
      BY <1>4 DEF DeactivateEnd
    <3>2. [departments EXCEPT ![d].deactivating = FALSE, ![d].key = "none"] = [departments EXCEPT ![d] = row]
      BY <1>t DEF DirectoryTypeOK
    <3> QED BY <3>1, <3>2
  <2> HIDE DEF row
  <2> QED BY <1>1, <1>3, <2>1, <2>2, DepartmentWritten
<1>5. CASE PendingOf(d) = {}
  <2> DEFINE next == departments[d].version + 1
             row == [NotCreated EXCEPT !.status = "inactive", !.version = next]
  <2>0. next \in Nat BY <1>0 DEF DepartmentRow
  <2>2. departments' = [departments EXCEPT ![d] = row] BY <1>5 DEF DeactivateEnd
  <2>3. NotCreated \in DepartmentRow /\ ~NotCreated.deactivating BY DEF NotCreated, DepartmentRow
  <2> HIDE DEF next
  <2>1. row \in DepartmentRow /\ row.status = "inactive" /\ ~row.deactivating
    BY <2>0, <2>3 DEF DepartmentRow
  <2> HIDE DEF row
  <2> QED BY <1>1, <1>3, <1>5, <2>1, <2>2, DepartmentWritten
<1> QED BY <1>4, <1>5

LEMMA DirectoryStep == DirectoryInv /\ [DirectoryNext]_directoryVars => DirectoryInv'
<1> SUFFICES ASSUME DirectoryInv, [DirectoryNext]_directoryVars PROVE DirectoryInv' OBVIOUS
<1>1. CASE UNCHANGED directoryVars
  BY <1>1 DEF directoryVars, DirectoryInv, DirectoryTypeOK, EmptyOnceSeen
<1>2. ASSUME NEW key \in DirectoryKeys, PruneKey(key) PROVE DirectoryInv'
  <2>1. answers' \in [DirectoryKeys -> [request : {"none", "create", "rename", "user", "move", "deactivate"},
                                        answer : {"none", "ok", "error"}]]
    BY <1>2 DEF DirectoryInv, DirectoryTypeOK, PruneKey, Unused
  <2> QED BY <1>2, <2>1, OnlyAnswered DEF PruneKey
<1> QED BY <1>1, <1>2, RemoveStep, DepartmentStep, MemberStep, WorkStep, DeactivationStep DEF DirectoryNext

LEMMA DirectoryPromise == DirectoryInv => DirectorySafe
<1> SUFFICES ASSUME DirectoryInv, NEW d \in Departments, departments[d].status = "inactive"
             PROVE  MembersOf(d) = {} /\ <<d, "upload">> \notin working /\ PendingOf(d) = {}
  BY DEF DirectoryInv, DirectorySafe
<1>1. MembersOf(d) = {} BY DEF DirectoryInv, EmptyOnceSeen, MembersOf
<1>2. PendingOf(d) = {}
  <2>1. <<d, "submission">> \notin working /\ <<d, "approving">> \notin working
    BY DEF DirectoryInv, EmptyOnceSeen
  <2> QED BY <2>1 DEF PendingOf
<1> QED BY <1>1, <1>2 DEF DirectoryInv, EmptyOnceSeen

\* A department that was deactivated has no member, no upload and no pending
\* submission left, although revisions and approvals authorised before commit at
\* any time without its lock: members, uploads and submissions come under it
\* (deactivate_department, authorize_space).
THEOREM Inactive == DirectorySpec => []DirectorySafe
BY DirectoryPromise, InitDirectory, DirectoryStep, PTL DEF DirectorySpec

-----------------------------------------------------------------------------
(* Generations of the index *)

GenRow ==
    [status : {"none", "staging", "active", "retired", "purged"},
     applied : 0..MaxRevision, caught : 0..MaxRevision \cup {-1},
     built : SUBSET Pubs, chunks : SUBSET Pubs, vectors : SUBSET Pubs, window : BOOLEAN]
OpRow ==
    [finding : {"none", "open", "repaired"}, op : {"none", "blocked", "accepted", "purged"},
     step : GcSteps, checked : BOOLEAN, faults : 0..GcFaults]

ChangeRow == [kind : {"publish", "delete"}, doc : Docs, pub : Pubs \cup {NoPub}]

\* A change of the log that publishes names its publication
LogSound ==
    /\ Len(chgs) <= MaxRevision
    /\ \A i \in 1..Len(chgs) : chgs[i].kind = "publish" => chgs[i].pub \in Pubs

\* What is on its way into the index was never published
StagedIsNew == \A p \in Pubs : pubr[p] # NoGen => pub[p] = "none"

\* What is found to be garbage went out of service and is not the candidate of a
\* rollback, which it can never become again
GarbageIsOut ==
    \A g \in Gens :
        /\ gcop[g].finding # "none" =>
              igen[g].status \in {"retired", "purged"} /\ g \notin {head.active, head.candidate}
        /\ gcop[g].op # "none" => gcop[g].finding # "none"
        /\ gcop[g].checked => gcop[g].op # "none"

\* What was built into a generation is in its vector store, unless its content
\* was erased or the generation is being collected
BuiltIsStored ==
    \A g \in Gens : gcop[g].finding = "none" =>
        \A p \in igen[g].built : pub[p] = "purged" \/ p \in igen[g].vectors

GenInv ==
    /\ GenTypeOK /\ LogSound /\ StagedIsNew
    /\ HeadIsSound /\ CollectsUnreachable /\ GarbageIsOut /\ BuiltIsStored

LEMMA GenRows ==
    GenTypeOK <=> /\ chgs \in Seq(ChangeRow)
                  /\ pub \in [Pubs -> {"none", "active", "retired", "purged"}]
                  /\ pubr \in [Pubs -> Gens \cup {NoGen}]
                  /\ igen \in [Gens -> GenRow]
                  /\ head \in [active : Gens, candidate : Gens \cup {NoGen}]
                  /\ pins \in [Readers -> Gens \cup {NoGen}]
                  /\ gcop \in [Gens -> OpRow]
BY DEF GenTypeOK, GenRow, OpRow, ChangeRow

LEMMA GenTyped ==
    ASSUME chgs' \in Seq(ChangeRow), pub' \in [Pubs -> {"none", "active", "retired", "purged"}],
           pubr' \in [Pubs -> Gens \cup {NoGen}], igen' \in [Gens -> GenRow],
           head' \in [active : Gens, candidate : Gens \cup {NoGen}],
           pins' \in [Readers -> Gens \cup {NoGen}], gcop' \in [Gens -> OpRow]
    PROVE  GenTypeOK'
BY DEF GenTypeOK, GenRow, OpRow, ChangeRow

\* the log, the facts and the stores change, but no generation its place
LEMMA SamePlaces ==
    ASSUME GenInv, UNCHANGED <<head, pins, gcop>>,
           \A g \in Gens : igen'[g].status = igen[g].status
    PROVE  HeadIsSound' /\ CollectsUnreachable' /\ GarbageIsOut'
<1>1. HeadIsSound'
  <2>1. head.candidate # NoGen => head.candidate \in Gens BY GenRows DEF GenInv
  <2> QED BY <2>1 DEF GenInv, HeadIsSound
<1>2. CollectsUnreachable' BY DEF GenInv, CollectsUnreachable
<1>3. GarbageIsOut' BY DEF GenInv, GarbageIsOut
<1> QED BY <1>1, <1>2, <1>3

\* pins or garbage change, but the generations do not
LEMMA SameStores ==
    ASSUME GenInv, UNCHANGED <<chgs, pub, pubr, igen>>, 
           \A g \in Gens : gcop'[g].finding = "none" => gcop[g].finding = "none"
    PROVE  LogSound' /\ StagedIsNew' /\ BuiltIsStored'
BY DEF GenInv, LogSound, StagedIsNew, BuiltIsStored

LEMMA InitGen == GenInit => GenInv
<1> SUFFICES ASSUME GenInit PROVE GenInv OBVIOUS
<1>1. Len(Components) \in Nat /\ 1 \in GcSteps
  BY GenerationsAssumption DEF GcSteps
<1>2. igen \in [Gens -> GenRow]
  <2>1. 0 \in 0..MaxRevision BY GenerationsAssumption
  <2> QED BY <2>1 DEF GenInit, GenRow
<1>3. gcop \in [Gens -> OpRow]
  <2>1. GcFaults \in 0..GcFaults BY GenerationsAssumption
  <2> QED BY <1>1, <2>1 DEF GenInit, OpRow
<1>4. chgs \in Seq(ChangeRow) /\ Len(chgs) = 0
  BY DEF GenInit
<1>5. GenTypeOK BY <1>2, <1>3, <1>4, GenRows, GenerationsAssumption DEF GenInit
<1>6. LogSound BY <1>4, GenerationsAssumption DEF LogSound
<1>7. /\ \A g \in Gens : /\ gcop[g].finding = "none" /\ gcop[g].op = "none" /\ ~gcop[g].checked
                         /\ igen[g].built = {}
                         /\ igen[g].status = IF g = FirstGen THEN "active" ELSE "none"
      /\ head.active = FirstGen /\ head.candidate = NoGen
  BY DEF GenInit
<1>8. HeadIsSound BY <1>7 DEF HeadIsSound
<1>9. CollectsUnreachable BY <1>7 DEF CollectsUnreachable
<1>10. StagedIsNew BY DEF GenInit, StagedIsNew
<1>11. GarbageIsOut BY <1>7 DEF GarbageIsOut
<1>12. BuiltIsStored BY <1>7 DEF BuiltIsStored
<1> QED BY <1>5, <1>6, <1>8, <1>9, <1>10, <1>11, <1>12 DEF GenInv

LEMMA PublicationStep ==
    ASSUME GenInv, NEW p \in Pubs,
           StagePublication(p) \/ CommitPublication(p) \/ AbortPublication(p) \/ PurgeContent(p)
    PROVE  GenInv'
<1>t. /\ chgs \in Seq(ChangeRow)
      /\ pub \in [Pubs -> {"none", "active", "retired", "purged"}]
      /\ pubr \in [Pubs -> Gens \cup {NoGen}] /\ igen \in [Gens -> GenRow]
      /\ head \in [active : Gens, candidate : Gens \cup {NoGen}]
      /\ pins \in [Readers -> Gens \cup {NoGen}] /\ gcop \in [Gens -> OpRow]
  BY GenRows DEF GenInv
<1>1. CASE StagePublication(p)
  <2> DEFINE h == head.active
             row == [igen[h] EXCEPT !.vectors = igen[h].vectors \cup {p}]
  <2>1. h \in Gens /\ igen[h] \in GenRow BY <1>t
  <2>2. row \in GenRow /\ row.status = igen[h].status /\ row.built = igen[h].built
        /\ igen[h].vectors \subseteq row.vectors
    BY <2>1 DEF GenRow
  <2>3. igen' = [igen EXCEPT ![h] = row] BY <1>1 DEF StagePublication
  <2>4. pubr' = [pubr EXCEPT ![p] = h] /\ pub[p] = "none" /\ UNCHANGED <<chgs, pub, head, pins, gcop>>
    BY <1>1 DEF StagePublication
  <2> HIDE DEF h, row
  <2>5. GenTypeOK' BY <1>t, <2>1, <2>2, <2>3, <2>4, GenTyped
  <2>6. LogSound' BY <2>4 DEF GenInv, LogSound
  <2>7. StagedIsNew' BY <1>t, <2>4 DEF GenInv, StagedIsNew
  <2>8. HeadIsSound' /\ CollectsUnreachable' /\ GarbageIsOut'
    BY <1>t, <2>2, <2>3, <2>4, SamePlaces
  <2>9. BuiltIsStored'
    <3>1. \A g \in Gens : igen'[g].built = igen[g].built /\ igen[g].vectors \subseteq igen'[g].vectors
      BY <1>t, <2>2, <2>3
    <3> QED BY <2>4, <3>1 DEF GenInv, BuiltIsStored
  <2> QED BY <2>5, <2>6, <2>7, <2>8, <2>9 DEF GenInv
<1>2. CASE CommitPublication(p)
  <2> DEFINE h == pubr[p]
             row == [igen[h] EXCEPT !.chunks = igen[h].chunks \cup {p}]
             change == [kind |-> "publish", doc |-> DocOf[p], pub |-> p]
  <2>1. h \in Gens /\ igen[h] \in GenRow BY <1>t, <1>2 DEF CommitPublication
  <2>2. row \in GenRow /\ row.status = igen[h].status /\ row.built = igen[h].built
        /\ row.vectors = igen[h].vectors
    BY <2>1 DEF GenRow
  <2>3. igen' = [igen EXCEPT ![h] = row] BY <1>2 DEF CommitPublication
  <2>4. /\ pubr' = [pubr EXCEPT ![p] = NoGen] /\ UNCHANGED <<head, pins, gcop>>
        /\ pub' = [q \in Pubs |-> IF q = p THEN "active"
                                  ELSE IF DocOf[q] = DocOf[p] /\ pub[q] = "active" THEN "retired"
                                  ELSE pub[q]]
        /\ chgs' = Append(chgs, change) /\ Len(chgs) < MaxRevision /\ pub[p] = "none"
    BY <1>2 DEF CommitPublication, Logged, Revision, GenInv, StagedIsNew
  <2>5. change \in ChangeRow BY DEF ChangeRow, Docs
  <2> HIDE DEF h, row
  <2>6. GenTypeOK'
    <3>1. chgs' \in Seq(ChangeRow)
      BY <1>t, <2>4, <2>5, AppendProperties
    <3>2. pub' \in [Pubs -> {"none", "active", "retired", "purged"}] BY <1>t, <2>4
    <3> QED BY <1>t, <2>1, <2>2, <2>3, <2>4, <3>1, <3>2, GenTyped
  <2>7. LogSound'
    <3>1. /\ Len(chgs') = Len(chgs) + 1 /\ chgs'[Len(chgs) + 1] = change
          /\ \A i \in 1..Len(chgs) : chgs'[i] = chgs[i] /\ Len(chgs) \in Nat
      BY <1>t, <2>4, <2>5, AppendProperties
    <3>2. change.pub \in Pubs OBVIOUS
    <3> HIDE DEF change
    <3> QED BY <1>t, <2>4, <3>1, <3>2, GenerationsAssumption DEF GenInv, LogSound
  <2>8. StagedIsNew' BY <1>t, <2>4 DEF GenInv, StagedIsNew
  <2>9. HeadIsSound' /\ CollectsUnreachable' /\ GarbageIsOut'
    BY <1>t, <2>2, <2>3, <2>4, SamePlaces
  <2>10. BuiltIsStored'
    <3>1. \A g \in Gens : igen'[g].built = igen[g].built /\ igen[g].vectors = igen'[g].vectors
                          /\ igen[g].built \subseteq Pubs
      BY <1>t, <2>2, <2>3 DEF GenRow
    <3>2. \A q \in Pubs : pub[q] = "purged" => pub'[q] = "purged" BY <2>4
    <3> QED BY <2>4, <3>1, <3>2 DEF GenInv, BuiltIsStored
  <2> QED BY <2>6, <2>7, <2>8, <2>9, <2>10 DEF GenInv
<1>3. CASE AbortPublication(p)
  <2>1. pubr' = [pubr EXCEPT ![p] = NoGen] /\ UNCHANGED <<chgs, pub, igen, head, pins, gcop>>
    BY <1>3 DEF AbortPublication
  <2>2. GenTypeOK' BY <1>t, <2>1, GenTyped
  <2>3. LogSound' /\ StagedIsNew' /\ BuiltIsStored'
    BY <1>t, <2>1 DEF GenInv, LogSound, StagedIsNew, BuiltIsStored
  <2> QED BY <2>1, <2>2, <2>3, SamePlaces DEF GenInv
<1>4. CASE PurgeContent(p)
  <2>1. /\ pub[p] = "retired" /\ pub' = [pub EXCEPT ![p] = "purged"]
        /\ igen' = [g \in Gens |-> [igen[g] EXCEPT !.vectors = igen[g].vectors \ {p}]]
        /\ UNCHANGED <<chgs, pubr, head, pins, gcop>>
    BY <1>4 DEF PurgeContent
  <2>2. ASSUME NEW g \in Gens
        PROVE  /\ igen'[g] \in GenRow /\ igen'[g].status = igen[g].status
               /\ igen'[g].built = igen[g].built /\ igen'[g].vectors = igen[g].vectors \ {p}
               /\ igen[g].built \subseteq Pubs
    <3>1. igen[g] \in GenRow BY <1>t
    <3>2. igen'[g] = [igen[g] EXCEPT !.vectors = igen[g].vectors \ {p}] BY <2>1
    <3> QED BY <3>1, <3>2 DEF GenRow
  <2>3. GenTypeOK'
    <3>1. igen' \in [Gens -> GenRow] BY <2>1, <2>2
    <3> QED BY <1>t, <2>1, <3>1, GenTyped
  <2>4. LogSound' /\ StagedIsNew' BY <1>t, <2>1 DEF GenInv, LogSound, StagedIsNew
  <2>5. BuiltIsStored' BY <1>t, <2>1, <2>2 DEF GenInv, BuiltIsStored
  <2> QED BY <2>1, <2>2, <2>3, <2>4, <2>5, SamePlaces DEF GenInv
<1> QED BY <1>1, <1>2, <1>3, <1>4

LEMMA DeleteStep ==
    ASSUME GenInv, NEW d \in Docs, DeleteDocument(d)
    PROVE  GenInv'
<1>t. /\ chgs \in Seq(ChangeRow)
      /\ pub \in [Pubs -> {"none", "active", "retired", "purged"}]
      /\ pubr \in [Pubs -> Gens \cup {NoGen}] /\ igen \in [Gens -> GenRow]
      /\ head \in [active : Gens, candidate : Gens \cup {NoGen}]
      /\ pins \in [Readers -> Gens \cup {NoGen}] /\ gcop \in [Gens -> OpRow]
  BY GenRows DEF GenInv
<1> DEFINE change == [kind |-> "delete", doc |-> d, pub |-> NoPub]
<1>1. /\ chgs' = Append(chgs, change) /\ Len(chgs) < MaxRevision
      /\ pub' = [p \in Pubs |-> IF p \in OfDoc(d) /\ pub[p] = "active" THEN "retired" ELSE pub[p]]
      /\ UNCHANGED <<pubr, igen, head, pins, gcop>>
  BY DEF DeleteDocument, Logged, Revision
<1>2. change \in ChangeRow BY DEF ChangeRow
<1>3. GenTypeOK'
  <2>1. chgs' \in Seq(ChangeRow)
    BY <1>t, <1>1, <1>2, AppendProperties
  <2>2. pub' \in [Pubs -> {"none", "active", "retired", "purged"}] BY <1>t, <1>1
  <2> QED BY <1>t, <1>1, <2>1, <2>2, GenTyped
<1>4. LogSound'
  <2>1. /\ Len(chgs') = Len(chgs) + 1 /\ chgs'[Len(chgs) + 1] = change
        /\ \A i \in 1..Len(chgs) : chgs'[i] = chgs[i] /\ Len(chgs) \in Nat
    BY <1>t, <1>1, <1>2, AppendProperties
  <2>2. change.kind # "publish" OBVIOUS
  <2> HIDE DEF change
  <2>3. Len(chgs') <= MaxRevision
    <3>1. Len(chgs) \in Nat BY <1>t, LenProperties
    <3> QED BY <1>1, <2>1, <3>1, GenerationsAssumption
  <2>4. ASSUME NEW i \in 1..Len(chgs'), chgs'[i].kind = "publish" PROVE chgs'[i].pub \in Pubs
    <3>1. Len(chgs) \in Nat BY <1>t, LenProperties
    <3>2. i \in 1..Len(chgs) BY <2>1, <2>2, <2>4, <3>1
    <3>3. chgs'[i] = chgs[i] BY <2>1, <3>2
    <3> QED BY <2>4, <3>2, <3>3 DEF GenInv, LogSound
  <2> QED BY <2>3, <2>4 DEF LogSound
<1>5. StagedIsNew' BY <1>t, <1>1 DEF GenInv, StagedIsNew
<1>6. BuiltIsStored'
  <2>1. \A g \in Gens : igen[g].built \subseteq Pubs BY <1>t DEF GenRow
  <2>2. \A q \in Pubs : pub[q] = "purged" => pub'[q] = "purged" BY <1>1
  <2> QED BY <1>1, <2>1, <2>2 DEF GenInv, BuiltIsStored
<1> QED BY <1>1, <1>3, <1>4, <1>5, <1>6, SamePlaces DEF GenInv

\* what catching up with the log makes of a generation
LEMMA CaughtUpIs ==
    ASSUME GenInv, NEW g \in Gens
    PROVE  /\ CaughtUp(g) \in GenRow
           /\ CaughtUp(g).status = igen[g].status
           /\ CaughtUp(g).built \subseteq Pubs
           /\ gcop[g].finding = "none" =>
                 \A p \in CaughtUp(g).built : pub[p] = "purged" \/ p \in CaughtUp(g).vectors
<1>t. chgs \in Seq(ChangeRow) /\ igen[g] \in GenRow
  BY GenRows DEF GenInv
<1> DEFINE kept(s) == {p \in s : DocOf[p] \notin TouchedDocs(g)}
           gone == {p \in Pubs : \E r \in Pending(g) :
                      chgs[r].kind = "delete" /\ DocOf[p] = chgs[r].doc}
           caught == IF Pending(g) # {} /\ igen[g].status = "retired" THEN Revision ELSE igen[g].caught
           built == kept(igen[g].built) \cup LastOf(g)
           chunks == kept(igen[g].chunks) \cup LastOf(g)
           vectors == (igen[g].vectors \ gone) \cup LastOf(g)
<1>1. Revision \in Nat /\ Revision \in 0..MaxRevision
  BY <1>t, GenerationsAssumption DEF GenInv, LogSound, Revision
<1>2. igen[g].applied \in Nat BY <1>t, GenerationsAssumption DEF GenRow
<1>3. Pending(g) \subseteq 1..Len(chgs) BY <1>1, <1>2 DEF Pending, Revision
<1>4. LastOf(g) \subseteq Pubs BY <1>3 DEF GenInv, LogSound, LastOf
<1>5. built \subseteq Pubs /\ chunks \subseteq Pubs /\ vectors \subseteq Pubs
  BY <1>t, <1>4 DEF GenRow
<1>6. caught \in 0..MaxRevision \cup {-1} BY <1>t, <1>1 DEF GenRow
<1>7. CaughtUp(g) = [igen[g] EXCEPT !.applied = Revision, !.caught = caught, !.built = built,
                                    !.chunks = chunks, !.vectors = vectors]
  BY DEF CaughtUp
<1>8. \A p \in kept(igen[g].built) : p \notin gone BY DEF TouchedDocs
<1>9. gcop[g].finding = "none" => \A p \in built : pub[p] = "purged" \/ p \in vectors
  BY <1>8 DEF GenInv, BuiltIsStored
<1> HIDE DEF caught, built, chunks, vectors
<1>10. CaughtUp(g) \in GenRow BY <1>t, <1>1, <1>5, <1>6, <1>7 DEF GenRow
<1>11. CaughtUp(g).status = igen[g].status /\ CaughtUp(g).built = built /\ CaughtUp(g).vectors = vectors
  BY <1>t, <1>7 DEF GenRow
<1> QED BY <1>5, <1>9, <1>10, <1>11

LEMMA StagingStep ==
    ASSUME GenInv, NEW g \in Gens, CreateStaging(g) \/ WindowCloses(g)
    PROVE  GenInv'
<1>t. /\ chgs \in Seq(ChangeRow)
      /\ pub \in [Pubs -> {"none", "active", "retired", "purged"}]
      /\ pubr \in [Pubs -> Gens \cup {NoGen}] /\ igen \in [Gens -> GenRow]
      /\ head \in [active : Gens, candidate : Gens \cup {NoGen}]
      /\ pins \in [Readers -> Gens \cup {NoGen}] /\ gcop \in [Gens -> OpRow]
  BY GenRows DEF GenInv
<1>0. igen[g] \in GenRow BY <1>t
<1>1. CASE CreateStaging(g)
  <2> DEFINE stored == igen[g].vectors \cup Active
             row == [igen[g] EXCEPT !.status = "staging", !.applied = Revision,
                                    !.built = Active, !.chunks = Active, !.vectors = stored]
  <2>0. Revision \in 0..MaxRevision
    BY <1>t, GenerationsAssumption DEF GenInv, LogSound, Revision
  <2>1. Active \subseteq Pubs /\ stored \subseteq Pubs /\ Active \subseteq stored
    BY <1>t DEF Active, GenRow
  <2>2. igen' = [igen EXCEPT ![g] = row] /\ igen[g].status = "none"
        /\ UNCHANGED <<chgs, pub, pubr, head, pins, gcop>>
    BY <1>1 DEF CreateStaging, Snapshot
  <2> HIDE DEF stored
  <2>3. row \in GenRow /\ row.status = "staging" /\ row.built = Active /\ row.vectors = stored
    BY <1>0, <2>0, <2>1 DEF GenRow
  <2> HIDE DEF row
  <2>4. GenTypeOK' BY <1>t, <2>2, <2>3, GenTyped
  <2>5. LogSound' /\ StagedIsNew' BY <2>2 DEF GenInv, LogSound, StagedIsNew
  <2>6. igen'[g] = row /\ \A h \in Gens : h # g => igen'[h] = igen[h] BY <1>t, <2>2
  <2>7. head.active \in Gens /\ (head.candidate # NoGen => head.candidate \in Gens) BY <1>t
  <2>8. HeadIsSound' BY <2>2, <2>3, <2>6, <2>7 DEF GenInv, HeadIsSound
  <2>9. CollectsUnreachable' BY <2>2, <2>3, <2>6 DEF GenInv, CollectsUnreachable
  <2>10. GarbageIsOut' BY <2>2, <2>3, <2>6 DEF GenInv, GarbageIsOut
  <2>11. BuiltIsStored' BY <2>1, <2>2, <2>3, <2>6 DEF GenInv, BuiltIsStored
  <2> QED BY <2>4, <2>5, <2>8, <2>9, <2>10, <2>11 DEF GenInv
<1>2. CASE WindowCloses(g)
  <2> DEFINE row == [igen[g] EXCEPT !.window = FALSE]
  <2>1. row \in GenRow /\ row.status = igen[g].status /\ row.built = igen[g].built
        /\ row.vectors = igen[g].vectors
    BY <1>0 DEF GenRow
  <2>2. igen' = [igen EXCEPT ![g] = row] /\ UNCHANGED <<chgs, pub, pubr, head, pins, gcop>>
    BY <1>2 DEF WindowCloses
  <2> HIDE DEF row
  <2>3. GenTypeOK' BY <1>t, <2>1, <2>2, GenTyped
  <2>4. \A h \in Gens : igen'[h].status = igen[h].status /\ igen'[h].built = igen[h].built
                        /\ igen'[h].vectors = igen[h].vectors
    BY <1>t, <2>1, <2>2
  <2>5. LogSound' /\ StagedIsNew' /\ BuiltIsStored'
    BY <2>2, <2>4 DEF GenInv, LogSound, StagedIsNew, BuiltIsStored
  <2> QED BY <2>2, <2>3, <2>4, <2>5, SamePlaces DEF GenInv
<1> QED BY <1>1, <1>2

\* g goes into service, and what was in service becomes its candidate
LEMMA Switched ==
    ASSUME GenInv, NEW g \in Gens, NEW h \in Gens, h = head.active, g # h,
           igen[g].status \in {"staging", "retired"}, igen[g].status = "retired" => gcop[g].finding = "none",
           NEW new \in GenRow, new.status = "active",
           gcop[g].finding = "none" => \A p \in new.built : pub[p] = "purged" \/ p \in new.vectors,
           NEW old \in GenRow, old.status = "retired", old.built = igen[h].built,
           old.vectors = igen[h].vectors,
           igen' = [igen EXCEPT ![g] = new, ![h] = old],
           head' = [active |-> g, candidate |-> h],
           UNCHANGED <<chgs, pub, pubr, pins, gcop>>
    PROVE  GenInv'
<1>t. /\ chgs \in Seq(ChangeRow)
      /\ pub \in [Pubs -> {"none", "active", "retired", "purged"}]
      /\ pubr \in [Pubs -> Gens \cup {NoGen}] /\ igen \in [Gens -> GenRow]
      /\ head \in [active : Gens, candidate : Gens \cup {NoGen}]
      /\ pins \in [Readers -> Gens \cup {NoGen}] /\ gcop \in [Gens -> OpRow]
  BY GenRows DEF GenInv
<1>1. igen'[g] = new /\ igen'[h] = old /\ igen' \in [Gens -> GenRow]
      /\ \A k \in Gens : k # g /\ k # h => igen'[k] = igen[k]
  BY <1>t
<1>2. head' \in [active : Gens, candidate : Gens \cup {NoGen}] /\ head'.active = g /\ head'.candidate = h
  OBVIOUS
<1>3. igen[h].status = "active" /\ \A k \in Gens : igen[k].status = "active" => k = h
  BY DEF GenInv, HeadIsSound
<1>4. GenTypeOK' BY <1>t, <1>1, <1>2, GenTyped
<1>5. LogSound' /\ StagedIsNew' BY DEF GenInv, LogSound, StagedIsNew
<1>6. gcop[h].finding = "none" BY <1>3 DEF GenInv, GarbageIsOut
<1>7. gcop[g].finding = "none"
  BY DEF GenInv, GarbageIsOut
<1>8. HeadIsSound' BY <1>1, <1>2, <1>3 DEF HeadIsSound
<1>9. GarbageIsOut' BY <1>1, <1>2, <1>6, <1>7 DEF GenInv, GarbageIsOut
<1>10. CollectsUnreachable'
  <2> SUFFICES ASSUME NEW k \in Gens, gcop[k].checked \/ igen'[k].status = "purged"
               PROVE  k \notin {g, h} /\ \A r \in Readers : pins[r] # k
    BY <1>2 DEF CollectsUnreachable
  <2>1. ~gcop[g].checked /\ ~gcop[h].checked BY <1>6, <1>7 DEF GenInv, GarbageIsOut
  <2>2. k # g /\ k # h BY <1>1, <2>1
  <2> QED BY <1>1, <2>2 DEF GenInv, CollectsUnreachable
<1>11. BuiltIsStored'
  <2>1. \A k \in Gens : k # g => igen'[k].built = igen[k].built /\ igen'[k].vectors = igen[k].vectors
    BY <1>1
  <2> QED BY <1>1, <1>7, <2>1 DEF GenInv, BuiltIsStored
<1> QED BY <1>4, <1>5, <1>8, <1>9, <1>10, <1>11 DEF GenInv

\* a release and a rollback are switches, to a generation that is whole
LEMMA Switches ==
    ASSUME GenInv, NEW g \in Gens, ReleaseGeneration(g) \/ Rollback(g)
    PROVE  /\ GenInv'
           /\ head'.active = g /\ igen'[g].chunks = Active /\ Active \subseteq igen'[g].vectors
<1>t. /\ chgs \in Seq(ChangeRow) /\ igen \in [Gens -> GenRow]
      /\ pub \in [Pubs -> {"none", "active", "retired", "purged"}]
      /\ head \in [active : Gens, candidate : Gens \cup {NoGen}]
  BY GenRows DEF GenInv
<1> DEFINE h == head.active
<1>1. h \in Gens /\ igen[h] \in GenRow /\ igen[h].status = "active" BY <1>t DEF GenInv, HeadIsSound
<1>2. Revision \in 0..MaxRevision
  BY <1>t, GenerationsAssumption DEF GenInv, LogSound, Revision
<1>3. /\ CaughtUp(g) \in GenRow
      /\ gcop[g].finding = "none" =>
            \A p \in CaughtUp(g).built : pub[p] = "purged" \/ p \in CaughtUp(g).vectors
  BY CaughtUpIs
<1>4. ASSUME NEW c \in 0..MaxRevision \cup {-1}
      PROVE  /\ Retire(igen[h], c) \in GenRow /\ Retire(igen[h], c).status = "retired"
             /\ Retire(igen[h], c).built = igen[h].built /\ Retire(igen[h], c).vectors = igen[h].vectors
  BY <1>1 DEF Retire, GenRow
<1>5. igen[g].status \in {"staging", "retired"} /\ ContentValid(CaughtUp(g))
  BY DEF ReleaseGeneration, Rollback
<1>6. g # h BY <1>1, <1>5
<1>7. gcop[g].finding = "none"
  <2>1. CASE igen[g].status = "staging" BY <2>1 DEF GenInv, GarbageIsOut
  <2>2. CASE igen[g].status = "retired"
    <3>1. head.candidate = g BY <2>2 DEF ReleaseGeneration, Rollback
    <3> QED BY <3>1 DEF GenInv, GarbageIsOut
  <2> QED BY <1>5, <2>1, <2>2
<1>8. Active \subseteq CaughtUp(g).vectors
  BY <1>3, <1>5, <1>7 DEF ContentValid, Active
<1>9. CASE ReleaseGeneration(g)
  <2> DEFINE new == [CaughtUp(g) EXCEPT !.status = "active"]
             old == Retire(igen[h], Revision)
  <2>1. /\ new \in GenRow /\ new.status = "active" /\ new.built = CaughtUp(g).built
        /\ new.vectors = CaughtUp(g).vectors /\ new.chunks = CaughtUp(g).chunks
    BY <1>3 DEF GenRow
  <2>2. /\ igen' = [igen EXCEPT ![g] = new, ![h] = old]
        /\ head' = [active |-> g, candidate |-> h] /\ UNCHANGED <<chgs, pub, pubr, pins, gcop>>
    <3>1. igen' = [igen EXCEPT ![g] = new, ![head.active] = Retire(@, Revision)]
      BY <1>9 DEF ReleaseGeneration
    <3>2. [igen EXCEPT ![g] = new][h] = igen[h] BY <1>6, <1>1, <1>t
    <3> QED BY <1>9, <3>1, <3>2 DEF ReleaseGeneration
  <2> HIDE DEF new
  <2>3. /\ old \in GenRow /\ old.status = "retired" /\ old.built = igen[h].built
        /\ old.vectors = igen[h].vectors
    BY <1>2, <1>4
  <2> HIDE DEF old
  <2>4. gcop[g].finding = "none" => \A p \in new.built : pub[p] = "purged" \/ p \in new.vectors
    BY <1>3, <2>1
  <2>5. GenInv' BY <1>1, <1>5, <1>6, <1>7, <2>1, <2>2, <2>3, <2>4, Switched
  <2>6. igen'[g] = new BY <1>t, <1>6, <2>2
  <2> QED BY <1>5, <1>8, <2>1, <2>2, <2>5, <2>6 DEF ContentValid
<1>10. CASE Rollback(g)
  <2> DEFINE new == [CaughtUp(g) EXCEPT !.status = "active", !.window = FALSE]
             old == Retire(igen[h], igen[h].caught)
  <2>1. /\ new \in GenRow /\ new.status = "active" /\ new.built = CaughtUp(g).built
        /\ new.vectors = CaughtUp(g).vectors /\ new.chunks = CaughtUp(g).chunks
    BY <1>3 DEF GenRow
  <2>2. /\ igen' = [igen EXCEPT ![g] = new, ![h] = old]
        /\ head' = [active |-> g, candidate |-> h] /\ UNCHANGED <<chgs, pub, pubr, pins, gcop>>
    <3>1. igen' = [igen EXCEPT ![g] = new, ![head.active] = Retire(@, @.caught)]
      BY <1>10 DEF Rollback
    <3>2. [igen EXCEPT ![g] = new][h] = igen[h] BY <1>6, <1>1, <1>t
    <3> QED BY <1>10, <3>1, <3>2 DEF Rollback
  <2> HIDE DEF new
  <2>3. /\ old \in GenRow /\ old.status = "retired" /\ old.built = igen[h].built
        /\ old.vectors = igen[h].vectors
    <3>1. igen[h].caught \in 0..MaxRevision \cup {-1} BY <1>1 DEF GenRow
    <3> QED BY <1>4, <3>1
  <2> HIDE DEF old
  <2>4. gcop[g].finding = "none" => \A p \in new.built : pub[p] = "purged" \/ p \in new.vectors
    BY <1>3, <2>1
  <2>5. GenInv' BY <1>1, <1>5, <1>6, <1>7, <2>1, <2>2, <2>3, <2>4, Switched
  <2>6. igen'[g] = new BY <1>t, <1>6, <2>2
  <2> QED BY <1>5, <1>8, <2>1, <2>2, <2>5, <2>6 DEF ContentValid
<1> QED BY <1>9, <1>10

LEMMA ReferenceStep ==
    ASSUME GenInv, NEW r \in Readers, AcquireReference(r) \/ ReleaseReference(r)
    PROVE  GenInv'
<1>t. /\ chgs \in Seq(ChangeRow)
      /\ pub \in [Pubs -> {"none", "active", "retired", "purged"}]
      /\ pubr \in [Pubs -> Gens \cup {NoGen}] /\ igen \in [Gens -> GenRow]
      /\ head \in [active : Gens, candidate : Gens \cup {NoGen}]
      /\ pins \in [Readers -> Gens \cup {NoGen}] /\ gcop \in [Gens -> OpRow]
  BY GenRows DEF GenInv
<1>1. /\ \/ pins' = [pins EXCEPT ![r] = head.active] \/ pins' = [pins EXCEPT ![r] = NoGen]
      /\ UNCHANGED <<chgs, pub, pubr, igen, head, gcop>>
  BY DEF AcquireReference, ReleaseReference
<1>2. pins' \in [Readers -> Gens \cup {NoGen}] BY <1>t, <1>1
<1>3. GenTypeOK' BY <1>t, <1>1, <1>2, GenTyped
<1>4. LogSound' /\ StagedIsNew' /\ BuiltIsStored' BY <1>1, SameStores
<1>5. \A x \in Readers : pins'[x] \in {pins[x], head.active, NoGen} BY <1>t, <1>1
<1>6. HeadIsSound' BY <1>1 DEF GenInv, HeadIsSound
<1>7. GarbageIsOut' BY <1>1 DEF GenInv, GarbageIsOut
<1>8. CollectsUnreachable'
  <2> SUFFICES ASSUME NEW g \in Gens, gcop[g].checked \/ igen[g].status = "purged",
                      NEW x \in Readers
               PROVE  g \notin {head.active, head.candidate} /\ pins'[x] # g
    BY <1>1 DEF CollectsUnreachable
  <2>1. g \notin {head.active, head.candidate} /\ pins[x] # g BY DEF GenInv, CollectsUnreachable
  <2> QED BY <1>5, <2>1, GenerationsAssumption
<1> QED BY <1>3, <1>4, <1>6, <1>7, <1>8 DEF GenInv

LEMMA ReconcileStep ==
    ASSUME GenInv, ReconcileGenerations
    PROVE  GenInv'
<1>t. /\ chgs \in Seq(ChangeRow)
      /\ pub \in [Pubs -> {"none", "active", "retired", "purged"}]
      /\ pubr \in [Pubs -> Gens \cup {NoGen}] /\ igen \in [Gens -> GenRow]
      /\ head \in [active : Gens, candidate : Gens \cup {NoGen}]
      /\ pins \in [Readers -> Gens \cup {NoGen}] /\ gcop \in [Gens -> OpRow]
  BY GenRows DEF GenInv
<1>1. UNCHANGED <<chgs, pub, pubr, igen, head, pins>> BY DEF ReconcileGenerations
<1>2. gcop' = [g \in Gens |-> IF GcCandidate(g) /\ gcop[g].finding # "open"
                              THEN OpenFinding(gcop[g]) ELSE gcop[g]]
  BY DEF ReconcileGenerations
<1>3. 1 \in GcSteps BY GenerationsAssumption DEF GcSteps
<1>4. ASSUME NEW g \in Gens
      PROVE  \/ gcop'[g] = gcop[g]
             \/ /\ GcCandidate(g) /\ gcop'[g] \in OpRow /\ gcop'[g].finding = "open"
                /\ gcop'[g].op = "none" /\ ~gcop'[g].checked
  <2>1. gcop[g] \in OpRow BY <1>t
  <2>2. /\ OpenFinding(gcop[g]) \in OpRow /\ OpenFinding(gcop[g]).finding = "open"
        /\ OpenFinding(gcop[g]).op = "none" /\ ~OpenFinding(gcop[g]).checked
    BY <1>3, <2>1 DEF OpenFinding, OpRow
  <2> QED BY <1>2, <2>2
<1>5. gcop' \in [Gens -> OpRow] BY <1>t, <1>2, <1>4
<1>6. GenTypeOK' BY <1>t, <1>1, <1>5, GenTyped
<1>7. LogSound' /\ StagedIsNew' /\ BuiltIsStored' BY <1>1, <1>4, SameStores
<1>8. HeadIsSound' BY <1>1 DEF GenInv, HeadIsSound
<1>9. GarbageIsOut' BY <1>1, <1>4 DEF GenInv, GarbageIsOut, GcCandidate
<1>10. CollectsUnreachable' BY <1>1, <1>4 DEF GenInv, CollectsUnreachable
<1> QED BY <1>6, <1>7, <1>8, <1>9, <1>10 DEF GenInv

\* a collection looks before it purges, and again before it ends
LEMMA CollectStep ==
    ASSUME GenInv, NEW g \in Gens,
           RequestGc(g) \/ StartCompleteGc(g) \/ PurgeComponent(g) \/ FinishGc(g)
    PROVE  GenInv'
<1>t. /\ chgs \in Seq(ChangeRow)
      /\ pub \in [Pubs -> {"none", "active", "retired", "purged"}]
      /\ pubr \in [Pubs -> Gens \cup {NoGen}] /\ igen \in [Gens -> GenRow]
      /\ head \in [active : Gens, candidate : Gens \cup {NoGen}]
      /\ pins \in [Readers -> Gens \cup {NoGen}] /\ gcop \in [Gens -> OpRow]
  BY GenRows DEF GenInv
<1>0. gcop[g] \in OpRow /\ igen[g] \in GenRow BY <1>t
<1>1. UNCHANGED <<chgs, pub, pubr, head, pins>>
  BY DEF RequestGc, StartCompleteGc, PurgeComponent, FinishGc
\* the collection and the stores of other generations stand
<1>2. ASSUME NEW op \in OpRow, gcop' = [gcop EXCEPT ![g] = op],
             op.finding # "none", op.op # "none", gcop[g].finding # "none",
             op.checked => gcop[g].checked \/ ~Leased(g),
             NEW row \in GenRow, igen' = [igen EXCEPT ![g] = row],
             \/ row.status = igen[g].status
             \/ row.status = "purged" /\ ~Leased(g)
      PROVE  GenInv'
  <2>1. gcop'[g] = op /\ igen'[g] = row
        /\ \A h \in Gens : h # g => gcop'[h] = gcop[h] /\ igen'[h] = igen[h]
    BY <1>t, <1>2
  <2>2. igen[g].status \in {"retired", "purged"} /\ g # head.active /\ g # head.candidate
    BY <1>2 DEF GenInv, GarbageIsOut
  <2>3. GenTypeOK'
    <3>1. gcop' \in [Gens -> OpRow] /\ igen' \in [Gens -> GenRow] BY <1>t, <1>2
    <3> QED BY <1>t, <1>1, <3>1, GenTyped
  <2>4. LogSound' /\ StagedIsNew' BY <1>1 DEF GenInv, LogSound, StagedIsNew
  <2>5. row.status \in {"retired", "purged"} BY <1>2, <2>2
  <2>6. HeadIsSound'
    <3>1. head.candidate # NoGen => head.candidate \in Gens BY <1>t
    <3> QED BY <1>1, <2>1, <2>2, <2>5, <3>1 DEF GenInv, HeadIsSound
  <2>7. GarbageIsOut' BY <1>1, <1>2, <2>1, <2>2, <2>5 DEF GenInv, GarbageIsOut
  <2>8. CollectsUnreachable'
    BY <1>1, <1>2, <2>1, <2>2 DEF GenInv, CollectsUnreachable, Leased
  <2>9. BuiltIsStored' BY <1>1, <1>2, <2>1 DEF GenInv, BuiltIsStored
  <2> QED BY <2>3, <2>4, <2>6, <2>7, <2>8, <2>9 DEF GenInv
<1>3. igen = [igen EXCEPT ![g] = igen[g]] BY <1>t
<1>4. CASE RequestGc(g)
  <2> DEFINE answer == IF GcEligible(g) THEN "accepted" ELSE "blocked"
             op == [gcop[g] EXCEPT !.op = answer]
  <2>1. gcop' = [gcop EXCEPT ![g] = op] /\ gcop[g].finding = "open" /\ igen' = igen
    BY <1>4 DEF RequestGc
  <2>2. answer \in {"accepted", "blocked"} OBVIOUS
  <2> HIDE DEF answer
  <2>3. /\ op \in OpRow /\ op.finding = gcop[g].finding /\ op.op # "none"
        /\ op.checked = gcop[g].checked
    BY <1>0, <2>2 DEF OpRow
  <2> HIDE DEF op
  <2> QED BY <1>0, <1>2, <1>3, <2>1, <2>3
<1>5. CASE StartCompleteGc(g)
  <2> DEFINE op == [gcop[g] EXCEPT !.checked = TRUE]
  <2>1. /\ gcop' = [gcop EXCEPT ![g] = op] /\ gcop[g].op = "accepted" /\ ~Leased(g) /\ igen' = igen
    BY <1>5 DEF StartCompleteGc, GcEligible
  <2>2. gcop[g].finding # "none" BY <2>1 DEF GenInv, GarbageIsOut
  <2>3. op \in OpRow /\ op.finding = gcop[g].finding /\ op.op = gcop[g].op BY <1>0 DEF OpRow
  <2> HIDE DEF op
  <2> QED BY <1>0, <1>2, <1>3, <2>1, <2>2, <2>3
<1>6. CASE PurgeComponent(g)
  <2>1. gcop[g].checked /\ gcop[g].step <= Len(Components) BY <1>6 DEF PurgeComponent
  <2>2. gcop[g].finding # "none" /\ gcop[g].op # "none" BY <2>1 DEF GenInv, GarbageIsOut
  <2>3. Len(Components) \in Nat /\ gcop[g].step \in Nat
    BY <1>0, GenerationsAssumption DEF OpRow, GcSteps
  <2>4. CASE /\ gcop' = [gcop EXCEPT ![g].step = @ + 1]
             /\ igen' = IF Components[gcop[g].step] = "vector"
                        THEN [igen EXCEPT ![g].vectors = @ \ igen[g].chunks] ELSE igen
    <3> DEFINE next == gcop[g].step + 1
               op == [gcop[g] EXCEPT !.step = next]
               left == igen[g].vectors \ igen[g].chunks
               row == [igen[g] EXCEPT !.vectors = left]
    <3>1. next \in GcSteps BY <1>0, <2>1, <2>3 DEF GcSteps, OpRow
    <3>2. left \in SUBSET Pubs BY <1>0 DEF GenRow
    <3>3. gcop' = [gcop EXCEPT ![g] = op] BY <2>4
    <3>4. igen' = [igen EXCEPT ![g] = row] \/ igen' = igen BY <2>4
    <3> HIDE DEF next, left
    <3>5. /\ op \in OpRow /\ op.finding = gcop[g].finding /\ op.op = gcop[g].op
          /\ op.checked = gcop[g].checked
      BY <1>0, <3>1 DEF OpRow
    <3>6. row \in GenRow /\ row.status = igen[g].status BY <1>0, <3>2 DEF GenRow
    <3> HIDE DEF op, row
    <3> QED BY <1>0, <1>2, <1>3, <2>1, <2>2, <3>3, <3>4, <3>5, <3>6
  <2>5. CASE /\ gcop[g].faults > 0 /\ igen' = igen
             /\ gcop' = [gcop EXCEPT ![g].checked = FALSE, ![g].faults = @ - 1]
    <3> DEFINE faults == gcop[g].faults - 1
               op == [gcop[g] EXCEPT !.checked = FALSE, !.faults = faults]
    <3>1. faults \in 0..GcFaults BY <1>0, <2>5, GenerationsAssumption DEF OpRow
    <3>2. gcop' = [gcop EXCEPT ![g] = op] BY <1>t, <1>0, <2>5 DEF OpRow
    <3> HIDE DEF faults
    <3>3. op \in OpRow /\ op.finding = gcop[g].finding /\ op.op = gcop[g].op /\ ~op.checked
      BY <1>0, <3>1 DEF OpRow
    <3> HIDE DEF op
    <3> QED BY <1>0, <1>2, <1>3, <2>2, <2>5, <3>2, <3>3
  <2> QED BY <1>6, <2>4, <2>5 DEF PurgeComponent
<1>7. CASE FinishGc(g)
  <2>1. gcop[g].checked BY <1>7 DEF FinishGc
  <2>2. gcop[g].finding # "none" /\ gcop[g].op # "none" BY <2>1 DEF GenInv, GarbageIsOut
  <2>3. CASE GcEligible(g)
    <3> DEFINE op == [gcop[g] EXCEPT !.op = "purged", !.checked = FALSE, !.finding = "repaired"]
               row == [igen[g] EXCEPT !.status = "purged", !.chunks = {}]
    <3>1. gcop' = [gcop EXCEPT ![g] = op] /\ igen' = [igen EXCEPT ![g] = row]
      BY <1>t, <1>0, <1>7, <2>3 DEF FinishGc, GenRow, OpRow
    <3>2. op \in OpRow /\ op.finding = "repaired" /\ op.op = "purged" /\ ~op.checked
      BY <1>0 DEF OpRow
    <3>3. row \in GenRow /\ row.status = "purged" BY <1>0 DEF GenRow
    <3>4. ~Leased(g) BY <2>3 DEF GcEligible
    <3> HIDE DEF op, row
    <3> QED BY <1>2, <2>2, <3>1, <3>2, <3>3, <3>4
  <2>4. CASE ~GcEligible(g)
    <3> DEFINE op == [gcop[g] EXCEPT !.checked = FALSE]
    <3>1. gcop' = [gcop EXCEPT ![g] = op] /\ igen' = igen BY <1>7, <2>4 DEF FinishGc
    <3>2. op \in OpRow /\ op.finding = gcop[g].finding /\ op.op = gcop[g].op /\ ~op.checked
      BY <1>0 DEF OpRow
    <3> HIDE DEF op
    <3> QED BY <1>0, <1>2, <1>3, <2>2, <3>1, <3>2
  <2> QED BY <2>3, <2>4
<1> QED BY <1>4, <1>5, <1>6, <1>7

\* what moves the head is a switch
LEMMA GenStep == GenInv /\ [GenNext]_genVars => GenInv' /\ WholeSwitch
<1> SUFFICES ASSUME GenInv, [GenNext]_genVars
             PROVE  /\ GenInv'
                    /\ head'.active # head.active =>
                          /\ igen'[head'.active].chunks = Active
                          /\ Active \subseteq igen'[head'.active].vectors
  BY DEF WholeSwitch
<1>1. CASE UNCHANGED genVars
  <2>1. GenInv' = GenInv
    BY <1>1 DEF genVars, GenInv, GenTypeOK, LogSound, StagedIsNew, HeadIsSound, CollectsUnreachable,
                GarbageIsOut, BuiltIsStored, Docs, GcSteps
  <2> QED BY <1>1, <2>1 DEF genVars
<1>2. ASSUME NEW p \in Pubs,
             StagePublication(p) \/ CommitPublication(p) \/ AbortPublication(p) \/ PurgeContent(p)
      PROVE  GenInv' /\ head' = head
  BY <1>2, PublicationStep DEF StagePublication, CommitPublication, AbortPublication, PurgeContent
<1>3. ASSUME NEW d \in Docs, DeleteDocument(d) PROVE GenInv' /\ head' = head
  BY <1>3, DeleteStep DEF DeleteDocument
<1>4. ASSUME NEW g \in Gens, CreateStaging(g) \/ WindowCloses(g) PROVE GenInv' /\ head' = head
  BY <1>4, StagingStep DEF CreateStaging, WindowCloses
<1>5. ASSUME NEW g \in Gens,
             RequestGc(g) \/ StartCompleteGc(g) \/ PurgeComponent(g) \/ FinishGc(g)
      PROVE  GenInv' /\ head' = head
  BY <1>5, CollectStep DEF RequestGc, StartCompleteGc, PurgeComponent, FinishGc
<1>6. ASSUME NEW r \in Readers, AcquireReference(r) \/ ReleaseReference(r)
      PROVE  GenInv' /\ head' = head
  BY <1>6, ReferenceStep DEF AcquireReference, ReleaseReference
<1>7. ASSUME ReconcileGenerations PROVE GenInv' /\ head' = head
  BY <1>7, ReconcileStep DEF ReconcileGenerations
<1>8. ASSUME NEW g \in Gens, ReleaseGeneration(g) \/ Rollback(g)
      PROVE  /\ GenInv'
             /\ igen'[head'.active].chunks = Active /\ Active \subseteq igen'[head'.active].vectors
  BY <1>8, Switches
<1> QED BY <1>1, <1>2, <1>3, <1>4, <1>5, <1>6, <1>7, <1>8 DEF GenNext

LEMMA GenPromise == GenInv => GenerationsSafe
BY DEF GenInv, GenerationsSafe

\* What may be reached is not collected: a generation that is being purged is
\* neither in service nor the candidate of a rollback nor pinned by a request,
\* and the head names the one generation in service, for any generations,
\* publications, readers and components (handoff, complete_index_generation_gc).
THEOREM Unreachable == GenSpec => []GenerationsSafe
<1>1. GenInv /\ [GenNext]_genVars => GenInv' BY GenStep
<1> QED BY <1>1, GenPromise, InitGen, PTL DEF GenSpec

\* A switch is whole: no release and no rollback leaves out a publication that was
\* committed, and what is in service is in the vector store, however commits,
\* deletions and reconciliations fall between staging and switch
\* (_validate_generation_content, under the lock of the head).
THEOREM Switching == GenSpec => SwitchIsWhole
<1>1. GenInv /\ [GenNext]_genVars => GenInv' BY GenStep
<1>2. GenInv /\ [GenNext]_genVars => WholeSwitch BY GenStep
<1> QED BY <1>1, <1>2, InitGen, PTL DEF GenSpec, SwitchIsWhole

-----------------------------------------------------------------------------
(* Releases of retrieval profiles *)

GateRow == [from : 1..GateInstants, to : 0..GateInstants, limits : Metrics,
            severity : [ReleaseMetrics -> {"blocking", "advisory"}]]
StagedRow ==
    [state : {"staged", "released"}, generation : ReleaseGens, gate : 1..GateVersions, suite : Metrics,
     binding : 0..MaxManifest, metrics : Metrics, baseline : Seq(Metrics), judged : 0..MaxManifest]
JudgingRow == [busy : {TRUE}, baseline : Seq(Metrics), on : 0..MaxManifest]

\* Gates follow each other without overlap, and the last one is open
GatesInOrder ==
    /\ \A i \in DOMAIN gates : gates[i].to # StillOpen => gates[i].from < gates[i].to
    /\ \A i, j \in DOMAIN gates : i < j => gates[i].to # StillOpen /\ gates[i].to <= gates[j].from
    /\ gates # << >> => gates[Len(gates)].to = StillOpen
    /\ Len(gates) <= GateVersions

\* Since the first gate took effect there has always been one
NoGap == \A at \in 1..GateInstants : gates # << >> /\ at >= gates[1].from => GatesAt(at) # {}

\* A release is under a gate that exists, and a judgement is about the components
\* the release was staged for
GateExists == \A r \in ReleaseIds : releases[r].state # "none" => releases[r].gate \in DOMAIN gates
JudgesWhatIsStaged ==
    \A r \in ReleaseIds : judging[r].busy =>
        releases[r].state # "none" /\ judging[r].on = releases[r].binding
JudgedAsStaged == \A r \in Released : releases[r].judged = releases[r].binding

ReleaseInv ==
    /\ ReleasesTypeOK /\ GatesInOrder /\ NoGap
    /\ GateExists /\ ReleasedMeetsItsGate /\ JudgesWhatIsStaged /\ JudgedAsStaged

LEMMA ReleaseRows ==
    ReleasesTypeOK <=> /\ gates \in Seq(GateRow) /\ releases \in [ReleaseIds -> {NotStaged} \cup StagedRow]
                       /\ manifest \in [ReleaseGens -> 0..MaxManifest]
                       /\ judging \in [ReleaseIds -> {NotJudging} \cup JudgingRow]
BY DEF ReleasesTypeOK, GateRow, StagedRow, JudgingRow

LEMMA ReleasesTyped ==
    ASSUME gates' \in Seq(GateRow), releases' \in [ReleaseIds -> {NotStaged} \cup StagedRow],
           manifest' \in [ReleaseGens -> 0..MaxManifest],
           judging' \in [ReleaseIds -> {NotJudging} \cup JudgingRow]
    PROVE  ReleasesTypeOK'
BY DEF ReleasesTypeOK, GateRow, StagedRow, JudgingRow

\* a finite set of numbers has a greatest one
LEMMA Greatest ==
    ASSUME NEW S \in SUBSET Nat, IsFiniteSet(S), S # {}
    PROVE  Max(S) \in S
<1> DEFINE above(n) == {k \in S : n < k}
           T == {above(n) : n \in S}
           R == StrictSubsetOrdering(S)
<1>1. IsWellFoundedOn(R, FiniteSubsetsOf(S)) BY FS_StrictSubsetOrderingWellFounded
<1>2. T \subseteq FiniteSubsetsOf(S)
  <2>1. \A n \in S : above(n) \subseteq S /\ IsFiniteSet(above(n)) BY FS_Subset
  <2> QED BY <2>1 DEF FiniteSubsetsOf
<1>3. T # {} OBVIOUS
<1> HIDE DEF R, T
<1>4. \E x \in T : \A y \in T : <<y, x>> \notin R BY <1>1, <1>2, <1>3, WFMin
<1>5. PICK m \in S : \A n \in S : <<above(n), above(m)>> \notin R BY <1>4 DEF T
<1>6. ASSUME NEW n \in S, m < n PROVE FALSE
  <2>0. n \in Nat /\ m \in Nat /\ ~(n < n) /\ \A k \in S : n < k => m < k BY <1>6
  <2>1. above(n) \subseteq above(m) /\ n \in above(m) /\ n \notin above(n)
    <3>1. above(n) \subseteq above(m) BY <2>0
    <3>2. n \in above(m) BY <1>6
    <3>3. n \notin above(n) BY <2>0
    <3> QED BY <3>1, <3>2, <3>3
  <2>2. above(n) \in SUBSET S /\ above(m) \in SUBSET S OBVIOUS
  <2>3. <<above(n), above(m)>> \in R BY <2>1, <2>2 DEF R, StrictSubsetOrdering
  <2> QED BY <1>5, <2>3
<1>7. \A n \in S : m >= n BY <1>6
<1> QED BY <1>7 DEF Max

LEMMA InitRelease == ReleaseInit => ReleaseInv
<1> SUFFICES ASSUME ReleaseInit PROVE ReleaseInv OBVIOUS
<1>1. gates = << >> /\ DOMAIN gates = {} /\ Len(gates) = 0 /\ gates \in Seq(GateRow)
  BY DEF ReleaseInit
<1>2. \A r \in ReleaseIds : releases[r] = NotStaged /\ judging[r] = NotJudging BY DEF ReleaseInit
<1>3. NotStaged.state = "none" /\ ~NotJudging.busy BY DEF NotStaged, NotJudging
<1>4. ReleasesTypeOK
  <2>1. 0 \in 0..MaxManifest BY ReleasesAssumption
  <2> QED BY <1>1, <2>1, ReleaseRows DEF ReleaseInit
<1>5. GatesInOrder /\ NoGap BY <1>1, ReleasesAssumption DEF GatesInOrder, NoGap
<1>6. GateExists /\ ReleasedMeetsItsGate /\ JudgesWhatIsStaged /\ JudgedAsStaged
  BY <1>2, <1>3 DEF GateExists, ReleasedMeetsItsGate, JudgesWhatIsStaged, JudgedAsStaged, Released
<1> QED BY <1>4, <1>5, <1>6 DEF ReleaseInv

\* a version is registered after the one it closes
LEMMA RegisterStep ==
    ASSUME ReleaseInv, NEW from \in 1..GateInstants, NEW shape \in GateShapes, RegisterGate(from, shape)
    PROVE  ReleaseInv'
<1>t. /\ gates \in Seq(GateRow) /\ releases \in [ReleaseIds -> {NotStaged} \cup StagedRow]
      /\ manifest \in [ReleaseGens -> 0..MaxManifest]
      /\ judging \in [ReleaseIds -> {NotJudging} \cup JudgingRow]
  BY ReleaseRows DEF ReleaseInv
<1> DEFINE last == Len(gates)
           row(i) == IF gates[i].to = StillOpen THEN [gates[i] EXCEPT !.to = from] ELSE gates[i]
           closed == [i \in DOMAIN gates |-> row(i)]
           new == [from |-> from, to |-> StillOpen, limits |-> shape.limits, severity |-> shape.severity]
<1>0. last \in Nat /\ DOMAIN gates = 1..last /\ from \in Nat BY <1>t, ReleasesAssumption
<1>1. /\ gates' = Append(closed, new) /\ last < GateVersions /\ MaySupersede(from)
      /\ UNCHANGED <<releases, manifest, judging>>
  BY DEF RegisterGate
<1>2. ASSUME NEW i \in 1..last
      PROVE  /\ row(i) \in GateRow /\ row(i).from = gates[i].from
             /\ row(i).limits = gates[i].limits /\ row(i).severity = gates[i].severity
             /\ row(i).to = IF gates[i].to = StillOpen THEN from ELSE gates[i].to
             /\ gates[i] \in GateRow /\ gates[i].from \in Nat /\ gates[i].to \in Nat
  <2>1. gates[i] \in GateRow BY <1>t, <1>0
  <2>2. from \in 0..GateInstants BY <1>0
  <2>3. CASE gates[i].to = StillOpen BY <2>1, <2>2, <2>3 DEF GateRow
  <2>4. CASE gates[i].to # StillOpen BY <2>1, <2>4 DEF GateRow
  <2> QED BY <2>3, <2>4
<1>3. new \in GateRow /\ new.from = from /\ new.to = StillOpen
  <2>1. shape.limits \in Metrics /\ shape.severity \in [ReleaseMetrics -> {"blocking", "advisory"}]
    BY ReleasesAssumption DEF Metrics
  <2>2. 0 \in 0..GateInstants BY ReleasesAssumption
  <2> QED BY <2>1, <2>2 DEF GateRow, StillOpen
<1> HIDE DEF row, new
<1>4. closed \in Seq(GateRow) /\ Len(closed) = last /\ \A i \in 1..last : closed[i] = row(i)
  <2>1. closed \in [1..last -> GateRow] BY <1>0, <1>2
  <2> HIDE DEF closed
  <2>2. closed \in Seq(GateRow) /\ DOMAIN closed = 1..last BY <1>0, <2>1, SeqDef
  <2>3. Len(closed) = last BY <1>0, <2>2, LenProperties
  <2> QED BY <1>0, <2>2, <2>3 DEF closed
<1> HIDE DEF closed
<1>5. /\ gates' \in Seq(GateRow) /\ Len(gates') = last + 1 /\ DOMAIN gates' = 1..(last + 1)
      /\ gates'[last + 1] = new /\ gates' # << >>
      /\ \A i \in 1..last : gates'[i] = row(i)
  BY <1>0, <1>1, <1>3, <1>4, AppendProperties
<1>6. ReleasesTypeOK' BY <1>t, <1>1, <1>5, ReleasesTyped
\* the last version starts before the new one
<1>7. last # 0 => gates[last].to = StillOpen /\ gates[last].from < from
  BY <1>0, <1>1, <1>2 DEF ReleaseInv, GatesInOrder, MaySupersede
<1>8. ASSUME NEW i \in 1..last, i # last
      PROVE  gates[i].to # StillOpen /\ gates[i].to <= gates[last].from /\ gates'[i].to = gates[i].to
  <2> HIDE DEF last
  <2>1. i \in Nat /\ i <= last /\ last >= 1 BY <1>0
  <2>4. i < last BY <1>0, <1>8, <2>1
  <2>5. last \in 1..last BY <1>0, <2>1
  <2>2. gates[i].to # StillOpen /\ gates[i].to <= gates[last].from
    BY <1>0, <2>4, <2>5 DEF ReleaseInv, GatesInOrder
  <2>3. gates'[i] = row(i) BY <1>5
  <2> QED BY <1>2, <2>2, <2>3
<1>9. GatesInOrder'
  <2>1. ASSUME NEW i \in DOMAIN gates', gates'[i].to # StillOpen PROVE gates'[i].from < gates'[i].to
    <3>1. i \in 1..last BY <1>0, <1>3, <1>5, <2>1
    <3>2. CASE i = last BY <1>2, <1>5, <1>7, <3>1, <3>2
    <3>3. CASE i # last BY <1>0, <1>2, <1>5, <1>8, <3>1, <3>3 DEF ReleaseInv, GatesInOrder
    <3> QED BY <3>2, <3>3
  <2>2. ASSUME NEW i \in DOMAIN gates', NEW j \in DOMAIN gates', i < j
        PROVE  gates'[i].to # StillOpen /\ gates'[i].to <= gates'[j].from
    <3>1. i \in 1..last BY <1>0, <1>5, <2>2
    <3>2. CASE i = last
      <4>1. j = last + 1 BY <1>0, <1>5, <2>2, <3>2
      <4>2. gates'[i].to = from BY <1>2, <1>5, <1>7, <3>1, <3>2
      <4> QED BY <1>0, <1>3, <1>5, <4>1, <4>2 DEF StillOpen
    <3>3. CASE i # last /\ j = last + 1
      <4>1. gates[i].to # StillOpen /\ gates[i].to <= gates[last].from /\ gates'[i].to = gates[i].to
        BY <1>8, <3>1, <3>3
      <4>2. last \in 1..last /\ last # 0 BY <1>0, <3>1
      <4>3. gates[last].from < from BY <1>7, <4>2
      <4>4. gates[last].from \in Nat /\ gates[i].to \in Nat BY <1>2, <3>1, <4>2
      <4>5. gates'[j].from = from BY <1>3, <1>5, <3>3
      <4> QED BY <1>0, <4>1, <4>3, <4>4, <4>5
    <3>4. CASE i # last /\ j # last + 1
      <4>1. j \in 1..last BY <1>0, <1>5, <3>4
      <4> QED BY <1>0, <1>2, <1>5, <1>8, <2>2, <3>1, <3>4, <4>1 DEF ReleaseInv, GatesInOrder
    <3> QED BY <3>2, <3>3, <3>4
  <2> QED BY <1>0, <1>1, <1>3, <1>5, <2>1, <2>2, ReleasesAssumption DEF GatesInOrder
<1>10. NoGap'
  <2> SUFFICES ASSUME NEW at \in 1..GateInstants, at >= gates'[1].from PROVE GatesAt(at)' # {}
    BY DEF NoGap
  <2>0. at \in Nat BY ReleasesAssumption
  <2>1. CASE at >= from
    <3>1. last + 1 \in GatesAt(at)' BY <1>0, <1>3, <1>5, <2>1 DEF GatesAt
    <3> QED BY <3>1
  <2>2. CASE at < from
    <3>1. last # 0 BY <1>0, <1>3, <1>5, <2>0, <2>2
    <3>2. gates'[1].from = gates[1].from /\ gates # << >> BY <1>0, <1>2, <1>5, <3>1
    <3>3. PICK i \in GatesAt(at) : TRUE BY <3>2 DEF ReleaseInv, NoGap
    <3>4. i \in 1..last BY <1>0, <3>3 DEF GatesAt
    <3>5. gates[i].from <= at /\ (gates[i].to = StillOpen \/ gates[i].to > at) BY <3>3 DEF GatesAt
    <3>6. gates'[i].from <= at /\ gates'[i].to > at
      BY <1>0, <1>2, <1>5, <2>0, <2>2, <3>4, <3>5
    <3>7. i \in GatesAt(at)' BY <1>0, <1>5, <3>4, <3>6 DEF GatesAt
    <3> QED BY <3>7
  <2> QED BY <1>0, <2>0, <2>1, <2>2
<1>11. \A i \in DOMAIN gates : /\ i \in DOMAIN gates' /\ gates'[i].limits = gates[i].limits
                               /\ gates'[i].severity = gates[i].severity
  BY <1>0, <1>2, <1>5
<1>12. GateExists' BY <1>1, <1>11 DEF ReleaseInv, GateExists
<1>13. ReleasedMeetsItsGate'
  <2>1. \A r \in Released : releases[r].gate \in DOMAIN gates
    BY DEF ReleaseInv, GateExists, Released
  <2> QED BY <1>1, <1>11, <2>1 DEF ReleaseInv, ReleasedMeetsItsGate, Released
<1>14. JudgesWhatIsStaged' /\ JudgedAsStaged'
  BY <1>1 DEF ReleaseInv, JudgesWhatIsStaged, JudgedAsStaged, Released
<1> QED BY <1>6, <1>9, <1>10, <1>12, <1>13, <1>14 DEF ReleaseInv

LEMMA GatesStand ==
    ASSUME ReleaseInv, UNCHANGED gates
    PROVE  GatesInOrder' /\ NoGap'
BY DEF ReleaseInv, GatesInOrder, NoGap, GatesAt

LEMMA StageStep ==
    ASSUME ReleaseInv, NEW r \in ReleaseIds, NEW g \in ReleaseGens, NEW gate \in DOMAIN gates,
           NEW suite \in Suites, Stage(r, g, gate, suite)
    PROVE  ReleaseInv'
<1>t. /\ gates \in Seq(GateRow) /\ releases \in [ReleaseIds -> {NotStaged} \cup StagedRow]
      /\ manifest \in [ReleaseGens -> 0..MaxManifest]
      /\ judging \in [ReleaseIds -> {NotJudging} \cup JudgingRow]
  BY ReleaseRows DEF ReleaseInv
<1> DEFINE row == [state |-> "staged", generation |-> g, gate |-> gate, suite |-> suite,
                   binding |-> manifest[g], metrics |-> suite, baseline |-> << >>, judged |-> 0]
<1>1. releases' = [releases EXCEPT ![r] = row] /\ UNCHANGED <<gates, manifest, judging>>
      /\ releases[r].state = "none"
  BY DEF Stage
<1>2. row \in StagedRow
  <2>1. suite \in Metrics BY ReleasesAssumption DEF Metrics
  <2>2. gate \in 1..GateVersions
    BY <1>t, ReleasesAssumption DEF ReleaseInv, GatesInOrder
  <2>3. 0 \in 0..MaxManifest /\ << >> \in Seq(Metrics) BY ReleasesAssumption
  <2> QED BY <1>t, <2>1, <2>2, <2>3 DEF StagedRow
<1>3. row.state = "staged" /\ row.gate = gate OBVIOUS
<1> HIDE DEF row
<1>4. ReleasesTypeOK' BY <1>t, <1>1, <1>2, ReleasesTyped
<1>5. GatesInOrder' /\ NoGap' BY <1>1, GatesStand
<1>6. releases'[r] = row /\ \A q \in ReleaseIds : q # r => releases'[q] = releases[q]
  BY <1>t, <1>1
<1>7. GateExists' BY <1>1, <1>3, <1>6 DEF ReleaseInv, GateExists
<1>8. \A q \in ReleaseIds : releases'[q].state = "released" =>
         releases[q].state = "released" /\ releases'[q] = releases[q]
  BY <1>3, <1>6
<1>9. ReleasedMeetsItsGate' /\ JudgedAsStaged'
  BY <1>1, <1>8 DEF ReleaseInv, ReleasedMeetsItsGate, JudgedAsStaged, Released
<1>10. JudgesWhatIsStaged' BY <1>1, <1>6 DEF ReleaseInv, JudgesWhatIsStaged
<1> QED BY <1>4, <1>5, <1>7, <1>9, <1>10 DEF ReleaseInv

LEMMA BaselineTyped ==
    ASSUME ReleaseInv, NEW r \in ReleaseIds
    PROVE  BaselineOf(r) \in Seq(Metrics)
<1>1. CASE Baselines(r) = {} BY <1>1 DEF BaselineOf
<1>2. CASE Baselines(r) # {}
  <2>1. Baselines(r) \subseteq ReleaseIds /\ ReleaseIds \subseteq Nat /\ IsFiniteSet(ReleaseIds)
    BY ReleasesAssumption DEF Baselines, Released
  <2>2. IsFiniteSet(Baselines(r)) BY <2>1, FS_Subset
  <2>3. Max(Baselines(r)) \in Baselines(r) BY <1>2, <2>1, <2>2, Greatest
  <2> DEFINE b == Max(Baselines(r))
  <2>4. b \in ReleaseIds /\ releases[b].state = "released" BY <2>3 DEF Baselines, Released
  <2>5. releases[b] \in {NotStaged} \cup StagedRow BY <2>4, ReleaseRows DEF ReleaseInv
  <2>6. releases[b] \in StagedRow BY <2>4, <2>5 DEF NotStaged
  <2>7. releases[b].metrics \in Metrics BY <2>6 DEF StagedRow
  <2> HIDE DEF b
  <2>8. <<releases[b].metrics>> \in Seq(Metrics) BY <2>7
  <2> QED BY <1>2, <2>8 DEF BaselineOf, b
<1> QED BY <1>1, <1>2

LEMMA JudgementBegins ==
    ASSUME ReleaseInv, NEW r \in ReleaseIds, BeginJudgement(r)
    PROVE  ReleaseInv'
<1>t. /\ gates \in Seq(GateRow) /\ releases \in [ReleaseIds -> {NotStaged} \cup StagedRow]
      /\ manifest \in [ReleaseGens -> 0..MaxManifest]
      /\ judging \in [ReleaseIds -> {NotJudging} \cup JudgingRow]
  BY ReleaseRows DEF ReleaseInv
<1> DEFINE row == [busy |-> TRUE, baseline |-> BaselineOf(r), on |-> manifest[releases[r].generation]]
<1>1. /\ judging' = [judging EXCEPT ![r] = row] /\ UNCHANGED <<gates, releases, manifest>>
      /\ releases[r].state = "staged" /\ releases[r].binding = manifest[releases[r].generation]
  BY DEF BeginJudgement, Staged, StillBound
<1>2. releases[r] \in StagedRow BY <1>t, <1>1 DEF NotStaged
<1>3. row \in JudgingRow /\ row.on = releases[r].binding
  <2>1. releases[r].binding \in 0..MaxManifest BY <1>2 DEF StagedRow
  <2>2. BaselineOf(r) \in Seq(Metrics) BY BaselineTyped
  <2> QED BY <1>1, <2>1, <2>2 DEF JudgingRow
<1> HIDE DEF row
<1>4. ReleasesTypeOK' BY <1>t, <1>1, <1>3, ReleasesTyped
<1>5. GatesInOrder' /\ NoGap' BY <1>1, GatesStand
<1>6. judging'[r] = row /\ \A q \in ReleaseIds : q # r => judging'[q] = judging[q]
  BY <1>t, <1>1
<1>7. JudgesWhatIsStaged' BY <1>1, <1>3, <1>6 DEF ReleaseInv, JudgesWhatIsStaged
<1>8. GateExists' /\ ReleasedMeetsItsGate' /\ JudgedAsStaged'
  BY <1>1 DEF ReleaseInv, GateExists, ReleasedMeetsItsGate, JudgedAsStaged, Released
<1> QED BY <1>4, <1>5, <1>7, <1>8 DEF ReleaseInv

LEMMA JudgementEnds ==
    ASSUME ReleaseInv, NEW r \in ReleaseIds, NEW metrics \in [ReleaseMetrics -> Scores],
           EndJudgement(r, metrics)
    PROVE  ReleaseInv'
<1>t. /\ gates \in Seq(GateRow) /\ releases \in [ReleaseIds -> {NotStaged} \cup StagedRow]
      /\ manifest \in [ReleaseGens -> 0..MaxManifest]
      /\ judging \in [ReleaseIds -> {NotJudging} \cup JudgingRow]
  BY ReleaseRows DEF ReleaseInv
<1>1. judging[r].busy /\ judging' = [judging EXCEPT ![r] = NotJudging] /\ UNCHANGED <<gates, manifest>>
  BY DEF EndJudgement
<1>2. judging[r] \in JudgingRow BY <1>t, <1>1 DEF NotJudging
<1>3. GatesInOrder' /\ NoGap' BY <1>1, GatesStand
<1>4. /\ judging' \in [ReleaseIds -> {NotJudging} \cup JudgingRow]
      /\ \A q \in ReleaseIds : judging'[q].busy => judging'[q] = judging[q] /\ q # r
  BY <1>t, <1>1 DEF NotJudging
<1>5. CASE ~(Passes(r, metrics, judging[r].baseline) /\ r \in Staged)
  <2>1. UNCHANGED releases BY <1>5 DEF EndJudgement
  <2>2. ReleasesTypeOK' BY <1>t, <1>1, <1>4, <2>1, ReleasesTyped
  <2>3. JudgesWhatIsStaged' BY <1>4, <2>1 DEF ReleaseInv, JudgesWhatIsStaged
  <2>4. GateExists' /\ ReleasedMeetsItsGate' /\ JudgedAsStaged'
    BY <1>1, <2>1 DEF ReleaseInv, GateExists, ReleasedMeetsItsGate, JudgedAsStaged, Released
  <2> QED BY <1>3, <2>2, <2>3, <2>4 DEF ReleaseInv
<1>6. CASE Passes(r, metrics, judging[r].baseline) /\ r \in Staged
  <2> DEFINE row == [releases[r] EXCEPT !.state = "released", !.metrics = metrics,
                                        !.baseline = judging[r].baseline, !.judged = judging[r].on]
  <2>1. releases[r].state = "staged" BY <1>6 DEF Staged
  <2>2. releases[r] \in StagedRow BY <1>t, <2>1 DEF NotStaged
  <2>3. judging[r].baseline \in Seq(Metrics) /\ judging[r].on \in 0..MaxManifest
    BY <1>2 DEF JudgingRow
  <2>4. /\ row \in StagedRow /\ row.state = "released" /\ row.metrics = metrics
        /\ row.baseline = judging[r].baseline /\ row.judged = judging[r].on
        /\ row.gate = releases[r].gate /\ row.binding = releases[r].binding
    BY <2>2, <2>3 DEF StagedRow, Metrics
  <2>5. releases' = [releases EXCEPT ![r] = row]
    <3>1. releases' = [releases EXCEPT ![r].state = "released", ![r].metrics = metrics,
                                       ![r].baseline = judging[r].baseline,
                                       ![r].judged = judging[r].on]
      BY <1>6 DEF EndJudgement
    <3> QED BY <1>t, <3>1
  <2> HIDE DEF row
  <2>6. releases'[r] = row /\ \A q \in ReleaseIds : q # r => releases'[q] = releases[q]
    BY <1>t, <2>5
  <2>7. ReleasesTypeOK' BY <1>t, <1>1, <1>4, <2>4, <2>5, ReleasesTyped
  <2>8. GateExists' BY <1>1, <2>1, <2>4, <2>6 DEF ReleaseInv, GateExists
  <2>9. JudgesWhatIsStaged' BY <1>4, <2>6 DEF ReleaseInv, JudgesWhatIsStaged
  <2>10. JudgedAsStaged'
    BY <1>1, <2>4, <2>6 DEF ReleaseInv, JudgedAsStaged, JudgesWhatIsStaged, Released
  <2>11. ReleasedMeetsItsGate'
    <3> SUFFICES ASSUME NEW q \in ReleaseIds, releases'[q].state = "released", NEW m \in ReleaseMetrics,
                        gates[releases'[q].gate].severity[m] = "blocking"
                 PROVE  /\ ~Worse(m, releases'[q].metrics[m], gates[releases'[q].gate].limits[m])
                        /\ releases'[q].baseline # << >> =>
                              ~Regressed(m, releases'[q].metrics[m], releases'[q].baseline[1][m])
      BY <1>1 DEF ReleasedMeetsItsGate, Released
    <3>1. CASE q # r
      BY <2>6, <3>1 DEF ReleaseInv, ReleasedMeetsItsGate, Released
    <3>2. CASE q = r
      <4>1. m \notin Violations(r, metrics, judging[r].baseline)
        BY <1>6, <2>4, <2>6, <3>2 DEF Passes
      <4>2. /\ ~Worse(m, metrics[m], gates[releases[r].gate].limits[m])
            /\ judging[r].baseline # << >> => ~Regressed(m, metrics[m], judging[r].baseline[1][m])
        BY <4>1 DEF Violations
      <4> QED BY <2>4, <2>6, <3>2, <4>2
    <3> QED BY <3>1, <3>2
  <2> QED BY <1>3, <2>7, <2>8, <2>9, <2>10, <2>11 DEF ReleaseInv
<1> QED BY <1>5, <1>6

LEMMA ReleaseStep == ReleaseInv /\ [ReleaseNext]_releaseVars => ReleaseInv'
<1> SUFFICES ASSUME ReleaseInv, [ReleaseNext]_releaseVars PROVE ReleaseInv' OBVIOUS
<1>1. CASE UNCHANGED releaseVars
  <2>1. GatesInOrder' /\ NoGap' BY <1>1, GatesStand DEF releaseVars
  <2> QED BY <1>1, <2>1 DEF releaseVars, ReleaseInv, ReleasesTypeOK, GateExists, ReleasedMeetsItsGate,
                       JudgesWhatIsStaged, JudgedAsStaged, Released
<1>2. ASSUME NEW g \in ReleaseGens, ComponentsChange(g) PROVE ReleaseInv'
  <2>1. /\ manifest' = [manifest EXCEPT ![g] = manifest[g] + 1] /\ manifest[g] < MaxManifest
        /\ UNCHANGED <<gates, releases, judging>>
    BY <1>2 DEF ComponentsChange
  <2>2. manifest \in [ReleaseGens -> 0..MaxManifest] BY DEF ReleaseInv, ReleasesTypeOK
  <2>3. manifest[g] + 1 \in 0..MaxManifest BY <2>1, <2>2, ReleasesAssumption
  <2>4. ReleasesTypeOK'
    BY <2>1, <2>2, <2>3 DEF ReleaseInv, ReleasesTypeOK
  <2>5. GatesInOrder' /\ NoGap' BY <2>1, GatesStand
  <2> QED BY <2>1, <2>4, <2>5 DEF ReleaseInv, GateExists, ReleasedMeetsItsGate, JudgesWhatIsStaged,
                                  JudgedAsStaged, Released
<1> QED BY <1>1, <1>2, RegisterStep, StageStep, JudgementBegins, JudgementEnds DEF ReleaseNext

\* one gate at most is in force at an instant
LEMMA OneGate == ReleaseInv => OneGateInForce
<1> SUFFICES ASSUME ReleaseInv PROVE OneGateInForce OBVIOUS
<1>t. gates \in Seq(GateRow) /\ DOMAIN gates = 1..Len(gates)
  BY ReleaseRows DEF ReleaseInv
<1>1. ASSUME NEW at \in 1..GateInstants, NEW i \in GatesAt(at), NEW j \in GatesAt(at) PROVE i = j
  <2>1. i \in 1..Len(gates) /\ j \in 1..Len(gates) BY <1>t DEF GatesAt
  <2>2. gates[i] \in GateRow /\ gates[j] \in GateRow BY <1>t, <2>1
  <2>3. /\ gates[i].from \in Nat /\ gates[j].from \in Nat /\ gates[i].to \in Nat /\ gates[j].to \in Nat
    BY <2>2, ReleasesAssumption DEF GateRow
  <2>4. /\ gates[i].from <= at /\ (gates[i].to = StillOpen \/ gates[i].to > at)
        /\ gates[j].from <= at /\ (gates[j].to = StillOpen \/ gates[j].to > at)
    BY DEF GatesAt
  <2>5. at \in Nat BY ReleasesAssumption
  <2>6. ~(i < j) BY <1>t, <2>1, <2>3, <2>4, <2>5 DEF ReleaseInv, GatesInOrder
  <2>7. ~(j < i) BY <1>t, <2>1, <2>3, <2>4, <2>5 DEF ReleaseInv, GatesInOrder
  <2> QED BY <1>t, <2>1, <2>6, <2>7
<1>2. ASSUME NEW at \in 1..GateInstants PROVE Cardinality(GatesAt(at)) <= 1
  <2>1. CASE GatesAt(at) = {} BY <2>1, FS_EmptySet
  <2>2. CASE GatesAt(at) # {}
    <3>1. PICK i \in GatesAt(at) : TRUE BY <2>2
    <3>2. GatesAt(at) = {i} BY <1>1, <3>1
    <3>3. Cardinality({i}) = 1 BY FS_Singleton
    <3> QED BY <3>2, <3>3
  <2> QED BY <2>1, <2>2
<1>3. ASSUME NEW at \in 1..GateInstants, gates # << >>, at >= gates[1].from
      PROVE  GatesAt(at) = {GateAt(at)}
  <2>1. PICK i \in GatesAt(at) : TRUE BY <1>3 DEF ReleaseInv, NoGap
  <2>2. GatesAt(at) = {i} BY <1>1, <2>1
  <2>3. i \in Nat /\ gates[i] \in GateRow BY <1>t, <2>1 DEF GatesAt
  <2>4. gates[i].from \in Nat BY <2>3, ReleasesAssumption DEF GateRow
  <2>5. {k \in GatesAt(at) : \A j \in GatesAt(at) : gates[j].from <= gates[k].from} = {i}
    BY <2>2, <2>4
  <2>6. Max({i}) = i BY <2>3 DEF Max
  <2> QED BY <2>2, <2>5, <2>6 DEF GateAt
<1> QED BY <1>2, <1>3 DEF ReleaseInv, GatesInOrder, OneGateInForce

LEMMA ReleasePromise == ReleaseInv => ReleasesSafe
<1> SUFFICES ASSUME ReleaseInv PROVE JudgedOnItsComponents BY OneGate DEF ReleaseInv, ReleasesSafe
<1> QED BY DEF ReleaseInv, JudgedAsStaged, JudgedOnItsComponents, IsReleasedForGeneration, StillBound

\* One gate version is in force at a time and resolve finds it; what is released
\* meets the gate it was staged under and was measured on the components that it
\* was staged for, whatever is registered or replaced in the meantime, for any
\* gates, releases and scores (register, release, is_released_for_generation).
THEOREM Judged == ReleaseSpec => []ReleasesSafe
BY ReleasePromise, InitRelease, ReleaseStep, PTL DEF ReleaseSpec

-----------------------------------------------------------------------------
(* Builds of the public graph *)

RunRow ==
    [state : {"none", "queued", "running"} \cup Ended, attempt : 0..MaxAttempt, live : BOOLEAN,
     granted : BOOLEAN, rev : 0..MaxSource, receipt : 0..MaxAttempt, made : 0..Cardinality(Creators),
     notices : 0..2, failure : Failures]
KeyRow == [state : {"none", "reserved", "done", "refused", "held"}, by : Creators \cup {NoBuild}]
CreatorRow == [b : Builds \cup {NoBuild}, rev : 0..MaxSource, active : Builds \cup {NoBuild}]
BuilderPcs == {"idle", "claimed", "extracted", "activated", "staged", "receipted", "released", "failing", "discarding"}
BuilderRow == [pc : BuilderPcs, b : Builds \cup {NoBuild}, attempt : 0..MaxAttempt, why : Failures]
AckSet == {"indexing", "graph"} \X (1..MaxSource) \X {"stage", "release", "discard"}

\* One run is queued or running
OneLiveRun ==
    \A a, b \in Builds :
        run[a].state \in {"queued", "running"} /\ run[b].state \in {"queued", "running"} => a = b

\* A key makes its run when it is done with; a notice is the end of a run; and
\* every attempt but the one that has a lease was ended by a fault
RunSound(b) ==
    /\ run[b].made <= 1
    /\ run[b].notices = IF run[b].state \in Ended THEN 1 ELSE 0
    /\ gop[b].state # "done" => run[b].made = 0 /\ run[b].state = "none"
    /\ run[b].attempt + gfaults <= GraphFaults + 1
    /\ run[b].state \in {"none", "queued"} \/ (run[b].state = "running" /\ ~run[b].live) =>
          run[b].attempt + gfaults <= GraphFaults
RunsSound == \A b \in Builds : RunSound(b)

\* A worker that is not idle has a run
BuildersSound == \A w \in GraphWorkers : gw[w].pc # "idle" => gw[w].b \in Builds

GraphInv == GraphTypeOK /\ OneLiveRun /\ RunsSound /\ BuildersSound

LEMMA GraphRows ==
    GraphTypeOK <=>
       /\ src \in 1..MaxSource /\ acks \subseteq AckSet /\ run \in [Builds -> RunRow]
       /\ gop \in [Builds -> KeyRow] /\ creator \in [Creators -> CreatorRow]
       /\ comp \in [Builds -> ComponentRows] /\ profile \in [Builds -> ComponentRows]
       /\ facts \in [Builds -> 0..MaxAttempt] /\ activeB \in Builds \cup {NoBuild}
       /\ gw \in [GraphWorkers -> BuilderRow] /\ cleanup \subseteq Builds /\ gfaults \in 0..GraphFaults
BY DEF GraphTypeOK, AckSet, RunRow, KeyRow, CreatorRow, BuilderRow, BuilderPcs, Failures

LEMMA GraphTyped ==
    ASSUME src' \in 1..MaxSource, acks' \subseteq AckSet, run' \in [Builds -> RunRow],
           gop' \in [Builds -> KeyRow], creator' \in [Creators -> CreatorRow],
           comp' \in [Builds -> ComponentRows], profile' \in [Builds -> ComponentRows],
           facts' \in [Builds -> 0..MaxAttempt], activeB' \in Builds \cup {NoBuild},
           gw' \in [GraphWorkers -> BuilderRow], cleanup' \subseteq Builds, gfaults' \in 0..GraphFaults
    PROVE  GraphTypeOK'
BY DEF GraphTypeOK, AckSet, RunRow, KeyRow, CreatorRow, BuilderRow, BuilderPcs, Failures

LEMMA AttemptNumbers == MaxAttempt \in Nat /\ GraphFaults \in Nat /\ MaxAttempt = GraphFaults + 1
BY GraphAssumption DEF MaxAttempt

LEMMA InitGraph == GraphInit => GraphInv
<1> SUFFICES ASSUME GraphInit PROVE GraphInv OBVIOUS
<1>0. 0 \in 0..MaxAttempt /\ 0 \in 0..MaxSource /\ 1 \in 1..MaxSource /\ GraphFaults \in 0..GraphFaults
  BY AttemptNumbers, GraphAssumption
<1>1. 0 \in 0..Cardinality(Creators) BY FS_CardinalityType, GraphAssumption
<1>2. \A b \in Builds :
         /\ run[b] \in RunRow /\ run[b].state = "none" /\ run[b].made = 0 /\ run[b].notices = 0
         /\ run[b].attempt = 0
  BY <1>0, <1>1 DEF GraphInit, RunRow, Failures
<1>3. \A b \in Builds : gop[b] \in KeyRow BY DEF GraphInit, KeyRow
<1>4. \A c \in Creators : creator[c] \in CreatorRow BY <1>0 DEF GraphInit, CreatorRow, NoRequest
<1>5. NoComp \in ComponentRows BY <1>0 DEF NoComp, ComponentRows
<1>6. IdleBuilder \in BuilderRow /\ IdleBuilder.pc = "idle"
  BY <1>0 DEF IdleBuilder, BuilderRow, BuilderPcs, Failures
<1>7. GraphTypeOK BY <1>0, <1>2, <1>3, <1>4, <1>5, <1>6, GraphRows DEF GraphInit
<1>8. OneLiveRun BY <1>2 DEF OneLiveRun
<1>9. RunsSound
  BY <1>0, <1>2, GraphAssumption DEF RunsSound, RunSound, Ended, GraphInit
<1>10. BuildersSound BY <1>6 DEF GraphInit, BuildersSound
<1> QED BY <1>7, <1>8, <1>9, <1>10 DEF GraphInv

\* no run changes
LEMMA RunsStand ==
    ASSUME GraphInv, UNCHANGED run, gfaults' \in 0..gfaults, gfaults \in Nat,
           \A b \in Builds : gop[b].state = "done" => gop'[b].state = "done"
    PROVE  OneLiveRun' /\ RunsSound'
<1>1. OneLiveRun' BY DEF GraphInv, OneLiveRun
<1>2. ASSUME NEW b \in Builds PROVE RunSound(b)'
  <2>1. RunSound(b) /\ run[b] \in RunRow BY GraphRows DEF GraphInv, RunsSound
  <2>2. run[b].attempt \in Nat BY <2>1, AttemptNumbers DEF RunRow
  <2> QED BY <2>1, <2>2, AttemptNumbers DEF RunSound
<1> QED BY <1>1, <1>2 DEF RunsSound

\* the row of a run is replaced
LEMMA RunWritten ==
    ASSUME GraphInv, NEW b \in Builds, NEW row \in RunRow, run' = [run EXCEPT ![b] = row],
           row.state \in {"queued", "running"} => run[b].state \in {"queued", "running"},
           row.made = run[b].made, row.state = "none" <=> run[b].state = "none",
           row.notices = IF row.state \in Ended THEN 1 ELSE 0,
           gfaults' \in 0..gfaults, gfaults \in Nat,
           row.attempt + gfaults' <= GraphFaults + 1,
           row.state \in {"none", "queued"} \/ (row.state = "running" /\ ~row.live) =>
              row.attempt + gfaults' <= GraphFaults,
           UNCHANGED gop
    PROVE  run' \in [Builds -> RunRow] /\ OneLiveRun' /\ RunsSound'
<1>0. run \in [Builds -> RunRow] BY GraphRows DEF GraphInv
<1>1. run' \in [Builds -> RunRow] /\ run'[b] = row /\ \A a \in Builds : a # b => run'[a] = run[a]
  BY <1>0
<1>2. OneLiveRun' BY <1>1 DEF GraphInv, OneLiveRun
<1>3. ASSUME NEW a \in Builds PROVE RunSound(a)'
  <2>0. RunSound(a) /\ run[a].attempt \in Nat
    BY <1>0, AttemptNumbers DEF GraphInv, RunsSound, RunRow
  <2>1. CASE a = b BY <1>1, <2>0, <2>1 DEF RunSound
  <2>2. CASE a # b
    <3>1. run'[a] = run[a] BY <1>1, <2>2
    <3> QED BY <2>0, <3>1, AttemptNumbers DEF RunSound
  <2> QED BY <2>1, <2>2
<1> QED BY <1>1, <1>2, <1>3 DEF RunsSound

\* a run ends with its notice
LEMMA RunEnds ==
    ASSUME GraphInv, NEW b \in Builds, run[b].state \in {"queued", "running"}, NEW to \in Ended,
           NEW why \in Failures, EndRun(b, to, why), UNCHANGED <<gop, gfaults>>
    PROVE  run' \in [Builds -> RunRow] /\ OneLiveRun' /\ RunsSound'
<1> DEFINE row == EndedRun(run[b], to, why)
<1>0. run[b] \in RunRow /\ RunSound(b) /\ gfaults \in Nat
  BY GraphRows, AttemptNumbers DEF GraphInv, RunsSound
<1>1. run[b].state \notin Ended /\ run[b].notices = 0 BY <1>0 DEF RunSound, Ended
<1>2. /\ row \in RunRow /\ row.state = to /\ row.notices = 1 /\ row.made = run[b].made
      /\ row.attempt = run[b].attempt
  <2> DEFINE notices == run[b].notices + 1
  <2>1. notices = 1 /\ notices \in 0..2 BY <1>1
  <2> HIDE DEF notices
  <2>2. row = [run[b] EXCEPT !.state = to, !.live = FALSE, !.notices = notices, !.failure = why]
    BY DEF EndedRun, notices
  <2> QED BY <1>0, <2>1, <2>2 DEF RunRow
<1>3. run' = [run EXCEPT ![b] = row] BY DEF EndRun
<1> HIDE DEF row
<1>4. to \notin {"none", "queued", "running"} BY DEF Ended
<1>5. gfaults' \in 0..gfaults BY <1>0
<1>6. row.attempt + gfaults' <= GraphFaults + 1 BY <1>0, <1>2 DEF RunSound
<1>7. row.state \notin {"none", "queued", "running"} /\ run[b].state # "none" BY <1>2, <1>4
<1>8. row.notices = IF row.state \in Ended THEN 1 ELSE 0 BY <1>2
<1> QED BY <1>0, <1>2, <1>3, <1>5, <1>6, <1>7, <1>8, RunWritten

\* a worker goes on, fails or rests
LEMMA BuilderMoves ==
    ASSUME GraphInv, NEW w \in GraphWorkers, gw[w].pc # "idle",
           \/ Rest(w)
           \/ \E pc \in BuilderPcs : Step(w, pc)
           \/ \E why \in Failures : Failing(w, why)
    PROVE  gw' \in [GraphWorkers -> BuilderRow] /\ BuildersSound'
<1>0. gw \in [GraphWorkers -> BuilderRow] /\ gw[w] \in BuilderRow /\ gw[w].b \in Builds
  BY GraphRows DEF GraphInv, BuildersSound
<1>1. ASSUME NEW row \in BuilderRow, gw' = [gw EXCEPT ![w] = row],
             row.pc # "idle" => row.b \in Builds
      PROVE  gw' \in [GraphWorkers -> BuilderRow] /\ BuildersSound'
  <2>1. gw'[w] = row /\ \A v \in GraphWorkers : v # w => gw'[v] = gw[v] BY <1>0, <1>1
  <2> QED BY <1>0, <1>1, <2>1 DEF GraphInv, BuildersSound
<1>2. CASE Rest(w)
  <2>1. IdleBuilder \in BuilderRow /\ IdleBuilder.pc = "idle"
    BY AttemptNumbers DEF IdleBuilder, BuilderRow, BuilderPcs, Failures
  <2> QED BY <1>1, <1>2, <2>1 DEF Rest
<1>3. ASSUME NEW pc \in BuilderPcs, Step(w, pc)
      PROVE  gw' \in [GraphWorkers -> BuilderRow] /\ BuildersSound'
  <2> DEFINE row == [gw[w] EXCEPT !.pc = pc]
  <2>1. row \in BuilderRow /\ row.pc = pc /\ row.b = gw[w].b BY <1>0 DEF BuilderRow
  <2>2. gw' = [gw EXCEPT ![w] = row] BY <1>3 DEF Step
  <2> HIDE DEF row
  <2> QED BY <1>0, <1>1, <2>1, <2>2
<1>4. ASSUME NEW why \in Failures, Failing(w, why)
      PROVE  gw' \in [GraphWorkers -> BuilderRow] /\ BuildersSound'
  <2> DEFINE row == [gw[w] EXCEPT !.pc = "failing", !.why = why]
  <2>1. row \in BuilderRow /\ row.why = why /\ row.b = gw[w].b
    BY <1>0 DEF BuilderRow, BuilderPcs
  <2>2. gw' = [gw EXCEPT ![w] = row] BY <1>4 DEF Failing
  <2> HIDE DEF row
  <2> QED BY <1>0, <1>1, <2>1, <2>2
<1> QED BY <1>2, <1>3, <1>4

\* what is acknowledged is held since a stage of that revision
LEMMA AckTyped ==
    ASSUME GraphInv, NEW who \in {"indexing", "graph"}, NEW rev, NEW purpose \in {"release", "discard"},
           MayAck(who, rev, purpose)
    PROVE  <<who, rev, purpose>> \in AckSet
<1>1. <<who, rev, "stage">> \in acks BY DEF MayAck, Held
<1>2. acks \subseteq AckSet BY GraphRows DEF GraphInv
<1> QED BY <1>1, <1>2 DEF AckSet

LEMMA DiscardTyped ==
    ASSUME GraphInv, NEW b \in Builds, NEW state \in {"stale", "disabled"}, NEW ack \in BOOLEAN,
           Discard(b, state, ack), ack => MayAck("indexing", run[b].rev, "discard")
    PROVE  /\ comp' \in [Builds -> ComponentRows] /\ facts' \in [Builds -> 0..MaxAttempt]
           /\ acks' \subseteq AckSet
<1>1. comp \in [Builds -> ComponentRows] /\ facts \in [Builds -> 0..MaxAttempt] /\ acks \subseteq AckSet
  BY GraphRows DEF GraphInv
<1>2. [state |-> state, receipt |-> 0] \in ComponentRows /\ 0 \in 0..MaxAttempt
  BY AttemptNumbers DEF ComponentRows
<1>3. ack => <<"indexing", run[b].rev, "discard">> \in AckSet BY AckTyped
<1> QED BY <1>1, <1>2, <1>3 DEF Discard

LEMMA DiscardStagingTyped ==
    ASSUME GraphInv, NEW b \in Builds, NEW named, DiscardStaging(b, named)
    PROVE  /\ comp' \in [Builds -> ComponentRows] /\ facts' \in [Builds -> 0..MaxAttempt]
           /\ acks' \subseteq AckSet
<1>1. comp \in [Builds -> ComponentRows] /\ facts \in [Builds -> 0..MaxAttempt] /\ acks \subseteq AckSet
  BY GraphRows DEF GraphInv
<1>2. [state |-> "disabled", receipt |-> 0] \in ComponentRows /\ 0 \in 0..MaxAttempt
  BY AttemptNumbers DEF ComponentRows
<1>3. Discards(b, named) => <<"indexing", run[b].rev, "discard">> \in AckSet BY AckTyped DEF Discards
<1>4. MayAck("graph", run[b].rev, "discard") => <<"graph", run[b].rev, "discard">> \in AckSet BY AckTyped
<1>5. comp' \in [Builds -> ComponentRows] BY <1>1, <1>2 DEF DiscardStaging
<1>6. facts' \in [Builds -> 0..MaxAttempt] BY <1>1, <1>2 DEF DiscardStaging
<1>7. acks' \subseteq AckSet BY <1>1, <1>3, <1>4 DEF DiscardStaging
<1> QED BY <1>5, <1>6, <1>7

GraphParts ==
    /\ src \in 1..MaxSource /\ acks \subseteq AckSet /\ run \in [Builds -> RunRow]
    /\ gop \in [Builds -> KeyRow] /\ creator \in [Creators -> CreatorRow]
    /\ comp \in [Builds -> ComponentRows] /\ profile \in [Builds -> ComponentRows]
    /\ facts \in [Builds -> 0..MaxAttempt] /\ activeB \in Builds \cup {NoBuild}
    /\ gw \in [GraphWorkers -> BuilderRow] /\ cleanup \subseteq Builds /\ gfaults \in 0..GraphFaults
    /\ gfaults \in Nat /\ MaxAttempt \in Nat

LEMMA PartsHold == GraphInv => GraphParts
BY GraphRows, AttemptNumbers DEF GraphInv, GraphParts

\* builders stand
LEMMA BuildersStand ==
    ASSUME GraphInv, UNCHANGED gw
    PROVE  BuildersSound'
BY DEF GraphInv, BuildersSound

\* runs and keys stand
LEMMA AllRunsStand ==
    ASSUME GraphInv, UNCHANGED <<run, gop, gfaults>>
    PROVE  OneLiveRun' /\ RunsSound'
BY RunsStand, PartsHold DEF GraphParts

\* requests that create runs
LEMMA CreatorStep ==
    ASSUME GraphInv, NEW c \in Creators,
           \/ \E b \in Builds : FreezeSource(c, b)
           \/ RefuseCreate(c) \/ CreatorCrash(c)
    PROVE  GraphInv'
<1>t. GraphParts BY PartsHold
<1>0. NoRequest \in CreatorRow
  BY GraphAssumption DEF NoRequest, CreatorRow
<1>1. ASSUME NEW b \in Builds, FreezeSource(c, b) PROVE GraphInv'
  <2>1. /\ gop' = [gop EXCEPT ![b] = [state |-> "reserved", by |-> c]] /\ KeyFree(b)
        /\ creator' = [creator EXCEPT ![c] = [b |-> b, rev |-> src, active |-> activeB]]
        /\ UNCHANGED <<src, acks, run, comp, facts, activeB, profile, gw, cleanup, gfaults>>
    BY <1>1 DEF FreezeSource
  <2>2. gop' \in [Builds -> KeyRow]
    <3>1. [state |-> "reserved", by |-> c] \in KeyRow BY DEF KeyRow
    <3> QED BY <1>t, <2>1, <3>1 DEF GraphParts
  <2>3. creator' \in [Creators -> CreatorRow]
    <3>1. src \in 0..MaxSource BY <1>t, GraphAssumption DEF GraphParts
    <3>2. [b |-> b, rev |-> src, active |-> activeB] \in CreatorRow
      BY <1>t, <3>1 DEF GraphParts, CreatorRow
    <3> QED BY <1>t, <2>1, <3>2 DEF GraphParts
  <2>4. GraphTypeOK' BY <1>t, <2>1, <2>2, <2>3, GraphTyped DEF GraphParts
  <2>5. \A a \in Builds : gop[a].state = "done" => gop'[a].state = "done"
    BY <1>t, <2>1 DEF GraphParts, KeyFree
  <2>6. gfaults' \in 0..gfaults BY <1>t, <2>1 DEF GraphParts
  <2>7. OneLiveRun' /\ RunsSound' BY <1>t, <2>1, <2>5, <2>6, RunsStand DEF GraphParts
  <2> QED BY <2>1, <2>4, <2>7, BuildersStand DEF GraphInv
<1>2. CASE RefuseCreate(c)
  <2> DEFINE b == creator[c].b
             answer == IF HeadIs(creator[c].rev) /\ activeB = creator[c].active /\ ~HasActiveRun
                       THEN "held" ELSE "refused"
             row == [gop[b] EXCEPT !.state = answer]
  <2>1. /\ b # NoBuild /\ creator' = [creator EXCEPT ![c] = NoRequest]
        /\ \/ Reserved(c) /\ gop' = [gop EXCEPT ![b] = row]
           \/ gop' = gop
        /\ UNCHANGED <<src, acks, run, comp, facts, activeB, profile, gw, cleanup, gfaults>>
    BY <1>2 DEF RefuseCreate
  <2>2. b \in Builds /\ gop[b] \in KeyRow BY <1>t, <2>1 DEF GraphParts, CreatorRow
  <2>3. answer \in {"held", "refused"} OBVIOUS
  <2>4. row \in KeyRow /\ row.state # "done"
    <3> HIDE DEF answer
    <3> QED BY <2>2, <2>3 DEF KeyRow
  <2>5. Reserved(c) => gop[b].state = "reserved" BY DEF Reserved
  <2> HIDE DEF row, b
  <2>6. gop' \in [Builds -> KeyRow] /\ creator' \in [Creators -> CreatorRow]
    BY <1>t, <1>0, <2>1, <2>2, <2>4 DEF GraphParts
  <2>7. GraphTypeOK' BY <1>t, <2>1, <2>6, GraphTyped DEF GraphParts
  <2>8. \A a \in Builds : gop[a].state = "done" => gop'[a].state = "done"
    BY <1>t, <2>1, <2>2, <2>5 DEF GraphParts
  <2>9. gfaults' \in 0..gfaults BY <1>t, <2>1 DEF GraphParts
  <2>10. OneLiveRun' /\ RunsSound' BY <1>t, <2>1, <2>8, <2>9, RunsStand DEF GraphParts
  <2> QED BY <2>1, <2>7, <2>10, BuildersStand DEF GraphInv
<1>3. CASE CreatorCrash(c)
  <2>1. /\ gfaults > 0 /\ gfaults' = gfaults - 1 /\ creator' = [creator EXCEPT ![c] = NoRequest]
        /\ UNCHANGED <<src, acks, run, gop, comp, facts, activeB, profile, gw, cleanup>>
    BY <1>3 DEF CreatorCrash
  <2>2. gfaults' \in 0..gfaults /\ gfaults' \in 0..GraphFaults
    BY <1>t, <2>1, AttemptNumbers DEF GraphParts
  <2>3. creator' \in [Creators -> CreatorRow] BY <1>t, <1>0, <2>1 DEF GraphParts
  <2>4. GraphTypeOK' BY <1>t, <2>1, <2>2, <2>3, GraphTyped DEF GraphParts
  <2>5. OneLiveRun' /\ RunsSound' BY <1>t, <2>1, <2>2, RunsStand DEF GraphParts
  <2> QED BY <2>1, <2>4, <2>5, BuildersStand DEF GraphInv
<1> QED BY <1>1, <1>2, <1>3

\* a run is created while none is queued or running, once under its key
LEMMA CreateStep ==
    ASSUME GraphInv, NEW c \in Creators, CreateRun(c)
    PROVE  GraphInv'
<1>t. GraphParts BY PartsHold
<1> DEFINE b == creator[c].b
           rev == creator[c].rev
           made == run[b].made + 1
           row == QueuedRun(run[b], rev)
<1>1. /\ b # NoBuild /\ Reserved(c) /\ StageFree(c) /\ ~HasActiveRun
      /\ run' = [run EXCEPT ![b] = row]
      /\ acks' = acks \cup {<<who, rev, "stage">> : who \in {"indexing", "graph"}}
      /\ comp' = [comp EXCEPT ![b] = [state |-> "staged", receipt |-> 0]]
      /\ gop' = [gop EXCEPT ![b].state = "done"]
      /\ creator' = [creator EXCEPT ![c] = NoRequest]
      /\ UNCHANGED <<src, facts, activeB, profile, gw, cleanup, gfaults>>
  BY DEF CreateRun, MayCreate
<1>2. b \in Builds /\ run[b] \in RunRow /\ gop[b] \in KeyRow
  BY <1>t, <1>1 DEF GraphParts, CreatorRow
<1>3. rev = src /\ rev \in 1..MaxSource /\ rev \in 0..MaxSource
  BY <1>t, <1>1, GraphAssumption DEF StageFree, HeadIs, GraphParts
<1>4. RunSound(b) /\ gop[b].state = "reserved" BY <1>1, <1>2 DEF GraphInv, RunsSound, Reserved
<1>5. run[b].made = 0 /\ run[b].state = "none" /\ run[b].notices = 0
  BY <1>4 DEF RunSound, Ended
<1>6. made = 1 /\ 1 \in 0..Cardinality(Creators)
  <2>1. Cardinality(Creators) \in Nat /\ Cardinality(Creators) # 0
    BY GraphAssumption, FS_CardinalityType, FS_EmptySet
  <2> QED BY <1>5, <2>1
<1>7. row = [run[b] EXCEPT !.state = "queued", !.rev = rev, !.granted = TRUE, !.made = made]
  BY DEF QueuedRun
<1> HIDE DEF b, rev, made
<1>8. /\ row \in RunRow /\ row.state = "queued" /\ row.made = 1 /\ row.notices = 0
      /\ row.attempt = run[b].attempt
  BY <1>2, <1>3, <1>5, <1>6, <1>7 DEF RunRow
<1> HIDE DEF row
<1>9. run' \in [Builds -> RunRow] /\ run'[b] = row /\ \A a \in Builds : a # b => run'[a] = run[a]
  BY <1>t, <1>1, <1>2, <1>8 DEF GraphParts
<1>10. acks' \subseteq AckSet BY <1>t, <1>1, <1>3 DEF GraphParts, AckSet
<1>11. comp' \in [Builds -> ComponentRows]
  <2>1. [state |-> "staged", receipt |-> 0] \in ComponentRows BY AttemptNumbers DEF ComponentRows
  <2> QED BY <1>t, <1>1, <2>1 DEF GraphParts
<1>12. /\ gop' \in [Builds -> KeyRow] /\ gop'[b].state = "done"
       /\ \A a \in Builds : a # b => gop'[a] = gop[a]
  <2> DEFINE key == [gop[b] EXCEPT !.state = "done"]
  <2>1. key \in KeyRow /\ key.state = "done" BY <1>2 DEF KeyRow
  <2>2. gop' = [gop EXCEPT ![b] = key] BY <1>1
  <2> HIDE DEF key
  <2> QED BY <1>t, <1>2, <2>1, <2>2 DEF GraphParts
<1>13. creator' \in [Creators -> CreatorRow]
  <2>1. NoRequest \in CreatorRow BY GraphAssumption DEF NoRequest, CreatorRow
  <2> QED BY <1>t, <1>1, <2>1 DEF GraphParts
<1>14. GraphTypeOK' BY <1>t, <1>1, <1>9, <1>10, <1>11, <1>12, <1>13, GraphTyped DEF GraphParts
<1>15. OneLiveRun'
  <2>1. \A a \in Builds : run[a].state \notin {"queued", "running"} BY <1>1 DEF HasActiveRun
  <2> QED BY <1>9, <2>1 DEF OneLiveRun
<1>16. ASSUME NEW a \in Builds PROVE RunSound(a)'
  <2>0. RunSound(a) BY DEF GraphInv, RunsSound
  <2>1. CASE a = b
    <3>0. run[b].attempt \in Nat BY <1>2, AttemptNumbers DEF RunRow
    <3>1. run[b].attempt + gfaults <= GraphFaults
      <4>1. run[b].state \in {"none", "queued"} BY <1>5
      <4> QED BY <1>4, <4>1 DEF RunSound
    <3>2. row.attempt + gfaults <= GraphFaults + 1 /\ row.attempt + gfaults <= GraphFaults
      BY <1>t, <1>8, <3>0, <3>1, AttemptNumbers DEF GraphParts
    <3>3. row.state \notin Ended BY <1>8 DEF Ended
    <3> QED BY <1>1, <1>8, <1>9, <1>12, <2>1, <3>2, <3>3 DEF RunSound
  <2>2. CASE a # b
    <3>1. run'[a] = run[a] /\ gop'[a] = gop[a] /\ gfaults' = gfaults BY <1>1, <1>9, <1>12, <2>2
    <3> QED BY <2>0, <3>1 DEF RunSound
  <2> QED BY <2>1, <2>2
<1>17. BuildersSound' BY <1>1, BuildersStand
<1> QED BY <1>14, <1>15, <1>16, <1>17 DEF GraphInv, RunsSound

\* the source, and what a run has beside its row
LEMMA SourceStep ==
    ASSUME GraphInv, SourceChanges
    PROVE  GraphInv'
<1>t. GraphParts BY PartsHold
<1>1. /\ src < MaxSource /\ src' = src + 1
      /\ UNCHANGED <<acks, run, gop, creator, comp, facts, activeB, profile, gw, cleanup, gfaults>>
  BY DEF SourceChanges
<1>2. src' \in 1..MaxSource BY <1>t, <1>1, GraphAssumption DEF GraphParts
<1>3. GraphTypeOK' BY <1>t, <1>1, <1>2, GraphTyped DEF GraphParts
<1> QED BY <1>1, <1>3, AllRunsStand, BuildersStand DEF GraphInv

LEMMA BesideStep ==
    ASSUME GraphInv, NEW b \in Builds,
           CleanUp(b) \/ CleanUpCrash(b) \/ JudgeProfile(b) \/ ReadGraph(b)
    PROVE  GraphInv'
<1>t. GraphParts BY PartsHold
<1>1. CASE CleanUp(b)
  <2>1. /\ cleanup' = cleanup \ {b} /\ DiscardStaging(b, run[b].receipt)
        /\ UNCHANGED <<src, run, gop, creator, activeB, profile, gw, gfaults>>
    BY <1>1 DEF CleanUp
  <2>2. /\ comp' \in [Builds -> ComponentRows] /\ facts' \in [Builds -> 0..MaxAttempt]
        /\ acks' \subseteq AckSet
    BY <2>1, DiscardStagingTyped
  <2>3. GraphTypeOK' BY <1>t, <2>1, <2>2, GraphTyped DEF GraphParts
  <2> QED BY <2>1, <2>3, AllRunsStand, BuildersStand DEF GraphInv
<1>2. CASE CleanUpCrash(b)
  <2>1. /\ cleanup' = cleanup \ {b} /\ gfaults > 0 /\ gfaults' = gfaults - 1
        /\ UNCHANGED <<src, acks, run, gop, creator, comp, facts, activeB, profile, gw>>
    BY <1>2 DEF CleanUpCrash
  <2>2. gfaults' \in 0..gfaults /\ gfaults' \in 0..GraphFaults
    BY <1>t, <2>1, AttemptNumbers DEF GraphParts
  <2>3. GraphTypeOK' BY <1>t, <2>1, <2>2, GraphTyped DEF GraphParts
  <2>4. OneLiveRun' /\ RunsSound' BY <1>t, <2>1, <2>2, RunsStand DEF GraphParts
  <2> QED BY <2>1, <2>3, <2>4, BuildersStand DEF GraphInv
<1>3. CASE JudgeProfile(b)
  <2>1. /\ profile' = [profile EXCEPT ![b] = comp[b]]
        /\ UNCHANGED <<src, acks, run, gop, creator, comp, facts, activeB, gw, cleanup, gfaults>>
    BY <1>3 DEF JudgeProfile
  <2>2. profile' \in [Builds -> ComponentRows] BY <1>t, <2>1 DEF GraphParts
  <2>3. GraphTypeOK' BY <1>t, <2>1, <2>2, GraphTyped DEF GraphParts
  <2> QED BY <2>1, <2>3, AllRunsStand, BuildersStand DEF GraphInv
<1>4. CASE ReadGraph(b)
  <2>1. /\ MayAck("indexing", run[b].rev, "discard") /\ Discard(b, "stale", TRUE)
        /\ UNCHANGED <<src, run, gop, creator, activeB, profile, gw, cleanup, gfaults>>
    BY <1>4 DEF ReadGraph
  <2>2. /\ comp' \in [Builds -> ComponentRows] /\ facts' \in [Builds -> 0..MaxAttempt]
        /\ acks' \subseteq AckSet
    BY <2>1, DiscardTyped
  <2>3. GraphTypeOK' BY <1>t, <2>1, <2>2, GraphTyped DEF GraphParts
  <2> QED BY <2>1, <2>3, AllRunsStand, BuildersStand DEF GraphInv
<1> QED BY <1>1, <1>2, <1>3, <1>4

\* the row of a run changes without a worker
LEMMA RowStep ==
    ASSUME GraphInv, NEW b \in Builds,
           Cancel(b) \/ ExpireGrant(b) \/ ExpireLease(b) \/ Requeue(b)
    PROVE  GraphInv'
<1>t. GraphParts BY PartsHold
<1>0. run[b] \in RunRow /\ RunSound(b) /\ run[b].attempt \in Nat
  BY <1>t, AttemptNumbers DEF GraphInv, RunsSound, GraphParts, RunRow
<1>1. CASE Cancel(b)
  <2>1. /\ run[b].state \in {"queued", "running"} /\ EndRun(b, "cancelled", "none")
        /\ cleanup' = cleanup \cup {b}
        /\ UNCHANGED <<src, acks, gop, creator, comp, facts, activeB, profile, gw, gfaults>>
    BY <1>1 DEF Cancel
  <2>2. run' \in [Builds -> RunRow] /\ OneLiveRun' /\ RunsSound'
    BY <2>1, RunEnds DEF Ended, Failures
  <2>3. GraphTypeOK' BY <1>t, <2>1, <2>2, GraphTyped DEF GraphParts
  <2> QED BY <2>1, <2>2, <2>3, BuildersStand DEF GraphInv
<1>2. CASE ExpireGrant(b)
  <2> DEFINE row == [run[b] EXCEPT !.granted = FALSE]
  <2>1. /\ run' = [run EXCEPT ![b] = row]
        /\ UNCHANGED <<src, acks, gop, creator, comp, facts, activeB, profile, gw, cleanup, gfaults>>
    BY <1>2 DEF ExpireGrant
  <2>2. /\ row \in RunRow /\ row.state = run[b].state /\ row.made = run[b].made
        /\ row.notices = run[b].notices /\ row.attempt = run[b].attempt /\ row.live = run[b].live
    BY <1>0 DEF RunRow
  <2> HIDE DEF row
  <2>3. gfaults' \in 0..gfaults BY <1>t, <2>1 DEF GraphParts
  <2>4. run' \in [Builds -> RunRow] /\ OneLiveRun' /\ RunsSound'
    BY <1>t, <1>0, <2>1, <2>2, <2>3, RunWritten DEF RunSound, GraphParts
  <2>5. GraphTypeOK' BY <1>t, <2>1, <2>4, GraphTyped DEF GraphParts
  <2> QED BY <2>1, <2>4, <2>5, BuildersStand DEF GraphInv
<1>3. CASE ExpireLease(b)
  <2> DEFINE row == [run[b] EXCEPT !.live = FALSE]
  <2>1. /\ run' = [run EXCEPT ![b] = row] /\ gfaults > 0 /\ gfaults' = gfaults - 1
        /\ run[b].state = "running"
        /\ UNCHANGED <<src, acks, gop, creator, comp, facts, activeB, profile, gw, cleanup>>
    BY <1>3 DEF ExpireLease
  <2>2. /\ row \in RunRow /\ row.state = run[b].state /\ row.made = run[b].made
        /\ row.notices = run[b].notices /\ row.attempt = run[b].attempt
    BY <1>0 DEF RunRow
  <2> HIDE DEF row
  <2>3. gfaults' \in 0..gfaults /\ gfaults' \in 0..GraphFaults
    BY <1>t, <2>1, AttemptNumbers DEF GraphParts
  <2>4. row.attempt + gfaults' <= GraphFaults
    BY <1>t, <1>0, <2>1, <2>2, AttemptNumbers DEF RunSound, GraphParts
  <2>5. row.attempt + gfaults' <= GraphFaults + 1
    BY <1>t, <1>0, <2>1, <2>2, AttemptNumbers DEF RunSound, GraphParts
  <2>6. run' \in [Builds -> RunRow] /\ OneLiveRun' /\ RunsSound'
    BY <1>t, <1>0, <2>1, <2>2, <2>3, <2>4, <2>5, RunWritten DEF RunSound, GraphParts
  <2>7. GraphTypeOK' BY <1>t, <2>1, <2>3, <2>6, GraphTyped DEF GraphParts
  <2> QED BY <2>1, <2>6, <2>7, BuildersStand DEF GraphInv
<1>4. CASE Requeue(b)
  <2> DEFINE row == [run[b] EXCEPT !.state = "queued"]
  <2>1. /\ run[b].state = "running" /\ ~run[b].live /\ run' = [run EXCEPT ![b] = row]
        /\ Discard(b, "disabled", FALSE) \/ UNCHANGED <<comp, facts, acks>>
        /\ UNCHANGED <<src, gop, creator, activeB, profile, gw, cleanup, gfaults>>
    BY <1>4 DEF Requeue, Expired
  <2>2. /\ row \in RunRow /\ row.state = "queued" /\ row.made = run[b].made
        /\ row.notices = run[b].notices /\ row.attempt = run[b].attempt
    BY <1>0 DEF RunRow
  <2> HIDE DEF row
  <2>3. gfaults' \in 0..gfaults BY <1>t, <2>1 DEF GraphParts
  <2>4. /\ row.attempt + gfaults' <= GraphFaults + 1 /\ row.attempt + gfaults' <= GraphFaults
    BY <1>0, <2>1, <2>2 DEF RunSound
  <2>5. run[b].notices = 0 BY <1>0, <2>1 DEF RunSound, Ended
  <2>6. run' \in [Builds -> RunRow] /\ OneLiveRun' /\ RunsSound'
    BY <1>t, <2>1, <2>2, <2>3, <2>4, <2>5, RunWritten DEF GraphParts, Ended
  <2>7. /\ comp' \in [Builds -> ComponentRows] /\ facts' \in [Builds -> 0..MaxAttempt]
        /\ acks' \subseteq AckSet
    BY <1>t, <2>1, DiscardTyped DEF GraphParts
  <2>8. GraphTypeOK' BY <1>t, <2>1, <2>6, <2>7, GraphTyped DEF GraphParts
  <2> QED BY <2>1, <2>6, <2>8, BuildersStand DEF GraphInv
<1> QED BY <1>1, <1>2, <1>3, <1>4

\* a worker goes on beside the runs
LEMMA BuilderKeeps ==
    ASSUME GraphInv, NEW w \in GraphWorkers, gw[w].pc # "idle",
           \/ Rest(w)
           \/ \E pc \in BuilderPcs : Step(w, pc)
           \/ \E why \in Failures : Failing(w, why),
           UNCHANGED <<src, run, gop, creator, profile, cleanup, gfaults>>,
           comp' \in [Builds -> ComponentRows], facts' \in [Builds -> 0..MaxAttempt],
           acks' \subseteq AckSet, activeB' \in Builds \cup {NoBuild}
    PROVE  GraphInv'
<1>t. GraphParts BY PartsHold
<1>1. gw' \in [GraphWorkers -> BuilderRow] /\ BuildersSound' BY BuilderMoves
<1>2. GraphTypeOK' BY <1>t, <1>1, GraphTyped DEF GraphParts
<1> QED BY <1>1, <1>2, AllRunsStand DEF GraphInv

\* the run of a worker that has a lease is written
LEMMA ClaimStep ==
    ASSUME GraphInv, NEW w \in GraphWorkers, NEW b \in Builds, ClaimRun(w, b)
    PROVE  GraphInv'
<1>t. GraphParts BY PartsHold
<1> DEFINE attempt == run[b].attempt + 1
           row == ClaimedRun(run[b])
           job == [pc |-> "claimed", b |-> b, why |-> "none", attempt |-> attempt]
<1>1. /\ run[b].state = "queued" /\ run' = [run EXCEPT ![b] = row]
      /\ gw' = [gw EXCEPT ![w] = job]
      /\ UNCHANGED <<src, acks, gop, creator, comp, facts, activeB, profile, cleanup, gfaults>>
  BY DEF ClaimRun
<1>2. run[b] \in RunRow /\ RunSound(b) BY <1>t DEF GraphInv, RunsSound, GraphParts
<1>3. run[b].attempt \in Nat BY <1>2, AttemptNumbers DEF RunRow
<1>4. run[b].attempt + gfaults <= GraphFaults /\ run[b].notices = 0
  <2>1. run[b].state \in {"none", "queued"} /\ run[b].state \notin Ended BY <1>1 DEF Ended
  <2>2. run[b].notices = 0 BY <1>2, <2>1 DEF RunSound
  <2>3. run[b].attempt + gfaults <= GraphFaults BY <1>2, <2>1 DEF RunSound
  <2> QED BY <2>2, <2>3
<1>5. attempt \in 0..MaxAttempt /\ attempt + gfaults <= GraphFaults + 1
  BY <1>t, <1>3, <1>4, AttemptNumbers DEF GraphParts
<1>6. row = [run[b] EXCEPT !.state = "running", !.live = TRUE, !.attempt = attempt]
  BY DEF ClaimedRun
<1> HIDE DEF attempt
<1>7. job \in BuilderRow /\ job.b \in Builds BY <1>5 DEF BuilderRow, BuilderPcs, Failures
<1>8. /\ row \in RunRow /\ row.state = "running" /\ row.live /\ row.attempt = attempt
      /\ row.made = run[b].made /\ row.notices = 0
  BY <1>2, <1>4, <1>5, <1>6 DEF RunRow
<1> HIDE DEF row, job
<1>9. gfaults' \in 0..gfaults BY <1>t, <1>1 DEF GraphParts
<1>10. row.attempt + gfaults' <= GraphFaults + 1 BY <1>1, <1>5, <1>8
<1>11. row.notices = IF row.state \in Ended THEN 1 ELSE 0 BY <1>8 DEF Ended
<1>12. run' \in [Builds -> RunRow] /\ OneLiveRun' /\ RunsSound'
  BY <1>t, <1>1, <1>8, <1>9, <1>10, <1>11, RunWritten DEF GraphParts
<1>13. gw' \in [GraphWorkers -> BuilderRow] /\ BuildersSound'
  <2>1. gw' \in [GraphWorkers -> BuilderRow] BY <1>t, <1>1, <1>7 DEF GraphParts
  <2>2. gw'[w] = job /\ \A v \in GraphWorkers : v # w => gw'[v] = gw[v]
    BY <1>t, <1>1 DEF GraphParts
  <2> QED BY <1>7, <2>1, <2>2 DEF GraphInv, BuildersSound
<1>14. GraphTypeOK' BY <1>t, <1>1, <1>12, <1>13, GraphTyped DEF GraphParts
<1> QED BY <1>12, <1>13, <1>14 DEF GraphInv

LEMMA ReceiptStep ==
    ASSUME GraphInv, NEW w \in GraphWorkers, RecordReceipt(w)
    PROVE  GraphInv'
<1>t. GraphParts BY PartsHold
<1> DEFINE b == gw[w].b
           row == [run[b] EXCEPT !.receipt = gw[w].attempt]
<1>0. gw[w].pc = "staged" BY DEF RecordReceipt
<1>1. b \in Builds /\ gw[w] \in BuilderRow BY <1>t, <1>0 DEF GraphInv, BuildersSound, GraphParts
<1>2. CASE HasLease(w)
  <2>1. /\ run' = [run EXCEPT ![b] = row] /\ Step(w, "receipted")
        /\ UNCHANGED <<src, acks, gop, creator, comp, facts, activeB, profile, cleanup, gfaults>>
    BY <1>2 DEF RecordReceipt
  <2>2. run[b] \in RunRow /\ RunSound(b) BY <1>t, <1>1 DEF GraphInv, RunsSound, GraphParts
  <2>3. /\ row \in RunRow /\ row.state = run[b].state /\ row.made = run[b].made
        /\ row.notices = run[b].notices /\ row.attempt = run[b].attempt /\ row.live = run[b].live
    BY <1>1, <2>2 DEF RunRow, BuilderRow
  <2> HIDE DEF row, b
  <2>4. gfaults' \in 0..gfaults BY <1>t, <2>1 DEF GraphParts
  <2>5. run' \in [Builds -> RunRow] /\ OneLiveRun' /\ RunsSound'
    BY <1>t, <1>1, <2>1, <2>2, <2>3, <2>4, RunWritten DEF RunSound, GraphParts
  <2>6. gw' \in [GraphWorkers -> BuilderRow] /\ BuildersSound'
    BY <1>0, <2>1, BuilderMoves DEF BuilderPcs
  <2>7. GraphTypeOK' BY <1>t, <2>1, <2>5, <2>6, GraphTyped DEF GraphParts
  <2> QED BY <2>5, <2>6, <2>7 DEF GraphInv
<1>3. CASE ~HasLease(w)
  <2>1. /\ Rest(w) /\ Discard(b, "disabled", FALSE)
        /\ UNCHANGED <<src, run, gop, creator, activeB, profile, cleanup, gfaults>>
    BY <1>3 DEF RecordReceipt
  <2>2. /\ comp' \in [Builds -> ComponentRows] /\ facts' \in [Builds -> 0..MaxAttempt]
        /\ acks' \subseteq AckSet
    BY <1>1, <2>1, DiscardTyped
  <2> QED BY <1>t, <1>0, <2>1, <2>2, BuilderKeeps DEF GraphParts
<1> QED BY <1>2, <1>3

LEMMA EndStep ==
    ASSUME GraphInv, NEW w \in GraphWorkers, CompleteRun(w) \/ FailRun(w)
    PROVE  GraphInv'
<1>t. GraphParts BY PartsHold
<1> DEFINE b == gw[w].b
<1>0. gw[w].pc \in {"released", "failing"} /\ gw[w].pc # "idle" BY DEF CompleteRun, FailRun
<1>1. b \in Builds /\ gw[w] \in BuilderRow BY <1>t, <1>0 DEF GraphInv, BuildersSound, GraphParts
<1>2. ASSUME HasLease(w), NEW to \in Ended, NEW why \in Failures, EndRun(b, to, why),
             Rest(w) \/ Step(w, "discarding"), acks' \subseteq AckSet,
             UNCHANGED <<src, gop, creator, comp, facts, activeB, profile, cleanup, gfaults>>
      PROVE  GraphInv'
  <2>1. run[b].state \in {"queued", "running"} BY <1>2 DEF HasLease
  <2>2. run' \in [Builds -> RunRow] /\ OneLiveRun' /\ RunsSound' BY <1>1, <1>2, <2>1, RunEnds
  <2>3. gw' \in [GraphWorkers -> BuilderRow] /\ BuildersSound'
    BY <1>0, <1>2, BuilderMoves DEF BuilderPcs
  <2>4. GraphTypeOK' BY <1>t, <1>2, <2>2, <2>3, GraphTyped DEF GraphParts
  <2> QED BY <2>2, <2>3, <2>4 DEF GraphInv
<1>3. ASSUME Rest(w) \/ Failing(w, "source"),
             UNCHANGED <<src, run, acks, gop, creator, comp, facts, activeB, profile, cleanup, gfaults>>
      PROVE  GraphInv'
  BY <1>t, <1>0, <1>3, BuilderKeeps DEF GraphParts, Failures
<1>4. CASE CompleteRun(w)
  <2>1. CASE HasLease(w) /\ MayAck("graph", run[b].rev, "release")
    <3>1. /\ EndRun(b, "succeeded", "none") /\ Rest(w)
          /\ acks' = acks \cup {<<"graph", run[b].rev, "release">>}
          /\ UNCHANGED <<src, gop, creator, comp, facts, activeB, profile, cleanup, gfaults>>
      BY <1>4, <2>1 DEF CompleteRun
    <3>2. <<"graph", run[b].rev, "release">> \in AckSet BY <2>1, AckTyped
    <3>3. acks' \subseteq AckSet BY <1>t, <3>1, <3>2 DEF GraphParts
    <3>4. "succeeded" \in Ended /\ "none" \in Failures BY DEF Ended, Failures
    <3> QED BY <1>2, <2>1, <3>1, <3>3, <3>4
  <2>2. CASE ~(HasLease(w) /\ MayAck("graph", run[b].rev, "release"))
    BY <1>3, <1>4, <2>2 DEF CompleteRun
  <2> QED BY <2>1, <2>2
<1>5. CASE FailRun(w)
  <2>1. CASE HasLease(w)
    <3>1. /\ EndRun(b, "failed", gw[w].why) /\ Step(w, "discarding")
          /\ UNCHANGED <<src, acks, gop, creator, comp, facts, activeB, profile, cleanup, gfaults>>
      BY <1>5, <2>1 DEF FailRun
    <3>2. "failed" \in Ended /\ gw[w].why \in Failures BY <1>1 DEF Ended, BuilderRow
    <3>3. acks' \subseteq AckSet BY <1>t, <3>1 DEF GraphParts
    <3> QED BY <1>2, <2>1, <3>1, <3>2, <3>3
  <2>2. CASE ~HasLease(w) BY <1>3, <1>5, <2>2 DEF FailRun
  <2> QED BY <2>1, <2>2
<1> QED BY <1>4, <1>5

\* extraction, staging, release and discarding leave the runs alone
LEMMA BuildStageStep ==
    ASSUME GraphInv, NEW w \in GraphWorkers,
           \/ Extract(w) \/ ActivateFacts(w) \/ StageComponent(w) \/ ReleaseComponent(w)
           \/ DiscardFailed(w)
    PROVE  GraphInv'
<1>t. GraphParts BY PartsHold
<1> DEFINE b == gw[w].b
<1>0. gw[w].pc # "idle"
  BY DEF Extract, ActivateFacts, StageComponent, ReleaseComponent, DiscardFailed
<1>1. b \in Builds /\ gw[w] \in BuilderRow BY <1>t, <1>0 DEF GraphInv, BuildersSound, GraphParts
<1>2. gw[w].attempt \in 0..MaxAttempt /\ 0 \in 0..MaxAttempt BY <1>1, AttemptNumbers DEF BuilderRow
<1>3. CASE Extract(w)
  <2>1. /\ \/ Rest(w) \/ Step(w, "extracted") \/ Failing(w, "grant") \/ Failing(w, "provider")
        /\ UNCHANGED <<src, run, acks, gop, creator, comp, facts, activeB, profile, cleanup, gfaults>>
    BY <1>3 DEF Extract
  <2> QED BY <1>t, <1>0, <2>1, BuilderKeeps DEF GraphParts, Failures, BuilderPcs
<1>4. CASE ActivateFacts(w)
  <2>1. /\ \/ Rest(w) \/ Step(w, "activated") \/ Failing(w, "source")
        /\ UNCHANGED facts \/ facts' = [facts EXCEPT ![b] = gw[w].attempt]
        /\ UNCHANGED <<src, run, acks, gop, creator, comp, activeB, profile, cleanup, gfaults>>
    BY <1>4 DEF ActivateFacts
  <2>2. facts' \in [Builds -> 0..MaxAttempt] BY <1>t, <1>2, <2>1 DEF GraphParts
  <2> QED BY <1>t, <1>0, <2>1, <2>2, BuilderKeeps DEF GraphParts, Failures, BuilderPcs
<1>5. CASE StageComponent(w)
  <2>1. UNCHANGED <<src, run, gop, creator, activeB, profile, cleanup, gfaults>>
    BY <1>5 DEF StageComponent
  <2>2. \/ Rest(w) \/ Step(w, "staged")
        \/ Failing(w, "grant") \/ Failing(w, "source") \/ Failing(w, "conflict")
    BY <1>5 DEF StageComponent
  <2>3. \/ PurgeRows(w) /\ UNCHANGED <<comp, acks>>
        \/ Discard(b, "stale", MayAck("indexing", run[b].rev, "discard"))
        \/ Discard(b, "disabled", MayAck("indexing", run[b].rev, "discard"))
        \/ /\ UNCHANGED <<facts, acks>>
           /\ comp' = [comp EXCEPT ![b] = [state |-> "staged", receipt |-> gw[w].attempt]]
    BY <1>5 DEF StageComponent
  <2>4. /\ comp' \in [Builds -> ComponentRows] /\ facts' \in [Builds -> 0..MaxAttempt]
        /\ acks' \subseteq AckSet
    <3>1. CASE PurgeRows(w) /\ UNCHANGED <<comp, acks>>
      BY <1>t, <1>2, <3>1 DEF GraphParts, PurgeRows
    <3>2. ASSUME NEW state \in {"stale", "disabled"},
                 Discard(b, state, MayAck("indexing", run[b].rev, "discard"))
          PROVE  /\ comp' \in [Builds -> ComponentRows] /\ facts' \in [Builds -> 0..MaxAttempt]
                 /\ acks' \subseteq AckSet
      <4>1. MayAck("indexing", run[b].rev, "discard") \in BOOLEAN BY DEF MayAck, Held
      <4> QED BY <1>1, <3>2, <4>1, DiscardTyped
    <3>3. CASE /\ UNCHANGED <<facts, acks>>
               /\ comp' = [comp EXCEPT ![b] = [state |-> "staged", receipt |-> gw[w].attempt]]
      <4>1. [state |-> "staged", receipt |-> gw[w].attempt] \in ComponentRows
        BY <1>2 DEF ComponentRows
      <4> QED BY <1>t, <3>3, <4>1 DEF GraphParts
    <3> QED BY <2>3, <3>1, <3>2, <3>3
  <2> QED BY <1>t, <1>0, <2>1, <2>2, <2>4, BuilderKeeps DEF GraphParts, Failures, BuilderPcs
<1>6. CASE ReleaseComponent(w)
  <2>1. UNCHANGED <<src, run, gop, creator, profile, cleanup, gfaults>>
    BY <1>6 DEF ReleaseComponent
  <2>2. \/ Rest(w) \/ Step(w, "released")
        \/ Failing(w, "receipt") \/ Failing(w, "source") \/ Failing(w, "gate")
    BY <1>6 DEF ReleaseComponent
  <2>3. \/ UNCHANGED <<acks, comp, facts, activeB>>
        \/ /\ UNCHANGED activeB
           /\ Discard(b, "disabled", MayAck("indexing", run[b].rev, "discard"))
        \/ /\ ReleaseCurrent(b) /\ acks' = acks \cup {<<"indexing", run[b].rev, "release">>}
           /\ comp' = [comp EXCEPT ![b] = Ready(b)] /\ activeB' = b /\ UNCHANGED facts
    BY <1>6 DEF ReleaseComponent
  <2>4. /\ comp' \in [Builds -> ComponentRows] /\ facts' \in [Builds -> 0..MaxAttempt]
        /\ acks' \subseteq AckSet /\ activeB' \in Builds \cup {NoBuild}
    <3>1. CASE UNCHANGED <<acks, comp, facts, activeB>> BY <1>t, <3>1 DEF GraphParts
    <3>2. CASE /\ UNCHANGED activeB
               /\ Discard(b, "disabled", MayAck("indexing", run[b].rev, "discard"))
      <4>1. MayAck("indexing", run[b].rev, "discard") \in BOOLEAN BY DEF MayAck, Held
      <4> QED BY <1>t, <1>1, <3>2, <4>1, DiscardTyped DEF GraphParts
    <3>3. CASE /\ ReleaseCurrent(b) /\ acks' = acks \cup {<<"indexing", run[b].rev, "release">>}
               /\ comp' = [comp EXCEPT ![b] = Ready(b)] /\ activeB' = b /\ UNCHANGED facts
      <4>1. Ready(b) \in ComponentRows BY <1>t, <1>1 DEF Ready, ComponentRows, GraphParts
      <4>2. <<"indexing", run[b].rev, "release">> \in AckSet BY <3>3, AckTyped DEF ReleaseCurrent
      <4> QED BY <1>t, <1>1, <3>3, <4>1, <4>2 DEF GraphParts
    <3> QED BY <2>3, <3>1, <3>2, <3>3
  <2> QED BY <1>t, <1>0, <2>1, <2>2, <2>4, BuilderKeeps DEF GraphParts, Failures, BuilderPcs
<1>7. CASE DiscardFailed(w)
  <2>1. /\ Rest(w) /\ DiscardStaging(b, 0)
        /\ UNCHANGED <<src, run, gop, creator, activeB, profile, cleanup, gfaults>>
    BY <1>7 DEF DiscardFailed
  <2>2. /\ comp' \in [Builds -> ComponentRows] /\ facts' \in [Builds -> 0..MaxAttempt]
        /\ acks' \subseteq AckSet
    BY <1>1, <2>1, DiscardStagingTyped
  <2> QED BY <1>t, <1>0, <2>1, <2>2, BuilderKeeps DEF GraphParts
<1> QED BY <1>3, <1>4, <1>5, <1>6, <1>7

\* the process of a worker ends, and the lease with it
LEMMA BuilderCrashStep ==
    ASSUME GraphInv, NEW w \in GraphWorkers, WorkerCrash(w)
    PROVE  GraphInv'
<1>t. GraphParts BY PartsHold
<1> DEFINE b == gw[w].b
           row == [run[b] EXCEPT !.live = FALSE]
<1>1. /\ gfaults > 0 /\ gfaults' = gfaults - 1 /\ Rest(w)
      /\ \/ HasLease(w) /\ run' = [run EXCEPT ![b] = row]
         \/ run' = run
      /\ UNCHANGED <<src, acks, gop, creator, comp, facts, activeB, profile, cleanup>>
  BY DEF WorkerCrash
<1>2. gfaults' \in 0..gfaults /\ gfaults' \in 0..GraphFaults
  BY <1>t, <1>1, AttemptNumbers DEF GraphParts
<1>3. gw' \in [GraphWorkers -> BuilderRow] /\ BuildersSound'
  <2>1. IdleBuilder \in BuilderRow /\ IdleBuilder.pc = "idle"
    BY AttemptNumbers DEF IdleBuilder, BuilderRow, BuilderPcs, Failures
  <2>2. gw' = [gw EXCEPT ![w] = IdleBuilder] BY <1>1 DEF Rest
  <2>3. gw'[w] = IdleBuilder /\ \A v \in GraphWorkers : v # w => gw'[v] = gw[v]
    BY <1>t, <2>2 DEF GraphParts
  <2> QED BY <1>t, <2>1, <2>2, <2>3 DEF GraphInv, BuildersSound, GraphParts
<1>4. run' \in [Builds -> RunRow] /\ OneLiveRun' /\ RunsSound'
  <2>1. CASE run' = run BY <1>t, <1>1, <1>2, <2>1, RunsStand DEF GraphParts
  <2>2. CASE b \in Builds /\ HasLease(w) /\ run' = [run EXCEPT ![b] = row]
    <3>1. run[b].state = "running" BY <2>2 DEF HasLease
    <3>2. run[b] \in RunRow /\ RunSound(b) BY <1>t, <2>2 DEF GraphInv, RunsSound, GraphParts
    <3>3. /\ row \in RunRow /\ row.state = run[b].state /\ row.made = run[b].made
          /\ row.notices = run[b].notices /\ row.attempt = run[b].attempt
      BY <3>2 DEF RunRow
    <3>0. run[b].attempt \in Nat BY <3>2, AttemptNumbers DEF RunRow
    <3> HIDE DEF row, b
    <3>4. run[b].attempt + gfaults <= GraphFaults + 1 BY <3>2 DEF RunSound
    <3>5. row.attempt + gfaults' <= GraphFaults /\ row.attempt + gfaults' <= GraphFaults + 1
      BY <1>t, <1>1, <3>0, <3>3, <3>4, AttemptNumbers DEF GraphParts
    <3> QED BY <1>t, <1>1, <1>2, <2>2, <3>1, <3>2, <3>3, <3>5, RunWritten DEF RunSound, GraphParts
  <2>3. CASE b \notin Builds /\ run' = [run EXCEPT ![b] = row]
    <3>1. run' = run BY <1>t, <2>3 DEF GraphParts
    <3> QED BY <2>1, <3>1
  <2> QED BY <1>1, <2>1, <2>2, <2>3
<1>5. GraphTypeOK' BY <1>t, <1>1, <1>2, <1>3, <1>4, GraphTyped DEF GraphParts
<1> QED BY <1>3, <1>4, <1>5 DEF GraphInv

LEMMA GraphStep == GraphInv /\ [GraphNext]_graphVars => GraphInv'
<1> SUFFICES ASSUME GraphInv, [GraphNext]_graphVars PROVE GraphInv' OBVIOUS
<1>1. CASE SourceChanges BY <1>1, SourceStep
<1>2. ASSUME NEW c \in Creators,
             \/ \E b \in Builds : FreezeSource(c, b)
             \/ CreateRun(c) \/ RefuseCreate(c) \/ CreatorCrash(c)
      PROVE  GraphInv'
  BY <1>2, CreatorStep, CreateStep
<1>3. ASSUME NEW w \in GraphWorkers, BuildStep(w) \/ WorkerCrash(w) PROVE GraphInv'
  BY <1>3, ClaimStep, ReceiptStep, EndStep, BuildStageStep, BuilderCrashStep DEF BuildStep
<1>4. ASSUME NEW b \in Builds,
             \/ Cancel(b) \/ CleanUp(b) \/ CleanUpCrash(b) \/ ExpireGrant(b)
             \/ ExpireLease(b) \/ JudgeProfile(b) \/ Requeue(b) \/ ReadGraph(b)
      PROVE  GraphInv'
  BY <1>4, BesideStep, RowStep
<1>5. CASE UNCHANGED graphVars
  <2>1. /\ UNCHANGED <<src, acks, run, gop, creator, comp, facts, activeB, profile, gw, cleanup, gfaults>>
    BY <1>5 DEF graphVars
  <2>2. GraphTypeOK' BY <2>1, PartsHold, GraphTyped DEF GraphParts
  <2> QED BY <2>1, <2>2, AllRunsStand, BuildersStand DEF GraphInv
<1> QED BY <1>1, <1>2, <1>3, <1>4, <1>5 DEF GraphNext

\* What the invariant gives
LEMMA GraphPromise == GraphInv => GraphSafe
<1> SUFFICES ASSUME GraphInv PROVE GraphSafe OBVIOUS
<1> DEFINE alive == {b \in Builds : run[b].state \in {"queued", "running"}}
<1>1. Cardinality(alive) <= 1
  <2>1. CASE alive = {} BY <2>1, FS_EmptySet
  <2>2. ASSUME NEW b \in alive PROVE Cardinality(alive) <= 1
    <3>1. alive = {b} BY <2>2 DEF GraphInv, OneLiveRun
    <3> HIDE DEF alive
    <3> QED BY <3>1, FS_Singleton
  <2> QED BY <2>1, <2>2
<1>2. \A b \in Builds :
         /\ run[b].made <= 1
         /\ run[b].notices = IF run[b].state \in Ended THEN 1 ELSE 0
  BY DEF GraphInv, RunsSound, RunSound
<1> QED BY <1>1, <1>2 DEF GraphSafe, OneRun, GraphInv

\* the active generation changes only as its attempt releases it
LEMMA ActiveStep == GraphInv /\ [GraphNext]_graphVars => CurrentRelease
<1> SUFFICES ASSUME GraphInv, [GraphNext]_graphVars, activeB' # activeB
             PROVE  /\ run[activeB'].state = "running" /\ run[activeB'].live
                    /\ run[activeB'].rev = src
                    /\ comp'[activeB'].receipt = run[activeB'].attempt
  BY DEF CurrentRelease
<1>t. GraphParts BY PartsHold
<1>1. PICK w \in GraphWorkers : ReleaseComponent(w)
  <2>1. ~SourceChanges BY DEF SourceChanges
  <2>2. ~ \E c \in Creators : \/ \E b \in Builds : FreezeSource(c, b)
                              \/ CreateRun(c) \/ RefuseCreate(c) \/ CreatorCrash(c)
    BY DEF FreezeSource, CreateRun, RefuseCreate, CreatorCrash
  <2>3. ~ \E b \in Builds :
            \/ Cancel(b) \/ CleanUp(b) \/ CleanUpCrash(b) \/ ExpireGrant(b)
            \/ ExpireLease(b) \/ JudgeProfile(b) \/ Requeue(b) \/ ReadGraph(b)
    BY DEF Cancel, CleanUp, CleanUpCrash, ExpireGrant, ExpireLease, JudgeProfile, Requeue, ReadGraph
  <2>4. ASSUME NEW w \in GraphWorkers, BuildStep(w) \/ WorkerCrash(w) PROVE ReleaseComponent(w)
    BY <2>4 DEF BuildStep, WorkerCrash, ClaimRun, Extract, ActivateFacts, StageComponent, RecordReceipt,
                CompleteRun, FailRun, DiscardFailed
  <2>5. ~UNCHANGED graphVars BY DEF graphVars
  <2> QED BY <2>1, <2>2, <2>3, <2>4, <2>5 DEF GraphNext
<1> DEFINE b == gw[w].b
<1>2. /\ HasLease(w) /\ Mine(w) /\ ReleaseCurrent(b) /\ activeB' = b
      /\ comp' = [comp EXCEPT ![b] = Ready(b)] /\ gw[w].pc = "receipted"
  BY <1>1 DEF ReleaseComponent
<1>3. b \in Builds BY <1>2 DEF GraphInv, BuildersSound
<1>4. comp'[b].receipt = comp[b].receipt
  BY <1>t, <1>2, <1>3 DEF GraphParts, Ready, ComponentRows
<1> QED BY <1>2, <1>4 DEF HasLease, Mine, ReleaseCurrent, HeadIs

\* One run is queued or running, a key makes one run however its requests are
\* taken over, and a run has its one notice when it ends, over any number of
\* requests, workers, lost leases and crashes (create, reserve_operation,
\* publish_completed).
THEOREM OneBuild == GraphSpec => []GraphSafe
BY GraphPromise, InitGraph, GraphStep, PTL DEF GraphSpec

\* The active generation changes only as the attempt that has the lease releases
\* its own component, built from the source as it is, whatever the attempts that
\* lost theirs still do (release_graph_component).
THEOREM Releasing == GraphSpec => ReleasesCurrent
BY InitGraph, GraphStep, ActiveStep, PTL DEF GraphSpec, ReleasesCurrent

-----------------------------------------------------------------------------
(* The requests of a user *)

\* A retry follows a failed attempt of its question, and no other follows it
Follows(g) ==
    asked[g].parent # 0 =>
        /\ asked[g].parent \in Asked
        /\ LET p == asked[asked[g].parent] IN
           /\ p.status = "failed"
           /\ asked[g].root = p.root /\ asked[g].body = p.body
           /\ asked[g].talk = p.talk /\ asked[g].gone = p.gone
           /\ asked[g].attempt = p.attempt + 1
           /\ asked[g].profile = p.profile
InLine ==
    /\ \A g \in Asked : Follows(g) /\ asked[g].root \in Asked
    /\ \A g, h \in Asked : asked[g].parent # 0 /\ asked[g].parent = asked[h].parent => g = h
    /\ \A r \in answered : r.kind = "retry" => asked[r.response].parent = r.target

\* What a retry has read stays true until it commits, since it holds the row of
\* the generation it retries
RetriesHold ==
    /\ \A r \in handling : r.kind = "retry" =>
          /\ Retryable(r.target) /\ asked[r.target].profile = deployed /\ asked[r.target].body = r.body
          /\ \A h \in Asked : asked[h].parent # r.target
    /\ \A r, s \in handling : r.kind = "retry" /\ s.kind = "retry" /\ r.target = s.target => r = s

Housed == NoOrphans /\ \A g \in Asked : talks[asked[g].talk] # "unused"

AskingInv ==
    /\ RequestsTypeOK /\ OneAnswerPerKey /\ InLine /\ OneSamplePerQuestion
    /\ FeedbackIsEarned /\ Housed /\ RetriesHold

LEMMA InitAsking == AskingInit => AskingInv
<1> SUFFICES ASSUME AskingInit PROVE AskingInv OBVIOUS
<1>1. asked = << >> /\ Asked = {} /\ answered = {} /\ handling = {} /\ opinions = {} /\ deployed = 1
  BY DEF AskingInit, Asked
<1>2. RequestsTypeOK
  <2>1. asked \in Seq(GenerationRow) BY <1>1
  <2> QED BY <1>1, <2>1 DEF AskingInit, RequestsTypeOK
<1>3. OneAnswerPerKey /\ InLine /\ OneSamplePerQuestion /\ FeedbackIsEarned /\ Housed /\ RetriesHold
  BY <1>1 DEF OneAnswerPerKey, InLine, OneSamplePerQuestion, FeedbackIsEarned, Housed, NoOrphans, RetriesHold
<1> QED BY <1>2, <1>3 DEF AskingInv

\* The generations stand: answers, opinions, conversations and transactions may
\* come, and transactions end
LEMMA GenerationsStand ==
    ASSUME AskingInv, UNCHANGED asked,
           talks' \in [Conversations -> {"unused", "live", "deleted"}],
           \A t \in Conversations : talks'[t] = talks[t] \/ talks[t] = "unused",
           \/ UNCHANGED answered
           \/ \E g \in Asked, k \in Keys : Recordable("retry", g, k)
                /\ \E h \in Retries(g) : Record("retry", g, k, asked[g].body, h),
           \/ UNCHANGED opinions
           \/ \E g \in Asked, v \in Bodies : /\ Alive(g) /\ TakesFeedback(g) /\ \A o \in opinions : o[1] # g
                                             /\ opinions' = opinions \cup {<<g, v>>},
           \/ handling' \subseteq handling /\ UNCHANGED deployed
           \/ handling' = {} /\ deployed' \in Nat
           \/ /\ UNCHANGED deployed
              /\ \E r : /\ handling' = handling \cup {r} /\ Targeted(r) /\ r.by \in Clients
                        /\ r.kind = "retry" =>
                             /\ Retryable(r.target) /\ ~RetryHeld(r.target) /\ Retries(r.target) = {}
                             /\ PreconditionsHold(r.target) /\ r.body = asked[r.target].body
    PROVE  AskingInv'
<1>t. /\ asked \in Seq(GenerationRow) /\ Asked = 1..Len(asked) /\ Len(asked) \in Nat
      /\ \A g \in Asked : asked[g] \in GenerationRow
  BY DEF AskingInv, RequestsTypeOK, Asked
<1>1. Asked' = Asked /\ (\A g : Alive(g)' <=> Alive(g)) /\ (\A g : TakesFeedback(g)' <=> TakesFeedback(g))
  BY DEF Asked, Alive, TakesFeedback
<1>2. \A h \in Asked, g \in Asked : asked[h].parent = g /\ Alive(g) => h \in Retries(g)
  <2>1. ASSUME NEW h \in Asked, NEW g \in Asked, asked[h].parent = g, Alive(g) PROVE h \in Retries(g)
    <3>1. g # 0 BY <1>t
    <3>2. asked[h].gone = asked[g].gone BY <2>1, <3>1 DEF AskingInv, InLine, Follows
    <3> QED BY <2>1, <3>2 DEF Retries, Alive
  <2> QED BY <2>1
<1>3. Housed' /\ OneSamplePerQuestion'
  <2>1. OneSamplePerQuestion' BY <1>1 DEF AskingInv, OneSamplePerQuestion
  <2>2. ASSUME NEW g \in Asked
        PROVE  (Alive(g)' <=> talks'[asked[g].talk] = "live") /\ talks'[asked[g].talk] # "unused"
    <3>1. asked[g].talk \in Conversations BY <1>t DEF GenerationRow
    <3>2. talks[asked[g].talk] # "unused" /\ (Alive(g) <=> talks[asked[g].talk] = "live")
      BY DEF AskingInv, Housed, NoOrphans
    <3>3. talks'[asked[g].talk] = talks[asked[g].talk] BY <3>1, <3>2
    <3> QED BY <1>1, <3>2, <3>3
  <2> QED BY <1>1, <2>1, <2>2 DEF Housed, NoOrphans
<1>4. OneAnswerPerKey' /\ InLine' /\ \A r \in answered' : Targeted(r)' /\ r.response \in Asked
  <2>0. \A r : Targeted(r)' <=> Targeted(r) BY <1>1 DEF Targeted
  <2>1. CASE UNCHANGED answered
    <3>1. \A g : Follows(g)' <=> Follows(g) BY <1>1 DEF Follows
    <3> QED BY <1>1, <2>0, <2>1, <3>1 DEF AskingInv, OneAnswerPerKey, InLine, RequestsTypeOK
  <2>2. ASSUME NEW g \in Asked, NEW k \in Keys, NEW h \in Retries(g), Recordable("retry", g, k),
               Record("retry", g, k, asked[g].body, h)
        PROVE  OneAnswerPerKey' /\ InLine' /\ \A r \in answered' : Targeted(r)' /\ r.response \in Asked
    <3>1. PICK row : /\ answered' = answered \cup {row} /\ row.kind = "retry" /\ row.target = g /\ row.key = k
                     /\ row.body = asked[g].body /\ row.response = h
      <4> DEFINE new == [kind |-> "retry", target |-> g, key |-> k, body |-> asked[g].body, response |-> h]
      <4>1. answered' = answered \cup {new} BY <2>2 DEF Record
      <4>2. /\ new.kind = "retry" /\ new.target = g /\ new.key = k
            /\ new.body = asked[g].body /\ new.response = h
        OBVIOUS
      <4> HIDE DEF new
      <4> QED BY <4>1, <4>2
    <3>2. h \in Asked /\ asked[h].parent = g BY DEF Retries
    <3>3. asked[h].body = asked[g].body BY <1>t, <3>2 DEF AskingInv, InLine, Follows
    <3>4. asked[g].body \in Bodies BY <1>t DEF GenerationRow
    <3>5. Targeted(row) BY <3>1, <3>4 DEF Targeted
    <3>6. \A r \in answered : ~(r.kind = "retry" /\ r.target = g /\ r.key = k)
      BY <2>2 DEF Recordable, Found
    <3>7. OneAnswerPerKey'
      <4>1. \A r, s \in answered' :
               /\ (r.kind = "ask" /\ s.kind = "ask" /\ r.response = s.response) => r = s
               /\ (r.kind = s.kind /\ r.target = s.target /\ r.key = s.key) => r = s
        BY <3>1, <3>6 DEF AskingInv, OneAnswerPerKey
      <4>2. \A r \in answered' : asked[r.response].body = r.body
        BY <3>1, <3>3 DEF AskingInv, OneAnswerPerKey
      <4>3. \A q \in Asked : \E r \in answered' : r.response = q
        BY <3>1 DEF AskingInv, OneAnswerPerKey
      <4> QED BY <1>1, <4>1, <4>2, <4>3 DEF OneAnswerPerKey
    <3>8. InLine'
      <4>1. \A q : Follows(q)' <=> Follows(q) BY <1>1 DEF Follows
      <4> QED BY <1>1, <3>1, <3>2, <4>1 DEF AskingInv, InLine
    <3> QED BY <2>0, <3>1, <3>2, <3>5, <3>7, <3>8 DEF AskingInv, RequestsTypeOK
  <2> QED BY <2>1, <2>2
<1>5. FeedbackIsEarned' /\ \A o \in opinions' : o = <<o[1], o[2]>> /\ o[1] \in Asked /\ o[2] \in Bodies
  BY <1>1 DEF AskingInv, FeedbackIsEarned, RequestsTypeOK
<1>6. RetriesHold' /\ deployed' \in Nat /\ \A r \in handling' : Targeted(r)' /\ r.by \in Clients
  <2>0. (\A r : Targeted(r)' <=> Targeted(r)) /\ (\A g : Retryable(g)' <=> Retryable(g))
    BY <1>1 DEF Targeted, Retryable
  <2>1. CASE handling' \subseteq handling /\ UNCHANGED deployed
    BY <1>1, <2>0, <2>1 DEF AskingInv, RetriesHold, RequestsTypeOK
  <2>2. CASE handling' = {} /\ deployed' \in Nat BY <2>2 DEF RetriesHold
  <2>3. ASSUME NEW r, UNCHANGED deployed, handling' = handling \cup {r}, Targeted(r), r.by \in Clients,
               r.kind = "retry" =>
                 /\ Retryable(r.target) /\ ~RetryHeld(r.target) /\ Retries(r.target) = {}
                 /\ PreconditionsHold(r.target) /\ r.body = asked[r.target].body
        PROVE  RetriesHold' /\ deployed' \in Nat /\ \A s \in handling' : Targeted(s)' /\ s.by \in Clients
    <3>1. r.kind = "retry" => r.target \in Asked /\ \A h \in Asked : asked[h].parent # r.target
      BY <1>2, <2>3 DEF Targeted, Retryable
    <3>2. \A s \in handling' : s.kind = "retry" =>
             /\ Retryable(s.target)' /\ asked'[s.target].profile = deployed' /\ asked'[s.target].body = s.body
             /\ \A h \in Asked' : asked'[h].parent # s.target
      BY <1>1, <2>0, <2>3, <3>1 DEF AskingInv, RetriesHold, PreconditionsHold
    <3>3. \A s, q \in handling' : s.kind = "retry" /\ q.kind = "retry" /\ s.target = q.target => s = q
      BY <2>3 DEF AskingInv, RetriesHold, RetryHeld
    <3>4. deployed' \in Nat /\ \A s \in handling' : Targeted(s)' /\ s.by \in Clients
      BY <2>0, <2>3 DEF AskingInv, RequestsTypeOK
    <3> QED BY <3>2, <3>3, <3>4 DEF RetriesHold
  <2> QED BY <2>1, <2>2, <2>3
<1>7. RequestsTypeOK'
  <2>1. asked' \in Seq(GenerationRow) BY <1>t
  <2> QED BY <1>1, <1>4, <1>5, <1>6, <2>1 DEF RequestsTypeOK
<1> QED BY <1>3, <1>4, <1>5, <1>6, <1>7 DEF AskingInv

\* the rows of the generations change in place: running ones end, open pairs are
\* decided, and those of deleted conversations go
LEMMA GenerationsMove ==
    ASSUME AskingInv, asked' \in Seq(GenerationRow), Asked' = Asked, NEW D \in SUBSET Conversations,
           \A g \in Asked :
              /\ asked'[g].talk = asked[g].talk /\ asked'[g].parent = asked[g].parent
              /\ asked'[g].root = asked[g].root /\ asked'[g].attempt = asked[g].attempt
              /\ asked'[g].body = asked[g].body /\ asked'[g].profile = asked[g].profile
              /\ asked'[g].status = asked[g].status \/ asked[g].status = "running"
              /\ asked'[g].pair = asked[g].pair \/ (asked[g].pair = "open" /\ asked'[g].pair # "none")
              /\ asked'[g].gone <=> asked[g].gone \/ asked[g].talk \in D
              /\ asked[g].talk \in D => ~RetryHeld(g),
           talks' \in [Conversations -> {"unused", "live", "deleted"}],
           \A t \in Conversations : /\ t \notin D => talks'[t] = talks[t]
                                    /\ t \in D => talks'[t] = "deleted",
           opinions' = {o \in opinions : asked[o[1]].talk \notin D},
           UNCHANGED <<answered, handling, deployed>>
    PROVE  AskingInv'
<1>t. /\ asked \in Seq(GenerationRow) /\ Asked = 1..Len(asked) /\ Len(asked) \in Nat
      /\ \A g \in Asked : asked[g] \in GenerationRow /\ asked'[g] \in GenerationRow
  BY DEF AskingInv, RequestsTypeOK, Asked
<1>0. \A r : Targeted(r)' <=> Targeted(r) BY DEF Targeted
<1>1. \A g \in Asked : Alive(g)' <=> Alive(g) /\ asked[g].talk \notin D BY DEF Alive
<1>2. OneAnswerPerKey'
  <2>1. \A r \in answered : asked'[r.response].body = r.body
    BY DEF AskingInv, OneAnswerPerKey, RequestsTypeOK
  <2> QED BY <2>1 DEF AskingInv, OneAnswerPerKey
<1>3. InLine'
  <2>1. ASSUME NEW g \in Asked, asked[g].parent # 0
        PROVE  /\ asked[g].parent \in Asked
               /\ asked'[asked[g].parent].status = "failed"
               /\ asked'[g].root = asked'[asked[g].parent].root /\ asked'[g].body = asked'[asked[g].parent].body
               /\ asked'[g].talk = asked'[asked[g].parent].talk /\ asked'[g].gone = asked'[asked[g].parent].gone
               /\ asked'[g].attempt = asked'[asked[g].parent].attempt + 1
               /\ asked'[g].profile = asked'[asked[g].parent].profile
    <3>1. PICK p \in Asked : /\ p = asked[g].parent /\ asked[p].status = "failed"
                             /\ asked[g].root = asked[p].root /\ asked[g].body = asked[p].body
                             /\ asked[g].talk = asked[p].talk /\ asked[g].gone = asked[p].gone
                             /\ asked[g].attempt = asked[p].attempt + 1
                             /\ asked[g].profile = asked[p].profile
      BY <2>1 DEF AskingInv, InLine, Follows
    <3>2. asked'[g].gone \in BOOLEAN /\ asked'[p].gone \in BOOLEAN BY <1>t DEF GenerationRow
    <3>3. asked'[g].gone = asked'[p].gone BY <3>1, <3>2
    <3>4. asked'[p].status = "failed" BY <3>1
    <3> QED BY <3>1, <3>3, <3>4
  <2>2. \A g \in Asked : Follows(g)' BY <2>1 DEF Follows
  <2>3. \A g \in Asked : asked'[g].root \in Asked BY DEF AskingInv, InLine
  <2>4. \A g, h \in Asked : asked'[g].parent # 0 /\ asked'[g].parent = asked'[h].parent => g = h
    BY DEF AskingInv, InLine
  <2>5. \A r \in answered : r.kind = "retry" => asked'[r.response].parent = r.target
    BY DEF AskingInv, InLine, RequestsTypeOK
  <2> QED BY <2>2, <2>3, <2>4, <2>5 DEF InLine
<1>4. OneSamplePerQuestion' BY DEF AskingInv, OneSamplePerQuestion
<1>5. FeedbackIsEarned'
  <2>1. ASSUME NEW o \in opinions' PROVE Alive(o[1])' /\ TakesFeedback(o[1])'
    <3>1. o \in opinions /\ o[1] \in Asked /\ asked[o[1]].talk \notin D BY DEF AskingInv, RequestsTypeOK
    <3>2. Alive(o[1]) /\ asked[o[1]].pair \in {"none", "chosen"}
      BY <3>1 DEF AskingInv, FeedbackIsEarned, TakesFeedback
    <3>3. asked'[o[1]].pair = asked[o[1]].pair BY <3>1, <3>2
    <3> QED BY <1>1, <3>1, <3>2, <3>3 DEF TakesFeedback
  <2> QED BY <2>1 DEF AskingInv, FeedbackIsEarned
<1>6. Housed'
  <2>1. ASSUME NEW g \in Asked
        PROVE  (Alive(g)' <=> talks'[asked'[g].talk] = "live") /\ talks'[asked'[g].talk] # "unused"
    <3>1. asked[g].talk \in Conversations /\ asked'[g].talk = asked[g].talk BY <1>t DEF GenerationRow
    <3>2. talks[asked[g].talk] # "unused" /\ (Alive(g) <=> talks[asked[g].talk] = "live")
      BY DEF AskingInv, Housed, NoOrphans
    <3>3. CASE asked[g].talk \in D
      <4>1. talks'[asked[g].talk] = "deleted" BY <3>1, <3>3
      <4> QED BY <1>1, <3>1, <3>3, <4>1
    <3>4. CASE asked[g].talk \notin D
      <4>1. talks'[asked[g].talk] = talks[asked[g].talk] BY <3>1, <3>4
      <4> QED BY <1>1, <3>1, <3>2, <3>4, <4>1
    <3> QED BY <3>3, <3>4
  <2> QED BY <2>1 DEF Housed, NoOrphans
<1>7. RetriesHold'
  <2>1. ASSUME NEW r \in handling, r.kind = "retry"
        PROVE  /\ Retryable(r.target)' /\ asked'[r.target].profile = deployed'
               /\ asked'[r.target].body = r.body /\ \A h \in Asked : asked'[h].parent # r.target
    <3>1. r.target \in Asked BY <2>1 DEF AskingInv, RequestsTypeOK, Targeted
    <3>2. /\ Alive(r.target) /\ asked[r.target].status = "failed" /\ asked[r.target].profile = deployed
          /\ asked[r.target].body = r.body /\ \A h \in Asked : asked[h].parent # r.target
      BY <2>1 DEF AskingInv, RetriesHold, Retryable
    <3>3. RetryHeld(r.target) BY <2>1 DEF RetryHeld
    <3>4. asked[r.target].talk \notin D /\ asked'[r.target].status = "failed" BY <3>1, <3>2, <3>3
    <3> QED BY <1>1, <3>1, <3>2, <3>4 DEF Retryable
  <2> QED BY <2>1 DEF AskingInv, RetriesHold
<1>8. RequestsTypeOK' BY <1>0 DEF AskingInv, RequestsTypeOK
<1> QED BY <1>2, <1>3, <1>4, <1>5, <1>6, <1>7, <1>8 DEF AskingInv

\* a generation is created with the row of its key, for an ask or a retry that
\* ends with it
LEMMA GenerationAdded ==
    ASSUME AskingInv, NEW r \in handling, NEW new \in GenerationRow,
           asked' = Append(asked, new), handling' = handling \ {r}, UNCHANGED <<opinions, deployed>>,
           Recordable(r.kind, r.target, r.key), Record(r.kind, r.target, r.key, r.body, Len(asked) + 1),
           ~new.gone, new.body = r.body, talks[new.talk] # "deleted",
           talks' = [talks EXCEPT ![new.talk] = "live"],
           \/ r.kind = "ask" /\ new.parent = 0 /\ new.root = Len(asked) + 1
           \/ /\ r.kind = "retry" /\ new.parent = r.target
              /\ new.root = asked[r.target].root /\ new.talk = asked[r.target].talk
              /\ new.attempt = asked[r.target].attempt + 1 /\ new.profile = deployed
              /\ new.pair # "none" => MayPair(new.root)
    PROVE  AskingInv'
<1>n. PICK n : n = Len(asked) OBVIOUS
<1>t. /\ asked \in Seq(GenerationRow) /\ Asked = 1..n /\ n \in Nat
      /\ \A g \in Asked : asked[g] \in GenerationRow
      /\ talks \in [Conversations -> {"unused", "live", "deleted"}]
  BY <1>n DEF AskingInv, RequestsTypeOK, Asked
<1>1. /\ asked' \in Seq(GenerationRow) /\ Asked' = 1..(n + 1) /\ Asked' = Asked \cup {n + 1} /\ n + 1 \notin Asked
      /\ asked'[n + 1] = new /\ \A g \in Asked : asked'[g] = asked[g]
  BY <1>t, <1>n DEF Asked
<1> DEFINE row == [kind |-> r.kind, target |-> r.target, key |-> r.key, body |-> r.body, response |-> n + 1]
<1>2. /\ answered' = answered \cup {row} /\ row.kind = r.kind /\ row.target = r.target /\ row.key = r.key
      /\ row.body = r.body /\ row.response = n + 1
  BY <1>n DEF Record
<1>3. \A q \in answered : ~(q.kind = r.kind /\ q.target = r.target /\ q.key = r.key) /\ q.response \in Asked
  BY DEF Recordable, Found, AskingInv, RequestsTypeOK
<1> HIDE DEF row
<1>4. \A g \in Asked : Alive(g)' <=> Alive(g) BY <1>1 DEF Alive
<1>5. OneAnswerPerKey'
  <2>1. \A q, s \in answered' :
           /\ (q.kind = "ask" /\ s.kind = "ask" /\ q.response = s.response) => q = s
           /\ (q.kind = s.kind /\ q.target = s.target /\ q.key = s.key) => q = s
    <3>1. \A q, s \in answered :
             /\ (q.kind = "ask" /\ s.kind = "ask" /\ q.response = s.response) => q = s
             /\ (q.kind = s.kind /\ q.target = s.target /\ q.key = s.key) => q = s
      BY DEF AskingInv, OneAnswerPerKey
    <3>2. \A s \in answered : ~(row.kind = s.kind /\ row.target = s.target /\ row.key = s.key)
      BY <1>2, <1>3
    <3>3. \A s \in answered : row.response # s.response BY <1>1, <1>2, <1>3
    <3> QED BY <1>2, <3>1, <3>2, <3>3
  <2>2. \A q \in answered' : asked'[q.response].body = q.body
    <3>1. \A q \in answered : asked'[q.response].body = q.body
      BY <1>1, <1>3 DEF AskingInv, OneAnswerPerKey
    <3>2. asked'[row.response].body = row.body BY <1>1, <1>2
    <3> QED BY <1>2, <3>1, <3>2
  <2>3. \A g \in Asked' : \E q \in answered' : q.response = g
    BY <1>1, <1>2 DEF AskingInv, OneAnswerPerKey
  <2> QED BY <2>1, <2>2, <2>3 DEF OneAnswerPerKey
<1>6. r.kind = "retry" =>
         /\ r.target \in Asked /\ Alive(r.target) /\ asked[r.target].status = "failed"
         /\ asked[r.target].profile = deployed /\ asked[r.target].body = r.body
         /\ \A h \in Asked : asked[h].parent # r.target
  BY DEF AskingInv, RetriesHold, Retryable, RequestsTypeOK, Targeted
<1>7. InLine'
  <2>1. ASSUME NEW g \in Asked PROVE Follows(g)' /\ asked'[g].root \in Asked'
    <3>1. Follows(g) /\ asked[g].root \in Asked BY DEF AskingInv, InLine
    <3>2. asked'[g] = asked[g] BY <1>1
    <3>3. asked[g].parent # 0 => asked[g].parent \in Asked /\ asked'[asked[g].parent] = asked[asked[g].parent]
      BY <1>1, <3>1 DEF Follows
    <3>4. asked'[g].root \in Asked' BY <1>1, <3>1, <3>2
    <3>5. asked'[g].parent # 0 => asked'[g].parent \in Asked' BY <1>1, <3>2, <3>3
    <3>6. Follows(g)' BY <3>1, <3>2, <3>3, <3>5 DEF Follows
    <3> QED BY <3>4, <3>6
  <2>2. Follows(n + 1)' /\ asked'[n + 1].root \in Asked'
    <3>1. CASE r.kind = "ask" /\ new.parent = 0 /\ new.root = n + 1 BY <1>1, <3>1 DEF Follows
    <3>2. CASE /\ r.kind = "retry" /\ new.parent = r.target
               /\ new.root = asked[r.target].root /\ new.talk = asked[r.target].talk
               /\ new.attempt = asked[r.target].attempt + 1 /\ new.profile = deployed
      <4>1. asked'[r.target] = asked[r.target] /\ asked[r.target].root \in Asked
        BY <1>1, <1>6, <3>2 DEF AskingInv, InLine
      <4>2. new.gone = asked[r.target].gone
        <5>1. new.gone \in BOOLEAN /\ asked[r.target].gone \in BOOLEAN BY <1>t, <1>6, <3>2 DEF GenerationRow
        <5>2. ~asked[r.target].gone BY <1>6, <3>2 DEF Alive
        <5> QED BY <5>1, <5>2
      <4>3. new.root \in Asked' /\ new.parent \in Asked' BY <1>1, <1>6, <3>2, <4>1
      <4>4. LET p == asked'[new.parent] IN
            /\ p.status = "failed" /\ new.root = p.root /\ new.body = p.body
            /\ new.talk = p.talk /\ new.gone = p.gone
            /\ new.attempt = p.attempt + 1 /\ new.profile = p.profile
        BY <1>6, <3>2, <4>1, <4>2
      <4> QED BY <1>1, <4>3, <4>4 DEF Follows
    <3> QED BY <1>n, <3>1, <3>2
  <2>3. ASSUME NEW g \in Asked', NEW h \in Asked', asked'[g].parent # 0, asked'[g].parent = asked'[h].parent
        PROVE  g = h
    <3>1. CASE g \in Asked /\ h \in Asked
      <4>1. asked'[g] = asked[g] /\ asked'[h] = asked[h] BY <1>1, <3>1
      <4>2. asked[g].parent # 0 /\ asked[g].parent = asked[h].parent BY <2>3, <4>1
      <4> QED BY <3>1, <4>2 DEF AskingInv, InLine
    <3>2. ASSUME NEW q \in Asked, asked[q].parent = new.parent PROVE new.parent = 0
      BY <1>6, <3>2
    <3>3. CASE g = n + 1 /\ h \in Asked
      <4>1. asked'[g] = new /\ asked'[h] = asked[h] BY <1>1, <3>3
      <4>2. asked[h].parent = new.parent /\ new.parent # 0 BY <2>3, <4>1
      <4> QED BY <3>2, <3>3, <4>2
    <3>4. CASE h = n + 1 /\ g \in Asked
      <4>1. asked'[h] = new /\ asked'[g] = asked[g] BY <1>1, <3>4
      <4>2. asked[g].parent = new.parent /\ new.parent # 0 BY <2>3, <4>1
      <4> QED BY <3>2, <3>4, <4>2
    <3> QED BY <1>1, <2>3, <3>1, <3>3, <3>4
  <2>4. \A q \in answered' : q.kind = "retry" => asked'[q.response].parent = q.target
    <3>1. \A q \in answered : q.kind = "retry" => asked'[q.response].parent = q.target
      BY <1>1, <1>3 DEF AskingInv, InLine
    <3>2. row.kind = "retry" => asked'[row.response].parent = row.target
      BY <1>1, <1>2
    <3> QED BY <1>2, <3>1, <3>2
  <2>5. \A g \in Asked' : Follows(g)' /\ asked'[g].root \in Asked' BY <1>1, <2>1, <2>2
  <2> QED BY <2>3, <2>4, <2>5 DEF InLine
<1>8. OneSamplePerQuestion'
  <2>1. ASSUME NEW g \in Asked, asked[g].root = new.root PROVE "none" \in {asked[g].pair, new.pair}
    <3>1. r.kind = "retry" BY <1>1, <1>n, <2>1 DEF AskingInv, InLine
    <3> QED BY <2>1, <3>1 DEF MayPair, Paired
  <2>2. ASSUME NEW g \in Asked', NEW h \in Asked', g # h, asked'[g].root = asked'[h].root
        PROVE  "none" \in {asked'[g].pair, asked'[h].pair}
    <3>1. CASE g \in Asked /\ h \in Asked
      <4>1. asked'[g] = asked[g] /\ asked'[h] = asked[h] BY <1>1, <3>1
      <4>2. asked[g].root = asked[h].root BY <2>2, <4>1
      <4> QED BY <2>2, <3>1, <4>1, <4>2 DEF AskingInv, OneSamplePerQuestion
    <3>2. CASE g = n + 1 /\ h \in Asked
      <4>1. asked'[g] = new /\ asked'[h] = asked[h] BY <1>1, <3>2
      <4>2. asked[h].root = new.root BY <2>2, <4>1
      <4> QED BY <2>1, <3>2, <4>1, <4>2
    <3>3. CASE h = n + 1 /\ g \in Asked
      <4>1. asked'[h] = new /\ asked'[g] = asked[g] BY <1>1, <3>3
      <4>2. asked[g].root = new.root BY <2>2, <4>1
      <4> QED BY <2>1, <3>3, <4>1, <4>2
    <3> QED BY <1>1, <2>2, <3>1, <3>2, <3>3
  <2> QED BY <2>2 DEF OneSamplePerQuestion
<1>9. FeedbackIsEarned'
  <2>1. ASSUME NEW o \in opinions PROVE Alive(o[1])' /\ TakesFeedback(o[1])'
    BY <1>1, <1>4 DEF AskingInv, FeedbackIsEarned, TakesFeedback, RequestsTypeOK
  <2> QED BY <2>1 DEF AskingInv, FeedbackIsEarned
<1>10. Housed'
  <2>1. new.talk \in Conversations BY DEF GenerationRow
  <2>2. ASSUME NEW g \in Asked
        PROVE  (Alive(g)' <=> talks'[asked'[g].talk] = "live") /\ talks'[asked'[g].talk] # "unused"
    <3>1. asked'[g].talk = asked[g].talk /\ asked[g].talk \in Conversations BY <1>1, <1>t DEF GenerationRow
    <3>2. talks[asked[g].talk] # "unused" /\ (Alive(g) <=> talks[asked[g].talk] = "live")
      BY DEF AskingInv, Housed, NoOrphans
    <3>3. talks'[asked[g].talk] = talks[asked[g].talk]
      BY <1>t, <2>1, <3>1, <3>2
    <3> QED BY <1>4, <3>1, <3>2, <3>3
  <2>3. Alive(n + 1)'
    <3>1. ~asked'[n + 1].gone BY <1>1
    <3>2. n + 1 \in Asked' BY <1>1
    <3> QED BY <3>1, <3>2 DEF Alive
  <2>4. talks'[asked'[n + 1].talk] = "live"
    <3>1. talks'[new.talk] = "live" BY <1>t, <2>1
    <3> QED BY <1>1, <3>1
  <2>5. \A g \in Asked' : g \in Asked \/ g = n + 1 BY <1>1
  <2>6. \A g \in Asked' : (Alive(g)' <=> talks'[asked'[g].talk] = "live") /\ talks'[asked'[g].talk] # "unused"
    BY <2>2, <2>3, <2>4, <2>5
  <2> QED BY <2>6 DEF Housed, NoOrphans
<1>11. RetriesHold'
  <2>1. ASSUME NEW s \in handling', s.kind = "retry"
        PROVE  /\ Retryable(s.target)' /\ asked'[s.target].profile = deployed'
               /\ asked'[s.target].body = s.body /\ \A h \in Asked' : asked'[h].parent # s.target
    <3>1. s \in handling /\ s # r /\ s.target \in Asked BY <2>1 DEF AskingInv, RequestsTypeOK, Targeted
    <3>2. /\ Alive(s.target) /\ asked[s.target].status = "failed" /\ asked[s.target].profile = deployed
          /\ asked[s.target].body = s.body /\ \A h \in Asked : asked[h].parent # s.target
      BY <2>1, <3>1 DEF AskingInv, RetriesHold, Retryable
    <3>3. new.parent # s.target
      <4>1. CASE r.kind = "ask" /\ new.parent = 0 BY <1>t, <3>1, <4>1
      <4>2. CASE r.kind = "retry" /\ new.parent = r.target BY <2>1, <3>1, <4>2 DEF AskingInv, RetriesHold
      <4> QED BY <4>1, <4>2
    <3> QED BY <1>1, <1>4, <3>1, <3>2, <3>3 DEF Retryable
  <2> QED BY <2>1 DEF AskingInv, RetriesHold
<1>12. RequestsTypeOK'
  <2>1. \A s : Targeted(s) => Targeted(s)' BY <1>1 DEF Targeted
  <2>2. Targeted(row)
    <3>1. Targeted(r) BY DEF AskingInv, RequestsTypeOK
    <3> QED BY <1>2, <3>1 DEF Targeted
  <2>3. \A s \in answered' : Targeted(s)' /\ s.response \in Asked'
    BY <1>1, <1>2, <2>1, <2>2 DEF AskingInv, RequestsTypeOK
  <2>4. talks' \in [Conversations -> {"unused", "live", "deleted"}] BY <1>t
  <2> QED BY <1>1, <2>1, <2>3, <2>4 DEF AskingInv, RequestsTypeOK
<1> QED BY <1>5, <1>7, <1>8, <1>9, <1>10, <1>11, <1>12 DEF AskingInv

LEMMA AsksStand ==
    ASSUME AskingInv,
           \/ \E c \in Clients, t \in Conversations \cup {AutoTalk}, k \in Keys, b \in Bodies :
                  BeginAsk(c, t, k, b)
           \/ \E c \in Clients, g \in Asked, k \in Keys : BeginRetry(c, g, k)
           \/ \E r \in handling : RollBack(r)
           \/ \E g \in Asked, k \in Keys : RetryAgain(g, k)
           \/ \E g \in Asked, v \in Bodies : SubmitFeedback(g, v)
           \/ \E t \in Conversations : CreateConversation(t)
           \/ Deploy
    PROVE  AskingInv'
<1>t. talks \in [Conversations -> {"unused", "live", "deleted"}] /\ deployed \in Nat /\ asked \in Seq(GenerationRow)
  BY DEF AskingInv, RequestsTypeOK
<1>1. ASSUME NEW c \in Clients, NEW t \in Conversations \cup {AutoTalk}, NEW k \in Keys, NEW b \in Bodies,
             BeginAsk(c, t, k, b)
      PROVE  AskingInv'
  <2>1. PICK r : /\ handling' = handling \cup {r} /\ r.by = c /\ r.kind = "ask" /\ r.target = t
                 /\ r.key = k /\ r.body = b
    <3> DEFINE new == [by |-> c, kind |-> "ask", target |-> t, key |-> k, body |-> b]
    <3>1. handling' = handling \cup {new} BY <1>1 DEF BeginAsk
    <3>2. new.by = c /\ new.kind = "ask" /\ new.target = t /\ new.key = k /\ new.body = b OBVIOUS
    <3> HIDE DEF new
    <3> QED BY <3>1, <3>2
  <2>2. Targeted(r) /\ r.by \in Clients /\ r.kind # "retry" BY <2>1 DEF Targeted
  <2>3. UNCHANGED <<talks, asked, answered, opinions, deployed>> BY <1>1 DEF BeginAsk
  <2> QED BY <1>t, <2>1, <2>2, <2>3, GenerationsStand
<1>2. ASSUME NEW c \in Clients, NEW g \in Asked, NEW k \in Keys, BeginRetry(c, g, k) PROVE AskingInv'
  <2>1. PICK r : /\ handling' = handling \cup {r} /\ r.by = c /\ r.kind = "retry" /\ r.target = g
                 /\ r.key = k /\ r.body = asked[g].body
    <3> DEFINE new == [by |-> c, kind |-> "retry", target |-> g, key |-> k, body |-> asked[g].body]
    <3>1. handling' = handling \cup {new} BY <1>2 DEF BeginRetry
    <3>2. new.by = c /\ new.kind = "retry" /\ new.target = g /\ new.key = k /\ new.body = asked[g].body OBVIOUS
    <3> HIDE DEF new
    <3> QED BY <3>1, <3>2
  <2>2. asked[g].body \in Bodies
    <3>1. asked[g] \in GenerationRow BY <1>t DEF Asked
    <3> QED BY <3>1 DEF GenerationRow
  <2>3. Targeted(r) /\ r.by \in Clients BY <2>1, <2>2 DEF Targeted
  <2>4. UNCHANGED <<talks, asked, answered, opinions, deployed>> BY <1>2 DEF BeginRetry
  <2>5. /\ Retryable(r.target) /\ ~RetryHeld(r.target) /\ Retries(r.target) = {}
        /\ PreconditionsHold(r.target) /\ r.body = asked[r.target].body
    BY <1>2, <2>1 DEF BeginRetry
  <2> QED BY <1>t, <2>1, <2>3, <2>4, <2>5, GenerationsStand
<1>3. ASSUME NEW r \in handling, RollBack(r) PROVE AskingInv'
  <2>1. handling' \subseteq handling /\ UNCHANGED <<talks, asked, answered, opinions, deployed>>
    BY <1>3 DEF RollBack
  <2> QED BY <1>t, <2>1, GenerationsStand
<1>4. ASSUME NEW g \in Asked, NEW k \in Keys, RetryAgain(g, k) PROVE AskingInv'
  <2>1. /\ Recordable("retry", g, k) /\ \E h \in Retries(g) : Record("retry", g, k, asked[g].body, h)
        /\ handling' \subseteq handling /\ UNCHANGED <<talks, asked, opinions, deployed>>
    BY <1>4 DEF RetryAgain
  <2> QED BY <1>t, <2>1, GenerationsStand
<1>5. ASSUME NEW g \in Asked, NEW v \in Bodies, SubmitFeedback(g, v) PROVE AskingInv'
  <2>1. /\ Alive(g) /\ TakesFeedback(g) /\ (\A o \in opinions : o[1] # g)
        /\ opinions' = opinions \cup {<<g, v>>}
        /\ handling' \subseteq handling /\ UNCHANGED <<talks, asked, answered, deployed>>
    BY <1>5 DEF SubmitFeedback
  <2> QED BY <1>t, <2>1, GenerationsStand
<1>6. ASSUME NEW t \in Conversations, CreateConversation(t) PROVE AskingInv'
  <2>1. /\ talks[t] = "unused" /\ talks' = [talks EXCEPT ![t] = "live"]
        /\ handling' \subseteq handling /\ UNCHANGED <<asked, answered, opinions, deployed>>
    BY <1>6 DEF CreateConversation
  <2>2. /\ talks' \in [Conversations -> {"unused", "live", "deleted"}]
        /\ \A s \in Conversations : talks'[s] = talks[s] \/ talks[s] = "unused"
    BY <1>t, <2>1
  <2> QED BY <2>1, <2>2, GenerationsStand
<1>7. CASE Deploy
  <2>1. handling' = {} /\ deployed' = deployed + 1 /\ UNCHANGED <<talks, asked, answered, opinions>>
    BY <1>7 DEF Deploy
  <2>2. deployed' \in Nat BY <1>t, <2>1
  <2> QED BY <1>t, <2>1, <2>2, GenerationsStand
<1> QED BY <1>1, <1>2, <1>3, <1>4, <1>5, <1>6, <1>7

SameAttempt(new, old) ==
    /\ new.talk = old.talk /\ new.parent = old.parent /\ new.root = old.root /\ new.attempt = old.attempt
    /\ new.body = old.body /\ new.profile = old.profile /\ new.gone = old.gone

LEMMA RowMoves ==
    ASSUME NEW p \in GenerationRow
    PROVE  /\ \A c \in {"chosen", "neither"} :
                 /\ [p EXCEPT !.pair = c] \in GenerationRow /\ SameAttempt([p EXCEPT !.pair = c], p)
                 /\ [p EXCEPT !.pair = c].status = p.status /\ [p EXCEPT !.pair = c].pair = c
           /\ \A c \in {"completed", "failed"} :
                 /\ [p EXCEPT !.status = c] \in GenerationRow /\ SameAttempt([p EXCEPT !.status = c], p)
                 /\ [p EXCEPT !.status = c].pair = p.pair /\ [p EXCEPT !.status = c].status = c
           /\ [p EXCEPT !.recent = FALSE] \in GenerationRow /\ SameAttempt([p EXCEPT !.recent = FALSE], p)
           /\ [p EXCEPT !.recent = FALSE].status = p.status /\ [p EXCEPT !.recent = FALSE].pair = p.pair
<1>1. ASSUME NEW c \in {"chosen", "neither"}
      PROVE  /\ [p EXCEPT !.pair = c] \in GenerationRow /\ SameAttempt([p EXCEPT !.pair = c], p)
             /\ [p EXCEPT !.pair = c].status = p.status /\ [p EXCEPT !.pair = c].pair = c
  BY DEF GenerationRow, SameAttempt
<1>2. ASSUME NEW c \in {"completed", "failed"}
      PROVE  /\ [p EXCEPT !.status = c] \in GenerationRow /\ SameAttempt([p EXCEPT !.status = c], p)
             /\ [p EXCEPT !.status = c].pair = p.pair /\ [p EXCEPT !.status = c].status = c
  BY DEF GenerationRow, SameAttempt
<1>3. /\ [p EXCEPT !.recent = FALSE] \in GenerationRow /\ SameAttempt([p EXCEPT !.recent = FALSE], p)
      /\ [p EXCEPT !.recent = FALSE].status = p.status /\ [p EXCEPT !.recent = FALSE].pair = p.pair
  BY DEF GenerationRow, SameAttempt
<1> QED BY <1>1, <1>2, <1>3

\* nothing is deleted
LEMMA RowsMove ==
    ASSUME AskingInv, asked' \in Seq(GenerationRow), Asked' = Asked,
           \A g \in Asked :
              /\ SameAttempt(asked'[g], asked[g])
              /\ asked'[g].status = asked[g].status \/ asked[g].status = "running"
              /\ asked'[g].pair = asked[g].pair \/ (asked[g].pair = "open" /\ asked'[g].pair # "none"),
           UNCHANGED <<talks, answered, handling, opinions, deployed>>
    PROVE  AskingInv'
<1>1. PICK D \in SUBSET Conversations : D = {} OBVIOUS
<1>2. \A g \in Asked :
         /\ asked'[g].talk = asked[g].talk /\ asked'[g].parent = asked[g].parent
         /\ asked'[g].root = asked[g].root /\ asked'[g].attempt = asked[g].attempt
         /\ asked'[g].body = asked[g].body /\ asked'[g].profile = asked[g].profile
         /\ asked'[g].gone <=> asked[g].gone \/ asked[g].talk \in D
         /\ asked[g].talk \in D => ~RetryHeld(g)
  BY <1>1 DEF SameAttempt
<1>3. talks' \in [Conversations -> {"unused", "live", "deleted"}] BY DEF AskingInv, RequestsTypeOK
<1>4. \A t \in Conversations : /\ t \notin D => talks'[t] = talks[t]
                               /\ t \in D => talks'[t] = "deleted"
  BY <1>1
<1>5. opinions' = {o \in opinions : asked[o[1]].talk \notin D} BY <1>1
<1> QED BY <1>2, <1>3, <1>4, <1>5, GenerationsMove

LEMMA GenerationMoves ==
    ASSUME AskingInv, NEW g \in Asked, NEW new \in GenerationRow, asked' = [asked EXCEPT ![g] = new],
           SameAttempt(new, asked[g]),
           new.status = asked[g].status \/ asked[g].status = "running",
           new.pair = asked[g].pair \/ (asked[g].pair = "open" /\ new.pair # "none"),
           UNCHANGED <<talks, answered, handling, opinions, deployed>>
    PROVE  AskingInv'
<1>1. asked \in Seq(GenerationRow) BY DEF AskingInv, RequestsTypeOK
<1>2. asked' \in Seq(GenerationRow) /\ Asked' = Asked BY <1>1 DEF Asked
<1>3. \A h \in Asked : SameAttempt(asked[h], asked[h]) BY DEF SameAttempt
<1>4. \A h \in Asked :
         /\ SameAttempt(asked'[h], asked[h])
         /\ asked'[h].status = asked[h].status \/ asked[h].status = "running"
         /\ asked'[h].pair = asked[h].pair \/ (asked[h].pair = "open" /\ asked'[h].pair # "none")
  BY <1>1, <1>3 DEF Asked
<1> QED BY <1>2, <1>4, RowsMove

LEMMA AsksMove ==
    ASSUME AskingInv,
           \/ \E g \in Asked, choice \in {"chosen", "neither"} : Vote(g, choice)
           \/ \E g \in Asked, s \in {"completed", "failed"} : EndGeneration(g, s)
           \/ MinutePasses
           \/ \E t \in Conversations : DeleteConversation(t)
    PROVE  AskingInv'
<1>t. /\ talks \in [Conversations -> {"unused", "live", "deleted"}] /\ asked \in Seq(GenerationRow)
      /\ Asked = 1..Len(asked) /\ Len(asked) \in Nat /\ \A g \in Asked : asked[g] \in GenerationRow
  BY DEF AskingInv, RequestsTypeOK, Asked
<1>0. ASSUME NEW f, f \in [Asked -> GenerationRow], asked' = f
      PROVE  asked' \in Seq(GenerationRow) /\ Asked' = Asked
  <2>1. DOMAIN f = 1..Len(asked) /\ \A i \in 1..Len(asked) : f[i] \in GenerationRow BY <1>0, <1>t
  <2>2. f \in Seq(GenerationRow) BY <1>0, <1>t
  <2> QED BY <1>0, <1>t, <2>1, <2>2 DEF Asked
<1>1. ASSUME NEW g \in Asked, NEW choice \in {"chosen", "neither"}, Vote(g, choice) PROVE AskingInv'
  <2>1. /\ asked[g].pair = "open" /\ asked' = [asked EXCEPT ![g].pair = choice]
        /\ UNCHANGED <<talks, answered, handling, opinions, deployed>>
    BY <1>1 DEF Vote
  <2>2. PICK new \in GenerationRow :
           asked' = [asked EXCEPT ![g] = new] /\ SameAttempt(new, asked[g])
           /\ new.status = asked[g].status /\ new.pair = choice
    <3>1. PICK p \in GenerationRow : p = asked[g] BY <1>t
    <3>2. PICK new : new = [p EXCEPT !.pair = choice] OBVIOUS
    <3>3. asked' = [asked EXCEPT ![g] = new] BY <2>1, <3>1, <3>2
    <3>4. new \in GenerationRow /\ SameAttempt(new, p) BY <3>2, RowMoves
    <3>5. new.status = p.status /\ new.pair = choice BY <3>2, RowMoves
    <3> QED BY <3>1, <3>3, <3>4, <3>5
  <2> QED BY <2>1, <2>2, GenerationMoves
<1>2. ASSUME NEW g \in Asked, NEW s \in {"completed", "failed"}, EndGeneration(g, s) PROVE AskingInv'
  <2>1. /\ asked[g].status = "running" /\ asked' = [asked EXCEPT ![g].status = s]
        /\ UNCHANGED <<talks, answered, handling, opinions, deployed>>
    BY <1>2 DEF EndGeneration
  <2>2. PICK new \in GenerationRow :
           asked' = [asked EXCEPT ![g] = new] /\ SameAttempt(new, asked[g])
           /\ new.status = s /\ new.pair = asked[g].pair
    <3>1. PICK p \in GenerationRow : p = asked[g] BY <1>t
    <3>2. PICK new : new = [p EXCEPT !.status = s] OBVIOUS
    <3>3. asked' = [asked EXCEPT ![g] = new] BY <2>1, <3>1, <3>2
    <3>4. new \in GenerationRow /\ SameAttempt(new, p) BY <3>2, RowMoves
    <3>5. new.pair = p.pair /\ new.status = s BY <3>2, RowMoves
    <3> QED BY <3>1, <3>3, <3>4, <3>5
  <2> QED BY <2>1, <2>2, GenerationMoves
<1>3. CASE MinutePasses
  <2>1. /\ asked' = [g \in Asked |-> [asked[g] EXCEPT !.recent = FALSE]]
        /\ UNCHANGED <<talks, answered, handling, opinions, deployed>>
    BY <1>3 DEF MinutePasses
  <2>2. \A h \in Asked : /\ asked'[h] \in GenerationRow /\ SameAttempt(asked'[h], asked[h])
                         /\ asked'[h].status = asked[h].status /\ asked'[h].pair = asked[h].pair
    BY <1>t, <2>1, RowMoves
  <2>3. asked' \in [Asked -> GenerationRow] BY <2>1, <2>2
  <2>4. asked' \in Seq(GenerationRow) /\ Asked' = Asked BY <1>0, <2>3
  <2> QED BY <2>1, <2>2, <2>4, RowsMove
<1>4. ASSUME NEW t \in Conversations, DeleteConversation(t) PROVE AskingInv'
  <2>1. /\ talks' = [talks EXCEPT ![t] = "deleted"]
        /\ asked' = [g \in Asked |-> [asked[g] EXCEPT !.gone = @ \/ asked[g].talk = t]]
        /\ opinions' = {o \in opinions : asked[o[1]].talk # t}
        /\ UNCHANGED <<answered, handling, deployed>>
        /\ \A g \in Asked : asked[g].talk = t => ~RetryHeld(g)
    BY <1>4 DEF DeleteConversation
  <2>2. ASSUME NEW g \in Asked PROVE [asked[g] EXCEPT !.gone = @ \/ asked[g].talk = t] \in GenerationRow
    <3>1. PICK p \in GenerationRow : p = asked[g] BY <1>t
    <3>2. PICK gone \in BOOLEAN : gone = (p.gone \/ p.talk = t) OBVIOUS
    <3>3. [p EXCEPT !.gone = gone] \in GenerationRow BY DEF GenerationRow
    <3> QED BY <3>1, <3>2, <3>3
  <2>3. asked' \in [Asked -> GenerationRow] BY <2>1, <2>2
  <2>4. asked' \in Seq(GenerationRow) /\ Asked' = Asked BY <1>0, <2>3
  <2>5. \A h \in Asked :
              /\ asked'[h].talk = asked[h].talk /\ asked'[h].parent = asked[h].parent
              /\ asked'[h].root = asked[h].root /\ asked'[h].attempt = asked[h].attempt
              /\ asked'[h].body = asked[h].body /\ asked'[h].profile = asked[h].profile
              /\ asked'[h].status = asked[h].status /\ asked'[h].pair = asked[h].pair
    BY <1>t, <2>1 DEF GenerationRow
  <2>6. \A h \in Asked : asked'[h].gone <=> asked[h].gone \/ asked[h].talk \in {t}
    BY <1>t, <2>1 DEF GenerationRow
  <2>7. \A h \in Asked : asked[h].talk \in {t} => ~RetryHeld(h) BY <2>1
  <2>8. opinions' = {o \in opinions : asked[o[1]].talk \notin {t}} BY <2>1
  <2>9. /\ talks' \in [Conversations -> {"unused", "live", "deleted"}]
        /\ \A s \in Conversations : /\ s \notin {t} => talks'[s] = talks[s]
                                    /\ s \in {t} => talks'[s] = "deleted"
    BY <1>t, <2>1
  <2>10. {t} \in SUBSET Conversations OBVIOUS
  <2> QED BY <2>1, <2>4, <2>5, <2>6, <2>7, <2>8, <2>9, <2>10, GenerationsMove
<1> QED BY <1>1, <1>2, <1>3, <1>4

LEMMA AsksEnd ==
    ASSUME AskingInv, NEW r \in handling, CommitAsk(r) \/ CommitRetry(r)
    PROVE  AskingInv'
<1>t. /\ talks \in [Conversations -> {"unused", "live", "deleted"}] /\ asked \in Seq(GenerationRow)
      /\ Asked = 1..Len(asked) /\ Len(asked) \in Nat /\ \A g \in Asked : asked[g] \in GenerationRow
      /\ deployed \in Nat /\ Targeted(r)
  BY DEF AskingInv, RequestsTypeOK, Asked
<1>1. CASE CommitAsk(r)
  <2>1. PICK talk \in Conversations, pair \in {"none", "open"} :
           /\ talks[talk] # "deleted" /\ talks' = [talks EXCEPT ![talk] = "live"]
           /\ CreateGeneration(Question(talk, r.body, pair))
    BY <1>1 DEF CommitAsk
  <2>2. /\ r.kind = "ask" /\ Recordable(r.kind, r.target, r.key)
        /\ Record(r.kind, r.target, r.key, r.body, Len(asked) + 1)
        /\ handling' = handling \ {r} /\ UNCHANGED <<opinions, deployed>>
    BY <1>1 DEF CommitAsk
  <2>3. Question(talk, r.body, pair) \in GenerationRow
    <3>1. r.body \in Bodies BY <1>t DEF Targeted
    <3>2. Len(asked) + 1 \in Nat BY <1>t
    <3> QED BY <1>t, <3>1, <3>2 DEF Question, GenerationRow
  <2>4. PICK new \in GenerationRow :
           /\ asked' = Append(asked, new) /\ ~new.gone /\ new.body = r.body /\ new.talk = talk
           /\ new.parent = 0 /\ new.root = Len(asked) + 1
    <3>1. /\ ~Question(talk, r.body, pair).gone /\ Question(talk, r.body, pair).body = r.body
          /\ Question(talk, r.body, pair).talk = talk
          /\ Question(talk, r.body, pair).parent = 0 /\ Question(talk, r.body, pair).root = Len(asked) + 1
      BY DEF Question
    <3> QED BY <2>1, <2>3, <3>1 DEF CreateGeneration
  <2>5. talks[new.talk] # "deleted" /\ talks' = [talks EXCEPT ![new.talk] = "live"] BY <2>1, <2>4
  <2> QED BY <2>2, <2>4, <2>5, GenerationAdded
<1>2. CASE CommitRetry(r)
  <2>1. PICK pair \in {"none", "open"} :
           /\ pair = "open" => MayPair(asked[r.target].root)
           /\ CreateGeneration(Repeat(r.target, pair))
    BY <1>2 DEF CommitRetry
  <2>2. /\ r.kind = "retry" /\ Record(r.kind, r.target, r.key, r.body, Len(asked) + 1)
        /\ handling' = handling \ {r} /\ UNCHANGED <<talks, opinions, deployed>>
    BY <1>2 DEF CommitRetry
  <2>3. /\ r.target \in Asked /\ Alive(r.target) /\ asked[r.target].body = r.body
        /\ asked[r.target] \in GenerationRow /\ \A h \in Asked : asked[h].parent # r.target
    BY <1>t, <2>2 DEF AskingInv, RetriesHold, Retryable, Targeted
  <2>4. Recordable(r.kind, r.target, r.key)
    <3>1. \A q \in answered : ~(q.kind = "retry" /\ q.target = r.target /\ q.key = r.key)
      BY <2>3 DEF AskingInv, InLine, RequestsTypeOK
    <3> QED BY <2>2, <3>1 DEF Recordable, Found
  <2>5. PICK new \in GenerationRow :
           /\ asked' = Append(asked, new) /\ new.gone = asked[r.target].gone /\ new.body = asked[r.target].body
           /\ new.talk = asked[r.target].talk /\ new.parent = r.target /\ new.root = asked[r.target].root
           /\ new.attempt = asked[r.target].attempt + 1 /\ new.profile = deployed /\ new.pair = pair
    <3>1. PICK p \in GenerationRow : p = asked[r.target] BY <2>3
    <3> DEFINE new == Repeat(r.target, pair)
    <3>2. new = [p EXCEPT !.parent = r.target, !.attempt = @ + 1, !.status = "running", !.pair = pair,
                          !.profile = deployed, !.recent = TRUE]
      BY <3>1 DEF Repeat
    <3>3. r.target \in Nat /\ p.attempt + 1 \in Nat /\ deployed \in Nat
      <4>1. p.attempt \in Nat BY DEF GenerationRow
      <4>2. p.attempt + 1 \in Nat BY <4>1
      <4>3. r.target \in Nat BY <1>t, <2>3
      <4> QED BY <1>t, <4>2, <4>3
    <3>4. new \in GenerationRow BY <3>2, <3>3 DEF GenerationRow
    <3>5. /\ new.gone = p.gone /\ new.body = p.body /\ new.talk = p.talk /\ new.parent = r.target
          /\ new.root = p.root /\ new.attempt = p.attempt + 1 /\ new.profile = deployed /\ new.pair = pair
      BY <3>2 DEF GenerationRow
    <3>6. asked' = Append(asked, new) BY <2>1 DEF CreateGeneration
    <3> HIDE DEF new
    <3> QED BY <3>1, <3>4, <3>5, <3>6
  <2>6. ~new.gone /\ new.body = r.body BY <2>3, <2>5 DEF Alive
  <2>7. new.pair # "none" => MayPair(new.root) BY <2>1, <2>5
  <2>8. talks[new.talk] = "live" /\ new.talk \in Conversations
    <3>1. talks[asked[r.target].talk] = "live" BY <2>3 DEF AskingInv, Housed, NoOrphans
    <3>2. asked[r.target].talk \in Conversations BY <2>3 DEF GenerationRow
    <3> QED BY <2>5, <3>1, <3>2
  <2>9. talks' = [talks EXCEPT ![new.talk] = "live"] BY <1>t, <2>2, <2>8
  <2> QED BY <2>2, <2>4, <2>5, <2>6, <2>7, <2>8, <2>9, GenerationAdded
<1> QED BY <1>1, <1>2

LEMMA AskingStep == AskingInv /\ [AskingNext]_requestVars => AskingInv'
<1> SUFFICES ASSUME AskingInv, [AskingNext]_requestVars PROVE AskingInv' OBVIOUS
<1>1. CASE UNCHANGED requestVars
  <2>1. UNCHANGED <<talks, asked, answered, handling, opinions, deployed>> BY <1>1 DEF requestVars
  <2>2. talks' \in [Conversations -> {"unused", "live", "deleted"}] BY <2>1 DEF AskingInv, RequestsTypeOK
  <2> QED BY <2>1, <2>2, GenerationsStand
<1>2. CASE AskingNext BY <1>2, AsksStand, AsksMove, AsksEnd DEF AskingNext
<1> QED BY <1>1, <1>2

LEMMA AskingPromise == AskingInv => RequestsSafe
<1> SUFFICES ASSUME AskingInv PROVE RequestsSafe OBVIOUS
<1>1. \A g \in Asked : g # 0 BY DEF AskingInv, RequestsTypeOK, Asked
<1>2. ASSUME NEW g \in Asked PROVE Cardinality({h \in Asked : asked[h].parent = g}) <= 1
  <2> DEFINE S == {h \in Asked : asked[h].parent = g}
  <2>1. \A h, k \in S : h = k BY <1>1 DEF AskingInv, InLine
  <2>2. S = {} \/ \E h \in S : S = {h} BY <2>1
  <2> HIDE DEF S
  <2>3. Cardinality(S) = 0 \/ Cardinality(S) = 1 BY <2>2, FS_EmptySet, FS_Singleton
  <2>4. Cardinality(S) <= 1 BY <2>3
  <2> QED BY <2>4 DEF S
<1>3. AttemptsFormALine BY <1>2 DEF AskingInv, InLine, Follows, AttemptsFormALine
<1> QED BY <1>3 DEF AskingInv, Housed, RequestsSafe

\* The asks, retries, votes, feedback and deletions of one user keep what the
\* rows of a conversation owe each other, in whatever order their reads and
\* writes interleave: one generation for a key, one line of attempts for a
\* question, one sampled pair for it, feedback only where it was earned
\* (app/chat/generation.py, conversations.py)
THEOREM Asking == AskingInit /\ [][AskingNext]_requestVars => []RequestsSafe
<1>1. AskingInit => AskingInv BY InitAsking
<1>2. AskingInv /\ [AskingNext]_requestVars => AskingInv' BY AskingStep
<1>3. AskingInv => RequestsSafe BY AskingPromise
<1> QED BY <1>1, <1>2, <1>3, PTL

-----------------------------------------------------------------------------
(* The context of an answer *)

Text == [hit : Chunks, whole : BOOLEAN, tokens : Nat]
Counts == [items : [ScopeSpaces -> Nat], tokens : [ScopeSpaces -> Nat], total : Nat]

\* The counters are the sums they stand for
TokensFit ==
    /\ IsFiniteSet(TextUnits(budgeted, DOMAIN budgeted))
    /\ counted.total = TokensOf(DOMAIN budgeted) /\ counted.total <= TokensCap
    /\ \A s \in ScopeSpaces : counted.tokens[s] = TokensOf(In(s)) /\ counted.tokens[s] <= TokensPerSpace

\* Only a parent block makes a text whole, and nothing after it repeats it
BlocksOnce ==
    /\ \A i \in DOMAIN budgeted : budgeted[i].whole => HasParent(budgeted[i].hit)
    /\ ParentsOnce

\* In the first pass the items counted are those taken; later a space goes over
\* its quota only for a place that another one left
ItemsFit ==
    /\ pass = "first" => \A s \in ScopeSpaces :
          Cardinality(In(s)) = counted.items[s] /\ counted.items[s] <= ItemsPerSpace
    /\ \/ \A s \in ScopeSpaces : Cardinality(In(s)) <= ItemsPerSpace
       \/ PlacesLeft /\ Len(budgeted) <= TopK
    /\ pass = "backfill" => PlacesLeft

AssemblyInv == AssemblyTypeOK /\ TokensFit /\ BlocksOnce /\ ItemsFit

LEMMA AssemblyTyped ==
    /\ AssemblyTypeOK <=>
         /\ ranked \in Seq(Chunks) /\ deferred \in Seq(Chunks) /\ budgeted \in Seq(Text)
         /\ counted \in Counts /\ breaches \in Nat /\ pass \in {"first", "backfill", "done"}
    /\ AssemblyTypeOK' <=>
         /\ ranked' \in Seq(Chunks) /\ deferred' \in Seq(Chunks) /\ budgeted' \in Seq(Text)
         /\ counted' \in Counts /\ breaches' \in Nat /\ pass' \in {"first", "backfill", "done"}
BY DEF AssemblyTypeOK, Text, Counts

\* the tokens of a place more
LEMMA TextAdded ==
    ASSUME NEW texts, NEW places, IsFiniteSet(TextUnits(texts, places)), NEW i, i \notin places,
           texts[i].tokens \in Nat
    PROVE  /\ IsFiniteSet(TextUnits(texts, places \cup {i}))
           /\ Cardinality(TextUnits(texts, places \cup {i}))
                = Cardinality(TextUnits(texts, places)) + texts[i].tokens
<1> DEFINE one == {i} \X (1..texts[i].tokens)
           old == TextUnits(texts, places)
           n == texts[i].tokens
<1>1. TextUnits(texts, places \cup {i}) = old \cup one BY DEF TextUnits
<1>2. old \cap one = {} BY DEF TextUnits
<1>3. n \in Nat /\ IsFiniteSet(1..n) /\ Cardinality(1..n) = n
  <2>1. n \in Nat OBVIOUS
  <2> HIDE DEF n
  <2> QED BY <2>1, FS_Interval, 1 \in Int, n \in Int
<1>4. IsFiniteSet({i}) /\ Cardinality({i}) = 1 BY FS_Singleton
<1>5. IsFiniteSet(one) /\ Cardinality(one) = n
  <2>1. IsFiniteSet(one) /\ Cardinality(one) = Cardinality({i}) * Cardinality(1..n)
    BY <1>3, <1>4, FS_Product
  <2> QED BY <1>3, <1>4, <2>1
<1>6. IsFiniteSet(old) /\ Cardinality(old) \in Nat BY FS_CardinalityType
<1> HIDE DEF one, old, n
<1>7. /\ IsFiniteSet(old \cup one)
      /\ Cardinality(old \cup one) = Cardinality(old) + Cardinality(one) - Cardinality(old \cap one)
  BY <1>5, <1>6, FS_Union
<1>8. Cardinality(old \cap one) = 0 BY <1>2, FS_EmptySet
<1>9. Cardinality(old \cup one) = Cardinality(old) + n BY <1>3, <1>5, <1>6, <1>7, <1>8
<1> QED BY <1>1, <1>7, <1>9 DEF old, n

\* texts that agree on the places counted
LEMMA TextAgrees ==
    ASSUME NEW one, NEW two, NEW places, \A i \in places : one[i].tokens = two[i].tokens
    PROVE  TextUnits(one, places) = TextUnits(two, places)
BY DEF TextUnits

\* the counters of a context that stays as it is
LEMMA ContextStands ==
    ASSUME AssemblyInv, UNCHANGED <<budgeted, counted>>, ranked' \in Seq(Chunks), deferred' \in Seq(Chunks),
           breaches' \in Nat, pass' \in {"first", "backfill", "done"},
           pass' # pass => pass' # "first" /\ (pass' = "backfill" => PlacesLeft)
    PROVE  AssemblyInv'
<1>1. \A s : In(s)' = In(s) BY DEF In
<1>2. AssemblyTypeOK' BY AssemblyTyped DEF AssemblyInv
<1>3. TokensFit' BY DEF AssemblyInv, TokensFit, TokensOf, In
<1>4. BlocksOnce' BY DEF AssemblyInv, BlocksOnce, ParentsOnce, HasParent
<1>5. ItemsFit'
  <2>1. PlacesLeft' <=> PlacesLeft BY DEF PlacesLeft
  <2> QED BY <1>1, <2>1 DEF AssemblyInv, ItemsFit
<1> QED BY <1>2, <1>3, <1>4, <1>5 DEF AssemblyInv

\* a hit is taken at the end of the context
LEMMA TakeStep ==
    ASSUME AssemblyInv, NEW hit \in Chunks, NEW items \in {0, 1}, Included(hit), ~Folded(hit), Take(hit, items),
           ranked' \in Seq(Chunks), deferred' \in Seq(Chunks), pass' = pass,
           \/ pass = "first" /\ items = 1 /\ counted.items[hit.space] < ItemsPerSpace
           \/ pass = "backfill" /\ items = 0 /\ Len(budgeted) < TopK
    PROVE  AssemblyInv'
<1> DEFINE n == Len(budgeted)
           charge == Charge(hit)
           text == [hit |-> hit, whole |-> Whole(hit), tokens |-> charge]
<1>t. /\ budgeted \in Seq(Text) /\ counted \in Counts /\ breaches \in Nat
      /\ n \in Nat /\ DOMAIN budgeted = 1..n
  BY AssemblyTyped DEF AssemblyInv
<1>a. /\ hit.space \in ScopeSpaces /\ hit.tokens \in Nat /\ hit.parentTokens \in Nat
      /\ TopK \in Nat /\ ItemsPerSpace \in Nat /\ TokensPerSpace \in Nat /\ TokensCap \in Nat
  BY AssemblyAssumption
<1>1. charge \in Nat BY <1>a DEF Charge
<1>2. text \in Text /\ text.tokens = charge /\ text.hit = hit /\ text.whole = Whole(hit)
  BY <1>1 DEF Text, Whole, HasParent, Fits
<1>3. budgeted' = Append(budgeted, text) BY DEF Take, Charge
<1>4. /\ budgeted' \in Seq(Text) /\ Len(budgeted') = n + 1 /\ DOMAIN budgeted' = 1..(n + 1)
      /\ budgeted'[n + 1] = text /\ \A i \in 1..n : budgeted'[i] = budgeted[i]
  BY <1>t, <1>2, <1>3
<1>5. /\ counted'.items = [counted.items EXCEPT ![hit.space] = @ + items]
      /\ counted'.tokens = [counted.tokens EXCEPT ![hit.space] = @ + charge]
      /\ counted'.total = counted.total + charge
      /\ counted' = [items |-> counted'.items, tokens |-> counted'.tokens, total |-> counted'.total]
      /\ breaches' = breaches
  BY DEF Take
<1>6. counted.items \in [ScopeSpaces -> Nat] /\ counted.tokens \in [ScopeSpaces -> Nat] /\ counted.total \in Nat
  BY <1>t DEF Counts
<1> HIDE DEF text, charge, n
<1>7. /\ counted'.items \in [ScopeSpaces -> Nat] /\ counted'.tokens \in [ScopeSpaces -> Nat]
      /\ counted'.total \in Nat
  <2>1. counted.items[hit.space] + items \in Nat /\ counted.tokens[hit.space] + charge \in Nat
    <3>1. counted.items[hit.space] \in Nat /\ counted.tokens[hit.space] \in Nat BY <1>6, <1>a
    <3>2. items \in Nat OBVIOUS
    <3> HIDE DEF charge
    <3>3. counted.items[hit.space] + items \in Nat BY <3>1, <3>2
    <3>4. counted.tokens[hit.space] + charge \in Nat BY <1>1, <3>1
    <3> QED BY <3>3, <3>4
  <2>2. counted'.items \in [ScopeSpaces -> Nat] BY <1>5, <1>6, <2>1
  <2>3. counted'.tokens \in [ScopeSpaces -> Nat] BY <1>5, <1>6, <2>1
  <2>4. counted'.total \in Nat BY <1>1, <1>5, <1>6
  <2> QED BY <2>2, <2>3, <2>4
<1>8. counted' \in Counts BY <1>5, <1>7 DEF Counts
<1>9. AssemblyTypeOK' BY <1>t, <1>4, <1>5, <1>8, AssemblyTyped DEF AssemblyInv
<1>10. ASSUME NEW places, places \subseteq 1..n
       PROVE  /\ TextUnits(budgeted', places) = TextUnits(budgeted, places)
              /\ IsFiniteSet(TextUnits(budgeted, places))
              /\ IsFiniteSet(TextUnits(budgeted', places \cup {n + 1}))
              /\ Cardinality(TextUnits(budgeted', places \cup {n + 1}))
                   = Cardinality(TextUnits(budgeted, places)) + charge
  <2>1. TextUnits(budgeted', places) = TextUnits(budgeted, places)
    BY <1>4, <1>10, TextAgrees
  <2>2. TextUnits(budgeted, places) \subseteq TextUnits(budgeted, DOMAIN budgeted)
    BY <1>t, <1>10 DEF TextUnits
  <2>3. IsFiniteSet(TextUnits(budgeted, places)) BY <2>2, FS_Subset DEF AssemblyInv, TokensFit
  <2>4. n + 1 \notin places /\ budgeted'[n + 1].tokens = charge BY <1>t, <1>2, <1>4, <1>10
  <2> QED BY <1>1, <2>1, <2>3, <2>4, TextAdded
<1>11. \A s \in ScopeSpaces : In(s) \subseteq 1..n /\ In(s)' = IF s = hit.space THEN In(s) \cup {n + 1} ELSE In(s)
  <2>1. \A s \in ScopeSpaces : In(s) = {i \in 1..n : budgeted[i].hit.space = s} BY <1>t DEF In
  <2>2. \A s \in ScopeSpaces : In(s)' = {i \in 1..(n + 1) : budgeted'[i].hit.space = s} BY <1>4 DEF In
  <2>3. 1..(n + 1) = (1..n) \cup {n + 1} BY <1>t
  <2>4. ASSUME NEW s \in ScopeSpaces
        PROVE  In(s) \subseteq 1..n /\ In(s)' = IF s = hit.space THEN In(s) \cup {n + 1} ELSE In(s)
    <3>1. budgeted'[n + 1].hit.space = hit.space BY <1>2, <1>4
    <3>2. In(s)' = {i \in (1..n) \cup {n + 1} : budgeted'[i].hit.space = s} BY <2>2, <2>3
    <3>3. In(s) = {i \in 1..n : budgeted'[i].hit.space = s} BY <1>4, <2>1
    <3> QED BY <3>1, <3>2, <3>3
  <2> QED BY <2>4
<1>12. counted.tokens[hit.space] + charge <= TokensPerSpace /\ counted.total + charge <= TokensCap
  BY DEF Included, Fits, charge
<1>13. TokensFit'
  <2>1. IsFiniteSet(TextUnits(budgeted', DOMAIN budgeted')) /\ counted'.total = TokensOf(DOMAIN budgeted)'
    <3>1. DOMAIN budgeted' = DOMAIN budgeted \cup {n + 1} /\ DOMAIN budgeted \subseteq 1..n BY <1>t, <1>4
    <3>2. counted.total = Cardinality(TextUnits(budgeted, DOMAIN budgeted))
      BY DEF AssemblyInv, TokensFit, TokensOf
    <3> QED BY <1>5, <1>10, <3>1, <3>2 DEF TokensOf
  <2>2. counted'.total <= TokensCap BY <1>5, <1>12
  <2>3. ASSUME NEW s \in ScopeSpaces
        PROVE  counted'.tokens[s] = TokensOf(In(s))' /\ counted'.tokens[s] <= TokensPerSpace
    <3>1. counted.tokens[s] = Cardinality(TextUnits(budgeted, In(s))) /\ counted.tokens[s] <= TokensPerSpace
      BY DEF AssemblyInv, TokensFit, TokensOf
    <3>2. TokensOf(In(s))' = Cardinality(TextUnits(budgeted', In(s)')) BY DEF TokensOf
    <3>3. CASE s = hit.space
      <4>1. counted'.tokens[s] = counted.tokens[s] + charge BY <1>5, <1>6, <1>a, <3>3
      <4>2. In(s) \subseteq 1..n /\ In(s)' = In(s) \cup {n + 1} BY <1>11, <3>3
      <4> QED BY <1>10, <1>12, <3>1, <3>2, <3>3, <4>1, <4>2
    <3>4. CASE s # hit.space
      <4>1. counted'.tokens[s] = counted.tokens[s] BY <1>5, <1>6, <1>a, <3>4
      <4>2. In(s) \subseteq 1..n /\ In(s)' = In(s) BY <1>11, <3>4
      <4> QED BY <1>10, <3>1, <3>2, <4>1, <4>2
    <3> QED BY <3>3, <3>4
  <2> QED BY <2>1, <2>2, <2>3 DEF TokensFit
<1>14. BlocksOnce'
  <2>1. \A i \in 1..n : budgeted[i].whole => HasParent(budgeted[i].hit) /\ budgeted[i].hit.parent # hit.parent
    <3>1. ASSUME NEW i \in 1..n, budgeted[i].whole
          PROVE  HasParent(budgeted[i].hit) /\ budgeted[i].hit.parent # hit.parent
      <4>1. HasParent(budgeted[i].hit) BY <1>t, <3>1 DEF AssemblyInv, BlocksOnce
      <4>2. budgeted[i].hit.parent \in AcceptedParents BY <1>t, <3>1 DEF AcceptedParents
      <4> QED BY <4>1, <4>2 DEF Folded, HasParent
    <3> QED BY <3>1
  <2>2. text.whole => HasParent(text.hit) BY <1>2 DEF Whole
  <2>3. \A i \in 1..(n + 1) : budgeted'[i].whole => HasParent(budgeted'[i].hit)
    <3>1. \A i \in 1..(n + 1) : i \in 1..n \/ i = n + 1 BY <1>t
    <3> QED BY <1>4, <2>1, <2>2, <3>1
  <2>4. ASSUME NEW i \in 1..(n + 1), NEW j \in 1..(n + 1), budgeted'[i].whole, i < j
        PROVE  budgeted'[j].hit.parent # budgeted'[i].hit.parent
    <3>1. i \in 1..n /\ (j \in 1..n \/ j = n + 1) BY <1>t, <2>4
    <3>2. CASE j \in 1..n BY <1>t, <1>4, <2>4, <3>1, <3>2 DEF AssemblyInv, BlocksOnce, ParentsOnce
    <3>3. CASE j = n + 1 BY <1>2, <1>4, <2>1, <2>4, <3>1, <3>3
    <3> QED BY <3>1, <3>2, <3>3
  <2>5. \A i \in DOMAIN budgeted' : budgeted'[i].whole => HasParent(budgeted'[i].hit) BY <1>4, <2>3
  <2>6. ParentsOnce' BY <1>4, <2>4 DEF ParentsOnce
  <2> QED BY <2>5, <2>6 DEF BlocksOnce, HasParent
<1>15. ItemsFit'
  <2>1. \A s \in ScopeSpaces : IsFiniteSet(In(s)) /\ Cardinality(In(s)) \in Nat
    <3>1. IsFiniteSet(1..n) BY <1>t, FS_Interval, 1 \in Int, n \in Int
    <3> QED BY <1>11, <3>1, FS_Subset, FS_CardinalityType
  <2>2. ASSUME pass = "first", NEW s \in ScopeSpaces
        PROVE  Cardinality(In(s)') = counted'.items[s] /\ counted'.items[s] <= ItemsPerSpace
    <3>1. Cardinality(In(s)) = counted.items[s] /\ counted.items[s] <= ItemsPerSpace
      BY <2>2 DEF AssemblyInv, ItemsFit
    <3>2. CASE s = hit.space
      <4>1. In(s)' = In(s) \cup {n + 1} /\ n + 1 \notin In(s) BY <1>t, <1>11, <3>2
      <4>2. Cardinality(In(s) \cup {n + 1}) = Cardinality(In(s)) + 1 BY <2>1, <4>1, FS_AddElement
      <4>3. counted'.items[s] = counted.items[s] + 1 /\ counted.items[s] < ItemsPerSpace
        BY <1>5, <1>6, <1>a, <2>2, <3>2
      <4>4. counted.items[s] \in Nat BY <1>6
      <4> QED BY <1>a, <3>1, <4>1, <4>2, <4>3, <4>4
    <3>3. CASE s # hit.space
      <4>1. counted'.items[s] = counted.items[s] BY <1>5, <1>6, <1>a, <3>3
      <4> QED BY <1>11, <3>1, <3>3, <4>1
    <3> QED BY <3>2, <3>3
  <2>3. CASE pass = "first"
    <3>1. \A s \in ScopeSpaces : Cardinality(In(s)') <= ItemsPerSpace BY <2>2, <2>3
    <3> QED BY <2>2, <2>3, <3>1 DEF ItemsFit
  <2>4. CASE pass = "backfill" /\ items = 0 /\ n < TopK
    <3>1. counted'.items = counted.items
      <4>1. counted.items[hit.space] \in Nat BY <1>6, <1>a
      <4>2. counted.items[hit.space] + items = counted.items[hit.space] BY <2>4, <4>1
      <4>3. counted'.items = [counted.items EXCEPT ![hit.space] = counted.items[hit.space] + items] BY <1>5
      <4>4. counted'.items = [counted.items EXCEPT ![hit.space] = counted.items[hit.space]] BY <4>2, <4>3
      <4> QED BY <1>6, <4>4
    <3>2. PlacesLeft' BY <2>4, <3>1 DEF PlacesLeft, AssemblyInv, ItemsFit
    <3>3. Len(budgeted') <= TopK BY <1>a, <1>t, <1>4, <2>4
    <3> QED BY <2>4, <3>2, <3>3 DEF ItemsFit
  <2> QED BY <2>3, <2>4 DEF n
<1> QED BY <1>9, <1>13, <1>14, <1>15 DEF AssemblyInv

LEMMA InitAssembly == AssemblyInit => AssemblyInv
<1> SUFFICES ASSUME AssemblyInit PROVE AssemblyInv OBVIOUS
<1>1. /\ budgeted = << >> /\ deferred = << >> /\ breaches = 0 /\ pass = "first"
      /\ counted = [items |-> [s \in ScopeSpaces |-> 0], tokens |-> [s \in ScopeSpaces |-> 0], total |-> 0]
  BY DEF AssemblyInit
<1>2. ranked \in Seq(Chunks)
  <2>1. PICK n \in 1..MaxHits : ranked \in [1..n -> Chunks] BY DEF AssemblyInit
  <2>2. n \in Nat BY AssemblyAssumption
  <2> QED BY <2>1, <2>2
<1>3. AssemblyTypeOK BY <1>1, <1>2 DEF AssemblyTypeOK
<1>4. DOMAIN budgeted = {} BY <1>1
<1>5. IsFiniteSet({}) /\ Cardinality({}) = 0 BY FS_EmptySet
<1>6. \A s : In(s) = {} BY <1>4 DEF In
<1>7. TextUnits(budgeted, {}) = {} BY DEF TextUnits
<1>a. TokensPerSpace \in Nat /\ TokensCap \in Nat /\ ItemsPerSpace \in Nat BY AssemblyAssumption
<1>c. counted.total = 0 /\ \A s \in ScopeSpaces : counted.tokens[s] = 0 /\ counted.items[s] = 0 BY <1>1
<1>8. TokensFit
  <2>1. TokensOf({}) = 0 BY <1>5, <1>7 DEF TokensOf
  <2>2. TokensOf(DOMAIN budgeted) = 0 /\ \A s \in ScopeSpaces : TokensOf(In(s)) = 0 BY <1>4, <1>6, <2>1
  <2>3. IsFiniteSet(TextUnits(budgeted, DOMAIN budgeted)) BY <1>4, <1>5, <1>7
  <2>4. counted.total = TokensOf(DOMAIN budgeted) /\ counted.total <= TokensCap BY <1>a, <1>c, <2>2
  <2>5. ASSUME NEW s \in ScopeSpaces
        PROVE  counted.tokens[s] = TokensOf(In(s)) /\ counted.tokens[s] <= TokensPerSpace
    BY <1>a, <1>c, <2>2
  <2> QED BY <2>3, <2>4, <2>5 DEF TokensFit
<1>9. BlocksOnce BY <1>4 DEF BlocksOnce, ParentsOnce
<1>10. ItemsFit
  <2>1. \A s \in ScopeSpaces : Cardinality(In(s)) = 0 BY <1>5, <1>6
  <2> QED BY <1>1, <1>a, <1>c, <2>1 DEF ItemsFit
<1> QED BY <1>3, <1>8, <1>9, <1>10 DEF AssemblyInv

\* a hit is included or dropped
LEMMA IncludeStep ==
    ASSUME AssemblyInv, NEW hit \in Chunks, NEW items \in {0, 1}, ~Folded(hit), Include(hit, items),
           ranked' \in Seq(Chunks), deferred' \in Seq(Chunks), pass' = pass,
           \/ pass = "first" /\ items = 1 /\ counted.items[hit.space] < ItemsPerSpace
           \/ pass = "backfill" /\ items = 0 /\ Len(budgeted) < TopK
    PROVE  AssemblyInv'
<1>t. breaches \in Nat /\ pass \in {"first", "backfill", "done"} BY AssemblyTyped DEF AssemblyInv
<1>1. CASE Included(hit) BY <1>1, TakeStep DEF Include
<1>2. CASE ~Included(hit)
  <2>1. UNCHANGED <<budgeted, counted>> /\ breaches' \in Nat BY <1>t, <1>2 DEF Include, Drop
  <2> QED BY <1>t, <2>1, ContextStands
<1> QED BY <1>1, <1>2

LEMMA AssemblyStep == AssemblyInv /\ [AssemblyNext]_assemblyVars => AssemblyInv'
<1> SUFFICES ASSUME AssemblyInv, [AssemblyNext]_assemblyVars PROVE AssemblyInv' OBVIOUS
<1>t. /\ ranked \in Seq(Chunks) /\ deferred \in Seq(Chunks) /\ breaches \in Nat
      /\ pass \in {"first", "backfill", "done"}
  BY AssemblyTyped DEF AssemblyInv
<1>1. CASE UNCHANGED assemblyVars BY <1>t, <1>1, ContextStands DEF assemblyVars
<1>2. CASE FirstPass
  <2>1. PICK hit \in Chunks : hit = Head(ranked) BY <1>t, <1>2 DEF FirstPass
  <2>2. ranked' \in Seq(Chunks) /\ pass' = pass /\ pass = "first" BY <1>t, <1>2 DEF FirstPass
  <2>3. CASE UNCHANGED <<deferred, budgeted, counted, breaches>> BY <1>t, <2>2, <2>3, ContextStands
  <2>4. CASE deferred' = Append(deferred, hit) /\ UNCHANGED <<budgeted, counted, breaches>>
    <3>1. deferred' \in Seq(Chunks) BY <1>t, <2>1, <2>4
    <3> QED BY <1>t, <2>2, <2>4, <3>1, ContextStands
  <2>5. CASE ~Folded(hit) /\ counted.items[hit.space] < ItemsPerSpace /\ Include(hit, 1) /\ UNCHANGED deferred
    BY <1>t, <2>1, <2>2, <2>5, IncludeStep
  <2> QED BY <1>2, <2>1, <2>3, <2>4, <2>5 DEF FirstPass
<1>3. CASE EndFirstPass
  <2>1. pass = "first" /\ pass' = IF PlacesLeft THEN "backfill" ELSE "done" BY <1>3 DEF EndFirstPass
  <2>2. UNCHANGED <<ranked, deferred, budgeted, counted, breaches>> BY <1>3 DEF EndFirstPass
  <2> QED BY <1>t, <2>1, <2>2, ContextStands
<1>4. CASE Backfill
  <2>1. pass = "backfill" /\ ranked' = ranked BY <1>4 DEF Backfill
  <2>2. CASE deferred = << >> \/ Len(budgeted) >= TopK
    <3>1. pass' = "done" /\ UNCHANGED <<deferred, budgeted, counted, breaches>> BY <1>4, <2>2 DEF Backfill
    <3> QED BY <1>t, <2>1, <3>1, ContextStands
  <2>3. CASE ~(deferred = << >> \/ Len(budgeted) >= TopK)
    <3>1. PICK hit \in Chunks : hit = Head(deferred) BY <1>t, <2>3
    <3>2. deferred' \in Seq(Chunks) /\ pass' = pass BY <1>4, <1>t, <2>3 DEF Backfill
    <3>3. IF Folded(hit) THEN UNCHANGED <<budgeted, counted, breaches>> ELSE Include(hit, 0)
      BY <1>4, <2>3, <3>1 DEF Backfill
    <3>4. CASE Folded(hit) BY <1>t, <2>1, <3>2, <3>3, <3>4, ContextStands
    <3>5. CASE ~Folded(hit)
      <4>1. Len(budgeted) < TopK
        <5>1. Len(budgeted) \in Nat BY AssemblyTyped DEF AssemblyInv
        <5> QED BY <2>3, <5>1, AssemblyAssumption
      <4> QED BY <1>t, <2>1, <3>2, <3>3, <3>5, <4>1, IncludeStep
    <3> QED BY <3>4, <3>5
  <2> QED BY <2>2, <2>3
<1> QED BY <1>1, <1>2, <1>3, <1>4 DEF AssemblyNext

\* What the invariant gives
LEMMA AssemblyPromise == AssemblyInv => AssemblySafe
<1> SUFFICES ASSUME AssemblyInv PROVE AssemblySafe OBVIOUS
<1>1. Len(ContextAnswer) <= TopK
  <2>1. budgeted \in Seq(Text) /\ TopK \in Nat BY AssemblyTyped, AssemblyAssumption DEF AssemblyInv
  <2>2. \A n \in Nat : n <= Len(budgeted) => Len(SubSeq(budgeted, 1, n)) = n
    <3>1. ASSUME NEW n \in Nat, n <= Len(budgeted) PROVE Len(SubSeq(budgeted, 1, n)) = n
      <4>1. \A i \in 1..n : budgeted[i] \in Text BY <2>1, <3>1
      <4>2. Len(SubSeq(budgeted, 1, n)) = IF 1 <= n THEN n - 1 + 1 ELSE 0 BY <4>1, SubSeqProperties
      <4> QED BY <4>2
    <3> QED BY <3>1
  <2>3. Len(budgeted) \in Nat BY <2>1
  <2>4. CASE Len(budgeted) < TopK BY <2>1, <2>2, <2>3, <2>4 DEF ContextAnswer
  <2>5. CASE ~(Len(budgeted) < TopK) BY <2>1, <2>2, <2>3, <2>5 DEF ContextAnswer
  <2> QED BY <2>4, <2>5
<1>2. WithinBudget BY <1>1 DEF WithinBudget, AssemblyInv, TokensFit
<1>3. ParentsOnce BY DEF AssemblyInv, BlocksOnce
<1>4. QuotaPerSpace
  <2>1. CASE PlacesLeft /\ Len(budgeted) <= TopK BY <2>1 DEF QuotaPerSpace, PlacesLeft
  <2>2. CASE \A s \in ScopeSpaces : Cardinality(In(s)) <= ItemsPerSpace
    <3>1. ASSUME NEW s \in ScopeSpaces, Cardinality(In(s)) > ItemsPerSpace PROVE FALSE
      <4>1. In(s) \subseteq 1..Len(budgeted) /\ Len(budgeted) \in Nat
        <5>1. budgeted \in Seq(Text) BY AssemblyTyped DEF AssemblyInv
        <5> QED BY <5>1 DEF In
      <4>2. IsFiniteSet(1..Len(budgeted)) BY <4>1, FS_Interval, 1 \in Int, Len(budgeted) \in Int
      <4>3. Cardinality(In(s)) \in Nat BY <4>1, <4>2, FS_Subset, FS_CardinalityType
      <4> QED BY <2>2, <3>1, <4>3, AssemblyAssumption
    <3> QED BY <3>1 DEF QuotaPerSpace
  <2> QED BY <2>1, <2>2 DEF AssemblyInv, ItemsFit
<1> QED BY <1>2, <1>3, <1>4 DEF AssemblySafe, AssemblyInv

\* The texts of a context stay within the cap and each space within its share,
\* a parent block is in it once, and a space exceeds its quota of items only to
\* fill a place another one left, for any ranking of any hits (_search_with_lease).
THEOREM Assembled == AssemblySpec => []AssemblySafe
BY InitAssembly, AssemblyStep, AssemblyPromise, PTL DEF AssemblySpec

-----------------------------------------------------------------------------
(* The enrichment of a document *)

Covered(c) == \E u \in 1..unit : (u < unit \/ step \notin {"warm", "pool"}) /\ c \in Range(plan[u])

\* Where each chunk stands while the units are worked through
Resolution ==
    /\ step \in {"receipt", "done"} => \A c \in Targets(input) : result[c] \in {"enhanced", "raw"}
    /\ step \in {"units", "warm", "pool", "flush"} =>
          \A c \in Targets(input) : Covered(c) => result[c] \in {"enhanced", "raw"}
    /\ step # "failed" =>
          \A c \in Targets(input) : result[c] = "broken" => step \in {"warm", "pool"} /\ c \in Range(Unit)
    /\ step = "parse" => \A c \in Targets(input) : result[c] = "none"

\* Who may be called: a chunk of the unit under way that has no answer yet
CallsInPlace ==
    /\ calling # {} => step \in {"warm", "pool"}
    /\ \A c \in calling : c \in Range(Unit) /\ result[c] = "none" /\ tries[c] > 0
    /\ \A c \in Targets(input) : result[c] = "none" /\ c \notin calling => tries[c] = 0
    /\ step \in {"warm", "pool", "flush"} => unit # 0
    /\ step = "pool" => WarmedUp
    /\ step = "parse" => parses < ParseAttempts /\ unit = 0

\* A call without its fact is under way, broken, or of a failed document
FactsFollow ==
    /\ \A f \in recorded \cup unflushed : f[2] <= tries[f[1]]
    /\ step # "failed" =>
          \A c \in Targets(input), n \in 1..MaxCalls :
             n <= tries[c] /\ <<c, n>> \notin recorded \cup unflushed =>
                n = tries[c] /\ (c \in calling \/ result[c] = "broken")
    /\ step \in {"parse", "units", "receipt", "done"} => unflushed = {}

EnrichmentInv ==
    /\ EnrichmentTypeOK /\ SoundPlan(input, plan)
    /\ Resolution /\ CallsInPlace /\ FactsFollow /\ PoolAfterWarmup

PlansAreSound == \A in \in Inputs : SoundPlan(in, PlanUnits(in))

LEMMA InitEnrichment == EnrichmentInit /\ PlansAreSound => EnrichmentInv
<1> SUFFICES ASSUME EnrichmentInit, PlansAreSound PROVE EnrichmentInv OBVIOUS
<1>1. /\ input \in Inputs /\ SoundPlan(input, plan) /\ plan \in Seq(Seq(Targets(input)))
      /\ step = "parse" /\ parses = 0 /\ unit = 0 /\ cacheMode = "none"
      /\ cached \subseteq DOMAIN plan /\ calling = {}
      /\ tries = [c \in Targets(input) |-> 0] /\ result = [c \in Targets(input) |-> "none"]
      /\ unflushed = {} /\ recorded = {}
  BY DEF EnrichmentInit, PlansAreSound, SoundPlan, HoldsAllInOrder
<1>2. EnrichmentTypeOK BY <1>1, EnrichmentAssumption DEF EnrichmentTypeOK
<1>3. Resolution BY <1>1 DEF Resolution
<1>4. CallsInPlace BY <1>1, EnrichmentAssumption DEF CallsInPlace
<1>5. FactsFollow BY <1>1 DEF FactsFollow
<1>6. PoolAfterWarmup
  <2>1. \A u \in DOMAIN plan : plan[u] \in Seq(Targets(input)) BY <1>1
  <2>2. \A u \in DOMAIN plan : \A j \in DOMAIN plan[u] : tries[plan[u][j]] = 0 BY <1>1, <2>1
  <2>3. Cardinality(calling) <= Concurrency BY <1>1, FS_EmptySet, EnrichmentAssumption
  <2> QED BY <2>2, <2>3 DEF PoolAfterWarmup
<1> QED BY <1>1, <1>2, <1>3, <1>4, <1>5, <1>6 DEF EnrichmentInv

\* the facts about the plan that the steps use
LEMMA PlanFacts ==
    ASSUME EnrichmentInv
    PROVE  /\ DOMAIN plan = 1..Len(plan) /\ Len(plan) \in Nat
           /\ \A u \in DOMAIN plan : /\ plan[u] \in Seq(Targets(input)) /\ DOMAIN plan[u] = 1..Len(plan[u])
                                     /\ Range(plan[u]) = {plan[u][i] : i \in DOMAIN plan[u]}
           /\ \A u, v \in DOMAIN plan : \A i \in DOMAIN plan[u], j \in DOMAIN plan[v] :
                 plan[u][i] = plan[v][j] => u = v /\ i = j
           /\ \A c \in Targets(input) : \E u \in DOMAIN plan : c \in Range(plan[u])
           /\ Targets(input) \subseteq Nat /\ IsFiniteSet(Targets(input))
           /\ unit # 0 => unit \in DOMAIN plan
<1>1. input \in Inputs /\ SoundPlan(input, plan) /\ plan \in Seq(Seq(Targets(input))) /\ unit \in 0..Len(plan)
  BY DEF EnrichmentInv, EnrichmentTypeOK, SoundPlan, HoldsAllInOrder
<1>2. DOMAIN plan = 1..Len(plan) /\ Len(plan) \in Nat BY <1>1
<1>3. \A u \in DOMAIN plan : plan[u] \in Seq(Targets(input)) /\ DOMAIN plan[u] = 1..Len(plan[u])
  BY <1>1
<1>4. Targets(input) \subseteq Nat /\ IsFiniteSet(Targets(input))
  <2>1. input.tokens \in Seq(Nat) BY <1>1, EnrichmentAssumption
  <2>2. Targets(input) = 1..Len(input.tokens) /\ Len(input.tokens) \in Nat BY <2>1 DEF Targets
  <2> QED BY <2>2, FS_Interval
<1>5. \A u, v \in DOMAIN plan : \A i \in DOMAIN plan[u], j \in DOMAIN plan[v] :
         plan[u][i] = plan[v][j] => u = v /\ i = j
  <2>1. SUFFICES ASSUME NEW u \in DOMAIN plan, NEW v \in DOMAIN plan, NEW i \in DOMAIN plan[u],
                        NEW j \in DOMAIN plan[v], plan[u][i] = plan[v][j]
                 PROVE  u = v /\ i = j
    OBVIOUS
  <2>2. u \in Nat /\ v \in Nat BY <1>2
  <2>3. i \in Nat /\ j \in Nat BY <1>3
  <2>4. plan[u][i] \in Nat /\ plan[v][j] \in Nat BY <1>3, <1>4
  <2>5. ~(u < v) /\ ~(v < u)
    <3>1. plan[u][i] \in Range(plan[u]) /\ plan[v][j] \in Range(plan[v]) BY DEF Range
    <3>2. u < v => plan[u][i] < plan[v][j] BY <1>1, <3>1 DEF SoundPlan, HoldsAllInOrder
    <3>3. v < u => plan[v][j] < plan[u][i] BY <1>1, <3>1 DEF SoundPlan, HoldsAllInOrder
    <3> QED BY <2>1, <2>4, <3>2, <3>3
  <2>6. u = v BY <2>2, <2>5
  <2>7. plan[u][i] = plan[u][1] + i - 1 /\ plan[u][j] = plan[u][1] + j - 1
    BY <1>1, <2>6 DEF SoundPlan, HoldsAllInOrder
  <2>8. plan[u][1] \in Nat
    <3>1. 1 \in DOMAIN plan[u] BY <1>3
    <3> QED BY <1>3, <1>4, <3>1
  <2> QED BY <2>1, <2>3, <2>6, <2>7, <2>8
<1>6. \A c \in Targets(input) : \E u \in DOMAIN plan : c \in Range(plan[u])
  BY <1>1 DEF SoundPlan, HoldsAllInOrder
<1>7. \A u \in DOMAIN plan : Range(plan[u]) = {plan[u][i] : i \in DOMAIN plan[u]} BY DEF Range
<1>8. unit # 0 => unit \in DOMAIN plan BY <1>1, <1>2
<1> QED BY <1>2, <1>3, <1>4, <1>5, <1>6, <1>7, <1>8

\* The document and its plan stand, and the conjuncts are preserved one by one
LEMMA EnrichmentParts ==
    ASSUME EnrichmentInv, UNCHANGED <<input, plan>>, EnrichmentTypeOK', Resolution', CallsInPlace',
           FactsFollow', PoolAfterWarmup'
    PROVE  EnrichmentInv'
BY DEF EnrichmentInv

\* The phase of the processing moves, and no call, result or fact with it
LEMMA PhaseMoves ==
    ASSUME EnrichmentInv, UNCHANGED <<input, plan, calling, tries, result, unflushed, recorded>>,
           EnrichmentTypeOK', Resolution',
           calling # {} => step' \in {"warm", "pool"} /\ unit' = unit,
           step' \in {"warm", "pool", "flush"} => unit' # 0,
           step' = "pool" => WarmedUp', step' # "parse", step' # "failed" => step # "failed",
           step' \in {"units", "receipt", "done"} => unflushed = {}
    PROVE  EnrichmentInv'
<1>1. CallsInPlace' BY DEF EnrichmentInv, CallsInPlace, Targets, Unit
<1>2. FactsFollow' BY DEF EnrichmentInv, FactsFollow, Targets
<1>3. PoolAfterWarmup' BY DEF EnrichmentInv, PoolAfterWarmup
<1> QED BY <1>1, <1>2, <1>3, EnrichmentParts

LEMMA ParseStep == EnrichmentInv /\ Parse => EnrichmentInv'
<1> SUFFICES ASSUME EnrichmentInv, Parse PROVE EnrichmentInv' OBVIOUS
<1>0. EnrichmentTypeOK /\ step = "parse" /\ parses < ParseAttempts /\ parses \in Nat /\ ParseAttempts \in Nat
      /\ unit = 0 /\ calling = {} /\ unflushed = {}
  BY EnrichmentAssumption DEF EnrichmentInv, EnrichmentTypeOK, CallsInPlace, FactsFollow, Parse
<1>t. \A c \in Targets(input) : result[c] = "none" /\ tries[c] = 0
  BY <1>0 DEF EnrichmentInv, Resolution, CallsInPlace
<1>u. UNCHANGED <<input, plan, unit, cacheMode, cached, calling, tries, unflushed, recorded>> BY DEF Parse
<1>1. /\ parses' \in 0..ParseAttempts /\ step' \in {"parse", "units", "receipt", "failed"}
      /\ step' = "parse" => parses' < ParseAttempts
      /\ step' = "receipt" => result' = [c \in Targets(input) |-> "raw"]
      /\ step' # "receipt" => UNCHANGED result
  <2>1. parses + 1 \in 0..ParseAttempts BY <1>0
  <2> QED BY <1>0, <2>1 DEF Parse
<1>2. result' \in [Targets(input) -> {"none", "enhanced", "raw", "broken"}]
  BY <1>0, <1>1 DEF EnrichmentTypeOK
<1>3. EnrichmentTypeOK'
  BY <1>0, <1>1, <1>2, <1>u DEF EnrichmentTypeOK, Facts, Targets
<1>4. Resolution'
  BY <1>0, <1>1, <1>t, <1>u DEF Resolution, Covered, Targets
<1>5. CallsInPlace' BY <1>0, <1>1, <1>t, <1>u DEF CallsInPlace, Targets
<1>6. FactsFollow'
  <2>1. \A f \in recorded \cup unflushed : f[2] <= tries[f[1]] BY DEF EnrichmentInv, FactsFollow
  <2>2. \A c \in Targets(input), n \in 1..MaxCalls : ~(n <= tries[c]) BY <1>t
  <2> QED BY <1>0, <1>u, <2>1, <2>2 DEF FactsFollow, Targets
<1>7. PoolAfterWarmup'
  <2>0. \A u \in DOMAIN plan : \A j \in DOMAIN plan[u] : plan[u][j] \in Targets(input) BY PlanFacts
  <2>1. \A u \in DOMAIN plan : \A j \in DOMAIN plan[u] : ~(tries[plan[u][j]] > 0) BY <1>t, <2>0
  <2>2. Cardinality(calling) <= Concurrency BY DEF EnrichmentInv, PoolAfterWarmup
  <2> QED BY <1>u, <2>1, <2>2 DEF PoolAfterWarmup
<1> QED BY <1>3, <1>4, <1>5, <1>6, <1>7, <1>u, EnrichmentParts

LEMMA UnitsStep == EnrichmentInv /\ (BeginUnit \/ EndUnits \/ Finish) => EnrichmentInv'
<1>t. EnrichmentInv => /\ EnrichmentTypeOK /\ unit \in 0..Len(plan) /\ Len(plan) \in Nat
                       /\ step \in {"units", "receipt"} => calling = {} /\ unflushed = {}
  BY PlanFacts DEF EnrichmentInv, EnrichmentTypeOK, CallsInPlace, FactsFollow
<1>1. ASSUME EnrichmentInv, BeginUnit PROVE EnrichmentInv'
  <2>1. /\ step = "units" /\ unit < Len(plan) /\ unit' = unit + 1 /\ step' = "warm"
        /\ cacheMode' \in {"none", "warm", "ready", "no-cache"}
        /\ UNCHANGED <<input, plan, calling, tries, result, unflushed, recorded>> /\ UNCHANGED <<parses, cached>>
    BY <1>1 DEF BeginUnit, NoCalls
  <2>2. unit' \in 0..Len(plan) /\ unit' # 0 /\ \A u \in 1..unit' : u < unit' => u \in 1..unit
    BY <1>1, <1>t, <2>1
  <2>3. EnrichmentTypeOK' BY <1>1, <1>t, <2>1, <2>2 DEF EnrichmentTypeOK, Facts, Targets
  <2>4. Resolution'
    <3>1. \A c \in Targets(input) : Covered(c)' => Covered(c) BY <2>1, <2>2 DEF Covered
    <3> QED BY <1>1, <2>1, <3>1 DEF EnrichmentInv, Resolution, Targets
  <2> QED BY <1>1, <1>t, <2>1, <2>2, <2>3, <2>4, PhaseMoves
<1>2. ASSUME EnrichmentInv, EndUnits PROVE EnrichmentInv'
  <2>1. /\ step = "units" /\ unit = Len(plan) /\ step' = "receipt"
        /\ UNCHANGED <<input, plan, calling, tries, result, unflushed, recorded>>
        /\ UNCHANGED <<parses, unit, cacheMode, cached>>
    BY <1>2 DEF EndUnits, NoCalls
  <2>2. EnrichmentTypeOK' BY <1>2, <1>t, <2>1 DEF EnrichmentTypeOK, Facts, Targets
  <2>3. \A c \in Targets(input) : Covered(c) BY <1>2, <2>1, PlanFacts DEF Covered
  <2>4. Resolution' BY <1>2, <2>1, <2>3 DEF EnrichmentInv, Resolution, Targets
  <2> QED BY <1>2, <1>t, <2>1, <2>2, <2>4, PhaseMoves
<1>3. ASSUME EnrichmentInv, Finish PROVE EnrichmentInv'
  <2>1. /\ step = "receipt" /\ step' \in {"done", "failed"}
        /\ UNCHANGED <<input, plan, calling, tries, result, unflushed, recorded>>
        /\ UNCHANGED <<parses, unit, cacheMode, cached>>
    BY <1>3 DEF Finish, NoCalls
  <2>2. EnrichmentTypeOK' BY <1>3, <1>t, <2>1 DEF EnrichmentTypeOK, Facts, Targets
  <2>3. Resolution' BY <1>3, <2>1 DEF EnrichmentInv, Resolution, Targets
  <2> QED BY <1>3, <1>t, <2>1, <2>2, <2>3, PhaseMoves
<1> QED BY <1>1, <1>2, <1>3

\* The calls of a unit
LEMMA WarmupFacts ==
    ASSUME EnrichmentInv, unit # 0
    PROVE  /\ Warmups \subseteq Range(Unit) /\ PoolChunks \subseteq Range(Unit) /\ Range(Unit) \subseteq Targets(input)
           /\ \A u \in DOMAIN plan : \A i \in DOMAIN plan[u] :
                 /\ plan[u][i] \in Range(Unit) => u = unit
                 /\ plan[u][i] \in Warmups => u = unit /\ i <= WarmupCalls
                 /\ u = unit /\ i <= WarmupCalls => plan[u][i] \in Warmups
           /\ Range(Unit) = Warmups \cup PoolChunks
<1>1. unit \in DOMAIN plan /\ Unit = plan[unit] BY PlanFacts DEF Unit
<1>2. Warmups = {plan[unit][i] : i \in {j \in DOMAIN plan[unit] : j <= WarmupCalls}} BY <1>1 DEF Warmups
<1>3. Range(Unit) = {plan[unit][i] : i \in DOMAIN plan[unit]} BY <1>1, PlanFacts
<1>4. Range(Unit) \subseteq Targets(input) BY <1>1, <1>3, PlanFacts
<1>5. \A u \in DOMAIN plan : \A i \in DOMAIN plan[u] : plan[u][i] \in Range(Unit) => u = unit
  BY <1>1, <1>3, PlanFacts
<1>6. \A u \in DOMAIN plan : \A i \in DOMAIN plan[u] : plan[u][i] \in Warmups => u = unit /\ i <= WarmupCalls
  BY <1>1, <1>2, PlanFacts
<1> QED BY <1>1, <1>2, <1>3, <1>4, <1>5, <1>6 DEF PoolChunks

LEMMA StartStep == ASSUME EnrichmentInv, NEW c \in Targets(input), StartCall(c) PROVE EnrichmentInv'
<1>1. /\ calling' = calling \cup {c} /\ tries' = [tries EXCEPT ![c] = 1]
      /\ UNCHANGED <<input, plan, step, parses, unit, cacheMode, cached, result, unflushed, recorded>>
  BY DEF StartCall
<1>2. /\ step \in {"warm", "pool"} /\ result[c] = "none" /\ c \notin calling
  BY DEF StartCall, WarmupDue, PoolDue
<1>3. unit # 0 /\ Unit' = Unit BY <1>1, <1>2 DEF EnrichmentInv, CallsInPlace, Unit
<1>4. tries[c] = 0 BY <1>2 DEF EnrichmentInv, CallsInPlace
<1>5. /\ tries \in [Targets(input) -> 0..MaxCalls] /\ MaxCalls \in Nat \ {0} /\ Concurrency \in Nat \ {0}
      /\ calling \subseteq Targets(input)
  BY EnrichmentAssumption DEF EnrichmentInv, EnrichmentTypeOK
<1>6. tries' \in [Targets(input) -> 0..MaxCalls] /\ tries'[c] = 1 /\ \A d \in Targets(input) \ {c} : tries'[d] = tries[d]
  <2>1. 1 \in 0..MaxCalls BY <1>5
  <2> QED BY <1>1, <1>5, <2>1
<1>7. EnrichmentTypeOK' BY <1>1, <1>6 DEF EnrichmentInv, EnrichmentTypeOK, Facts, Targets
<1>8. Resolution' BY <1>1, <1>3 DEF EnrichmentInv, Resolution, Covered, Targets
<1>9. CallsInPlace'
  <2>0. c \in Range(Unit) BY <1>3, WarmupFacts DEF StartCall, WarmupDue, PoolDue
  <2>1. \A d \in calling' : d \in Range(Unit) /\ result[d] = "none" /\ tries'[d] > 0
    BY <1>1, <1>2, <1>5, <1>6, <2>0 DEF EnrichmentInv, CallsInPlace
  <2>2. \A d \in Targets(input) : result[d] = "none" /\ d \notin calling' => tries'[d] = 0
    BY <1>1, <1>6 DEF EnrichmentInv, CallsInPlace
  <2>3. WarmedUp' <=> WarmedUp BY <1>1 DEF WarmedUp, Warmups, Unit
  <2> QED BY <1>1, <1>2, <1>3, <2>1, <2>2, <2>3 DEF EnrichmentInv, CallsInPlace, Targets
<1>10. FactsFollow'
  <2>1. \A f \in recorded \cup unflushed : f[2] <= tries'[f[1]]
    <3>1. ASSUME NEW f \in recorded \cup unflushed PROVE f[2] <= tries'[f[1]]
      <4>1. f[1] \in Targets(input) /\ f[2] \in 1..MaxCalls /\ f[2] <= tries[f[1]]
        BY DEF EnrichmentInv, EnrichmentTypeOK, FactsFollow, Facts
      <4>2. f[1] # c BY <1>4, <4>1
      <4> QED BY <1>6, <4>1, <4>2
    <3> QED BY <3>1
  <2>2. ASSUME NEW d \in Targets(input), NEW n \in 1..MaxCalls,
               n <= tries'[d], <<d, n>> \notin recorded \cup unflushed, step # "failed"
        PROVE  n = tries'[d] /\ (d \in calling' \/ result[d] = "broken")
    <3>1. CASE d = c BY <1>1, <1>6, <2>2, <3>1
    <3>2. CASE d # c BY <1>1, <1>6, <2>2, <3>2 DEF EnrichmentInv, FactsFollow
    <3> QED BY <3>1, <3>2
  <2> QED BY <1>1, <2>1, <2>2 DEF EnrichmentInv, FactsFollow, Targets
<1>11. PoolAfterWarmup'
  <2>1. ASSUME NEW u \in DOMAIN plan, NEW i \in DOMAIN plan[u], NEW j \in DOMAIN plan[u],
               i <= WarmupCalls, j > WarmupCalls, tries'[plan[u][j]] > 0
        PROVE  result[plan[u][i]] = "enhanced"
    <3>0. plan[u][j] \in Targets(input) BY PlanFacts
    <3>1. CASE plan[u][j] # c
      <4>1. tries[plan[u][j]] > 0 BY <1>6, <2>1, <3>0, <3>1
      <4> QED BY <2>1, <4>1 DEF EnrichmentInv, PoolAfterWarmup
    <3>2. CASE plan[u][j] = c
      <4>1. j \in Nat /\ WarmupCalls \in Nat
        <5>1. WarmupCalls \in Nat BY EnrichmentAssumption
        <5>2. j \in 1..Len(plan[u]) BY PlanFacts
        <5> QED BY <5>1, <5>2
      <4>2. c \notin Warmups BY <1>3, <2>1, <3>2, <4>1, WarmupFacts
      <4>3. step = "pool" /\ c \in PoolChunks BY <4>2 DEF StartCall, WarmupDue, PoolDue
      <4>4. u = unit BY <1>3, <3>2, <4>3, WarmupFacts
      <4>5. WarmedUp BY <4>3 DEF EnrichmentInv, CallsInPlace
      <4>6. plan[u][i] \in Warmups BY <1>3, <2>1, <4>4, WarmupFacts
      <4> QED BY <4>5, <4>6 DEF WarmedUp
    <3> QED BY <3>1, <3>2
  <2>2. Cardinality(calling') <= Concurrency
    <3>1. IsFiniteSet(calling) BY <1>5, PlanFacts, FS_Subset
    <3>2. Cardinality(calling') = Cardinality(calling) + 1 /\ Cardinality(calling) \in Nat
      BY <1>1, <1>2, <3>1, FS_AddElement, FS_CardinalityType
    <3>3. Cardinality(calling) < Concurrency
      <4>1. CASE calling = {} BY <1>5, <4>1, FS_EmptySet
      <4>2. CASE PoolHasRoom BY <4>2 DEF PoolHasRoom
      <4> QED BY <4>1, <4>2 DEF StartCall, WarmupDue, PoolDue
    <3> QED BY <1>5, <3>2, <3>3
  <2> QED BY <1>1, <2>1, <2>2 DEF PoolAfterWarmup
<1> QED BY <1>1, <1>7, <1>8, <1>9, <1>10, <1>11, EnrichmentParts

\* An answer of the provider is counted as its fact, a broken call is not
LEMMA AnswerStep ==
    ASSUME EnrichmentInv, NEW c \in calling, NEW outcome \in {"enhanced", "raw", "broken"},
           result' = [result EXCEPT ![c] = outcome], calling' = calling \ {c},
           outcome # "broken" => unflushed' = unflushed \cup {Fact(c)},
           outcome = "broken" => UNCHANGED unflushed,
           UNCHANGED <<input, plan, step, parses, unit, cacheMode, cached, tries, recorded>>
    PROVE  EnrichmentInv'
<1>0. Unit' = Unit BY DEF Unit
<1>1. /\ calling \subseteq Targets(input) /\ c \in Targets(input) /\ result[c] = "none"
      /\ step \in {"warm", "pool"} /\ unit # 0 /\ c \in Range(Unit)
      /\ result \in [Targets(input) -> {"none", "enhanced", "raw", "broken"}]
      /\ tries \in [Targets(input) -> 0..MaxCalls] /\ MaxCalls \in Nat /\ tries[c] > 0
  BY EnrichmentAssumption DEF EnrichmentInv, EnrichmentTypeOK, CallsInPlace
<1>2. /\ result'[c] = outcome /\ \A d \in Targets(input) \ {c} : result'[d] = result[d]
      /\ result' \in [Targets(input) -> {"none", "enhanced", "raw", "broken"}]
  BY <1>1
<1>3. tries[c] \in 1..MaxCalls BY <1>1
<1>4. Fact(c) \in Facts /\ Fact(c) = <<c, tries[c]>> BY <1>1, <1>3 DEF Fact, Facts
<1>5. EnrichmentTypeOK'
  <2>1. unflushed' \subseteq Facts BY <1>4 DEF EnrichmentInv, EnrichmentTypeOK
  <2> QED BY <1>1, <1>2, <2>1 DEF EnrichmentInv, EnrichmentTypeOK, Facts, Targets
<1>6. Resolution'
  <2>1. ASSUME NEW d \in Targets(input), Covered(d) PROVE result'[d] \in {"enhanced", "raw"}
    <3>1. result[d] \in {"enhanced", "raw"} BY <1>1, <2>1 DEF EnrichmentInv, Resolution
    <3> QED BY <1>1, <1>2, <3>1
  <2>2. \A d \in Targets(input) : result'[d] = "broken" => d \in Range(Unit)
    BY <1>1, <1>2 DEF EnrichmentInv, Resolution
  <2> QED BY <1>0, <1>1, <2>1, <2>2 DEF Resolution, Covered, Targets
<1>7. CallsInPlace'
  <2>1. \A d \in calling' : d \in Range(Unit) /\ result'[d] = "none" /\ tries[d] > 0
    BY <1>1, <1>2 DEF EnrichmentInv, CallsInPlace
  <2>2. \A d \in Targets(input) : result'[d] = "none" /\ d \notin calling' => tries[d] = 0
    BY <1>1, <1>2 DEF EnrichmentInv, CallsInPlace
  <2>3. step = "pool" => WarmedUp'
    <3>1. \A d \in Warmups : d \in Targets(input) BY <1>1, WarmupFacts
    <3>2. step = "pool" => \A d \in Warmups : d # c /\ result[d] = "enhanced"
      BY <1>1 DEF EnrichmentInv, CallsInPlace, WarmedUp
    <3>3. Warmups' = Warmups BY DEF Warmups, Unit
    <3> QED BY <1>2, <3>1, <3>2, <3>3 DEF WarmedUp
  <2> QED BY <1>0, <1>1, <2>1, <2>2, <2>3 DEF EnrichmentInv, CallsInPlace, Targets
<1>8. FactsFollow'
  <2>1. \A f \in recorded \cup unflushed' : f[2] <= tries[f[1]]
    <3>1. \A f \in recorded \cup unflushed : f[2] <= tries[f[1]] BY DEF EnrichmentInv, FactsFollow
    <3>2. Fact(c)[2] <= tries[Fact(c)[1]] BY <1>1, <1>4
    <3> QED BY <3>1, <3>2
  <2>2. ASSUME NEW d \in Targets(input), NEW n \in 1..MaxCalls,
               n <= tries[d], <<d, n>> \notin recorded \cup unflushed'
        PROVE  n = tries[d] /\ (d \in calling' \/ result'[d] = "broken")
    <3>1. n = tries[d] /\ (d \in calling \/ result[d] = "broken")
      BY <1>1, <2>2 DEF EnrichmentInv, FactsFollow
    <3>2. CASE d = c BY <1>2, <1>4, <2>2, <3>1, <3>2
    <3>3. CASE d # c BY <1>2, <3>1, <3>3
    <3> QED BY <3>2, <3>3
  <2> QED BY <1>1, <2>1, <2>2 DEF FactsFollow, Targets
<1>9. PoolAfterWarmup'
  <2>1. ASSUME NEW u \in DOMAIN plan, NEW i \in DOMAIN plan[u], NEW j \in DOMAIN plan[u],
               i <= WarmupCalls, j > WarmupCalls, tries[plan[u][j]] > 0
        PROVE  result'[plan[u][i]] = "enhanced"
    <3>1. plan[u][i] \in Targets(input) BY PlanFacts
    <3>2. result[plan[u][i]] = "enhanced" BY <2>1 DEF EnrichmentInv, PoolAfterWarmup
    <3> QED BY <1>1, <1>2, <3>1, <3>2
  <2>2. Cardinality(calling') <= Concurrency
    <3>1. IsFiniteSet(calling) BY <1>1, PlanFacts, FS_Subset
    <3>2. Cardinality(calling') = Cardinality(calling) - 1 /\ Cardinality(calling) \in Nat
      BY <3>1, FS_RemoveElement, FS_CardinalityType
    <3> QED BY <3>2, EnrichmentAssumption DEF EnrichmentInv, PoolAfterWarmup
  <2> QED BY <2>1, <2>2 DEF PoolAfterWarmup
<1> QED BY <1>5, <1>6, <1>7, <1>8, <1>9, EnrichmentParts

LEMMA RetriedStep ==
    ASSUME EnrichmentInv, NEW c \in calling, MayRetry(c), tries' = [tries EXCEPT ![c] = @ + 1],
           unflushed' = unflushed \cup {Fact(c)},
           UNCHANGED <<input, plan, step, parses, unit, cacheMode, cached, calling, result, recorded>>
    PROVE  EnrichmentInv'
<1>1. /\ calling \subseteq Targets(input) /\ c \in Targets(input) /\ result[c] = "none" /\ step \in {"warm", "pool"}
      /\ tries \in [Targets(input) -> 0..MaxCalls] /\ MaxCalls \in Nat /\ tries[c] > 0 /\ tries[c] < MaxCalls
  BY EnrichmentAssumption DEF EnrichmentInv, EnrichmentTypeOK, CallsInPlace, MayRetry
<1>0. Unit' = Unit BY DEF Unit
<1>2. tries[c] \in Nat /\ tries[c] \in 1..MaxCalls /\ tries[c] + 1 \in 0..MaxCalls BY <1>1
<1>3. /\ tries' \in [Targets(input) -> 0..MaxCalls] /\ tries'[c] = tries[c] + 1
      /\ \A d \in Targets(input) \ {c} : tries'[d] = tries[d]
  BY <1>1, <1>2
<1>4. Fact(c) \in Facts /\ Fact(c) = <<c, tries[c]>> BY <1>1, <1>2 DEF Fact, Facts
<1>5. EnrichmentTypeOK'
  <2>1. unflushed' \subseteq Facts BY <1>4 DEF EnrichmentInv, EnrichmentTypeOK
  <2> QED BY <1>3, <2>1 DEF EnrichmentInv, EnrichmentTypeOK, Facts, Targets
<1>6. Resolution' BY <1>0 DEF EnrichmentInv, Resolution, Covered, Targets
<1>7. CallsInPlace'
  <2>1. \A d \in calling : d \in Range(Unit) /\ result[d] = "none" /\ tries'[d] > 0
    BY <1>1, <1>2, <1>3 DEF EnrichmentInv, CallsInPlace
  <2>2. \A d \in Targets(input) : result[d] = "none" /\ d \notin calling => tries'[d] = 0
    BY <1>3 DEF EnrichmentInv, CallsInPlace
  <2>3. WarmedUp' <=> WarmedUp BY DEF WarmedUp, Warmups, Unit
  <2> QED BY <1>0, <2>1, <2>2, <2>3 DEF EnrichmentInv, CallsInPlace, Targets
<1>8. FactsFollow'
  <2>1. \A f \in recorded \cup unflushed' : f[2] <= tries'[f[1]]
    <3>1. ASSUME NEW f \in recorded \cup unflushed PROVE f[2] <= tries'[f[1]]
      <4>1. f[1] \in Targets(input) /\ f[2] \in 1..MaxCalls /\ f[2] <= tries[f[1]]
        BY DEF EnrichmentInv, EnrichmentTypeOK, FactsFollow, Facts
      <4> QED BY <1>2, <1>3, <4>1
    <3>2. Fact(c)[2] <= tries'[Fact(c)[1]] BY <1>2, <1>3, <1>4
    <3> QED BY <3>1, <3>2
  <2>2. ASSUME NEW d \in Targets(input), NEW n \in 1..MaxCalls,
               n <= tries'[d], <<d, n>> \notin recorded \cup unflushed'
        PROVE  n = tries'[d] /\ (d \in calling \/ result[d] = "broken")
    <3>1. CASE d = c
      <4>1. n # tries[c] BY <1>4, <2>2, <3>1
      <4>2. n <= tries[c] => n = tries[c]
        BY <1>1, <2>2, <3>1 DEF EnrichmentInv, FactsFollow
      <4> QED BY <1>2, <1>3, <2>2, <3>1, <4>1, <4>2
    <3>2. CASE d # c BY <1>1, <1>3, <2>2, <3>2 DEF EnrichmentInv, FactsFollow
    <3> QED BY <3>1, <3>2
  <2> QED BY <1>1, <2>1, <2>2 DEF FactsFollow, Targets
<1>9. PoolAfterWarmup'
  <2>1. ASSUME NEW u \in DOMAIN plan, NEW i \in DOMAIN plan[u], NEW j \in DOMAIN plan[u],
               i <= WarmupCalls, j > WarmupCalls, tries'[plan[u][j]] > 0
        PROVE  result[plan[u][i]] = "enhanced"
    <3>1. plan[u][j] \in Targets(input) BY PlanFacts
    <3>2. tries[plan[u][j]] > 0 BY <1>1, <1>3, <2>1, <3>1
    <3> QED BY <2>1, <3>2 DEF EnrichmentInv, PoolAfterWarmup
  <2>2. Cardinality(calling') <= Concurrency BY DEF EnrichmentInv, PoolAfterWarmup
  <2> QED BY <2>1, <2>2 DEF PoolAfterWarmup
<1> QED BY <1>5, <1>6, <1>7, <1>8, <1>9, EnrichmentParts

LEMMA CallStep == ASSUME EnrichmentInv, NEW c \in Targets(input), EndCall(c) PROVE EnrichmentInv'
<1>1. c \in calling /\ UNCHANGED <<input, plan, step, parses, unit, cacheMode, cached, recorded>>
  BY DEF EndCall
<1>2. ASSUME NEW outcome \in {"enhanced", "raw"}, Answer(c, outcome) PROVE EnrichmentInv'
  BY <1>1, <1>2, AnswerStep DEF Answer
<1>3. CASE CallBreaks(c) BY <1>1, <1>3, AnswerStep DEF CallBreaks
<1>4. CASE CallUnavailable(c)
  BY <1>1, <1>2, <1>4, RetriedStep DEF CallUnavailable
<1> QED BY <1>2, <1>3, <1>4 DEF EndCall, CallSucceeds, CallRejected

\* A unit has ended: its chunks are resolved, or the document has failed
LEMMA UnitEnds ==
    ASSUME EnrichmentInv, EndPool \/ WarmupBreaks
    PROVE  EnrichmentInv'
<1>1. /\ step \in {"warm", "pool"} /\ calling = {} /\ step' \in {"flush", "failed"} /\ unit # 0
      /\ UNCHANGED <<input, plan, parses, unit, cacheMode, cached, recorded>>
      /\ UNCHANGED <<calling, tries, result, unflushed>>
  BY DEF EnrichmentInv, CallsInPlace, EndPool, WarmupBreaks, NoCalls
<1>2. EnrichmentTypeOK' BY <1>1 DEF EnrichmentInv, EnrichmentTypeOK, Facts, Targets
<1>3. Resolution'
  <2>1. CASE step' = "failed" BY <2>1 DEF Resolution
  <2>2. CASE step' = "flush"
    <3>1. /\ step = "pool" /\ \A c \in PoolChunks : result[c] # "none" /\ result[c] # "broken"
      BY <2>2 DEF EndPool, WarmupBreaks, Returned
    <3>2. \A c \in Warmups : result[c] = "enhanced" BY <3>1 DEF EnrichmentInv, CallsInPlace, WarmedUp
    <3>3. \A c \in Range(plan[unit]) : result[c] \in {"enhanced", "raw"}
      <4>1. \A c \in Targets(input) : result[c] \in {"none", "enhanced", "raw", "broken"}
        BY DEF EnrichmentInv, EnrichmentTypeOK
      <4> QED BY <1>1, <3>1, <3>2, <4>1, WarmupFacts DEF Unit
    <3>4. \A c \in Targets(input) : Covered(c)' => Covered(c) \/ c \in Range(plan[unit])
      <4>1. unit \in Nat BY <1>1, PlanFacts
      <4>2. \A u \in 1..unit : u < unit \/ u = unit BY <4>1
      <4> QED BY <1>1, <4>2 DEF Covered
    <3>5. \A c \in Targets(input) : Covered(c)' => result[c] \in {"enhanced", "raw"}
      BY <3>1, <3>3, <3>4 DEF EnrichmentInv, Resolution
    <3>6. \A c \in Targets(input) : result[c] # "broken"
      BY <1>1, <3>1, <3>3 DEF EnrichmentInv, Resolution, Unit
    <3> QED BY <1>1, <2>2, <3>5, <3>6 DEF Resolution, Targets
  <2> QED BY <1>1, <2>1, <2>2
<1> QED BY <1>1, <1>2, <1>3, PhaseMoves

LEMMA WarmupEnds == EnrichmentInv /\ EndWarmup => EnrichmentInv'
<1> SUFFICES ASSUME EnrichmentInv, EndWarmup PROVE EnrichmentInv' OBVIOUS
<1>1. /\ step = "warm" /\ calling = {} /\ unit # 0 /\ step # "failed"
      /\ \A c \in Range(Unit) : result[c] # "broken"
      /\ UNCHANGED <<input, plan, parses, unit, cacheMode, calling, tries, unflushed, recorded>>
  BY DEF EnrichmentInv, CallsInPlace, EndWarmup
<1>2. CASE WarmedUp /\ step' = "pool" /\ UNCHANGED result
                    /\ cached' = IF Warmable THEN cached \union {unit} ELSE cached
  <2>1. cached' \subseteq DOMAIN plan
    BY <1>1, <1>2, PlanFacts DEF EnrichmentInv, EnrichmentTypeOK
  <2>2. EnrichmentTypeOK' BY <1>1, <1>2, <2>1 DEF EnrichmentInv, EnrichmentTypeOK, Facts, Targets
  <2>3. Resolution'
    BY <1>1, <1>2 DEF EnrichmentInv, Resolution, Covered, Targets, Unit
  <2>4. WarmedUp' BY <1>1, <1>2 DEF WarmedUp, Warmups, Unit
  <2> QED BY <1>1, <1>2, <2>2, <2>3, <2>4, PhaseMoves
<1>3. CASE /\ ~WarmedUp /\ step' = "flush" /\ UNCHANGED cached
           /\ result' = [c \in Targets(input) |->
                           IF c \in Range(Unit) /\ result[c] = "none" THEN "raw" ELSE result[c]]
  <2>0. result \in [Targets(input) -> {"none", "enhanced", "raw", "broken"}]
    BY DEF EnrichmentInv, EnrichmentTypeOK
  <2>1. /\ result' \in [Targets(input) -> {"none", "enhanced", "raw", "broken"}]
        /\ \A c \in Targets(input) : /\ result'[c] = result[c] \/ (result[c] = "none" /\ result'[c] = "raw")
                                     /\ c \in Range(Unit) => result'[c] \in {"enhanced", "raw"}
    BY <1>1, <1>3, <2>0
  <2>2. EnrichmentTypeOK' BY <1>1, <1>3, <2>1 DEF EnrichmentInv, EnrichmentTypeOK, Facts, Targets
  <2>3. Resolution'
    <3>1. \A c \in Targets(input) : Covered(c)' => Covered(c) \/ c \in Range(Unit)
      <4>1. unit \in Nat BY <1>1, PlanFacts
      <4>2. \A u \in 1..unit : u < unit \/ u = unit BY <4>1
      <4> QED BY <1>1, <4>2 DEF Covered, Unit
    <3>2. \A c \in Targets(input) : Covered(c)' => result'[c] \in {"enhanced", "raw"}
      BY <1>1, <2>1, <3>1 DEF EnrichmentInv, Resolution
    <3>3. \A c \in Targets(input) : result'[c] # "broken"
      BY <1>1, <2>1 DEF EnrichmentInv, Resolution
    <3> QED BY <1>1, <1>3, <3>2, <3>3 DEF Resolution, Targets
  <2>4. CallsInPlace' BY <1>1, <1>3, <2>1 DEF EnrichmentInv, CallsInPlace, Targets
  <2>5. FactsFollow'
    <3>1. \A c \in Targets(input) : result[c] = "broken" => result'[c] = "broken" BY <2>1
    <3> QED BY <1>1, <1>3, <3>1 DEF EnrichmentInv, FactsFollow, Targets
  <2>6. PoolAfterWarmup'
    <3>1. \A c \in Targets(input) : result[c] = "enhanced" => result'[c] = "enhanced" BY <2>1
    <3>2. \A u \in DOMAIN plan : \A i \in DOMAIN plan[u] : plan[u][i] \in Targets(input) BY PlanFacts
    <3> QED BY <1>1, <3>1, <3>2 DEF EnrichmentInv, PoolAfterWarmup
  <2> QED BY <1>1, <2>2, <2>3, <2>4, <2>5, <2>6, EnrichmentParts
<1> QED BY <1>2, <1>3 DEF EndWarmup

LEMMA FlushStep == EnrichmentInv /\ FlushUsage => EnrichmentInv'
<1> SUFFICES ASSUME EnrichmentInv, FlushUsage PROVE EnrichmentInv' OBVIOUS
<1>1. /\ step = "flush" /\ calling = {} /\ unflushed' = {} /\ recorded' \subseteq recorded \cup unflushed
      /\ step' \in {"units", "failed"} /\ (step' = "units" => recorded' = recorded \cup unflushed)
      /\ UNCHANGED <<input, plan, parses, unit, cacheMode, cached, calling, tries, result>>
  BY DEF EnrichmentInv, CallsInPlace, FlushUsage, AllRecorded
<1>2. EnrichmentTypeOK' BY <1>1 DEF EnrichmentInv, EnrichmentTypeOK, Facts, Targets
<1>3. Resolution' BY <1>1 DEF EnrichmentInv, Resolution, Covered, Targets, Unit
<1>4. CallsInPlace' BY <1>1 DEF EnrichmentInv, CallsInPlace, Targets
<1>5. FactsFollow' BY <1>1 DEF EnrichmentInv, FactsFollow, Targets
<1>6. PoolAfterWarmup' BY <1>1 DEF EnrichmentInv, PoolAfterWarmup
<1> QED BY <1>1, <1>2, <1>3, <1>4, <1>5, <1>6, EnrichmentParts

LEMMA EnrichmentStep == EnrichmentInv /\ [EnrichmentNext]_enrichmentVars => EnrichmentInv'
<1> SUFFICES ASSUME EnrichmentInv, [EnrichmentNext]_enrichmentVars PROVE EnrichmentInv' OBVIOUS
<1>1. CASE UNCHANGED enrichmentVars
  <2>1. UNCHANGED <<input, plan, step, parses, unit, cacheMode, cached, calling, tries, result, unflushed, recorded>>
    BY <1>1 DEF enrichmentVars
  <2>2. EnrichmentTypeOK' BY <2>1 DEF EnrichmentInv, EnrichmentTypeOK, Facts, Targets
  <2>3. Resolution' BY <2>1 DEF EnrichmentInv, Resolution, Covered, Targets, Unit
  <2>4. CallsInPlace' BY <2>1 DEF EnrichmentInv, CallsInPlace, Targets, WarmedUp, Warmups, Unit
  <2>5. FactsFollow' BY <2>1 DEF EnrichmentInv, FactsFollow, Targets
  <2>6. PoolAfterWarmup' BY <2>1 DEF EnrichmentInv, PoolAfterWarmup
  <2> QED BY <2>1, <2>2, <2>3, <2>4, <2>5, <2>6, EnrichmentParts
<1>2. CASE EnrichmentNext
  BY <1>2, ParseStep, UnitsStep, StartStep, CallStep, WarmupEnds, UnitEnds, FlushStep DEF EnrichmentNext
<1> QED BY <1>1, <1>2

LEMMA EnrichmentPromise == EnrichmentInv => EnrichmentSafe
<1> SUFFICES ASSUME EnrichmentInv PROVE EnrichmentSafe OBVIOUS
<1>1. EnrichmentTypeOK /\ PlanIsSound /\ PoolAfterWarmup BY DEF EnrichmentInv, PlanIsSound
<1>2. EveryTargetResolved BY DEF EnrichmentInv, Resolution, EveryTargetResolved
<1>3. recorded \cup unflushed \subseteq Spent
  BY DEF EnrichmentInv, EnrichmentTypeOK, FactsFollow, Spent
<1>4. step = "done" => recorded = Spent
  <2> SUFFICES ASSUME step = "done" PROVE Spent \subseteq recorded BY <1>3
  <2>1. unflushed = {} /\ calling = {} /\ \A c \in Targets(input) : result[c] # "broken"
    BY DEF EnrichmentInv, FactsFollow, CallsInPlace, Resolution
  <2>2. ASSUME NEW f \in Spent PROVE f \in recorded
    <3>1. PICK c \in Targets(input), n \in 1..MaxCalls : f = <<c, n>> /\ n <= tries[c]
      BY DEF Spent, Facts
    <3> QED BY <2>1, <3>1 DEF EnrichmentInv, FactsFollow
  <2> QED BY <2>2
<1> QED BY <1>1, <1>2, <1>3, <1>4 DEF UsageIsComplete, EnrichmentSafe

\* Whatever the parser, the provider, the pool and the ledger answer, a document
\* with a sound plan warms each unit before its pool, ends with every chunk
\* enhanced or raw, and leaves every call it made in the ledger and no other
\* (indexing/processing.py, indexing/contextual.py). That the greedy packing is
\* sound is a recursion over the chunks, and is checked on the documents of the
\* run.
THEOREM Enriched == PlansAreSound /\ EnrichmentSpec => []EnrichmentSafe
<1>1. EnrichmentInit /\ PlansAreSound => EnrichmentInv BY InitEnrichment
<1>2. EnrichmentInv /\ [EnrichmentNext]_enrichmentVars => EnrichmentInv' BY EnrichmentStep
<1>3. EnrichmentInv => EnrichmentSafe BY EnrichmentPromise
<1> QED BY <1>1, <1>2, <1>3, PTL DEF EnrichmentSpec

-----------------------------------------------------------------------------
(* Quota of pages *)

TxRow == [pc : {"idle", "debit", "inserted", "rebuild"},
          entry : EntryRow \cup {Entry("none", 0, period, 0, 0) : period \in {0} \cup Months},
          request : 0..QuotaRequests]
RequestRow == [status : {"none", "pending", "approved", "rejected", "cancelled"},
               period : {0} \cup Months, pages : 0..QuotaPages, granted : 0..QuotaPages,
               reason : {"none", "applicant_inactive", "period_closed", "revoked"}]

\* What an inserted entry has read stays true until it commits: its key is not
\* booked, the debit it corrects leaves room for it, its request is pending
Corrects(entry, debit) ==
    debit.kind = "debit" /\ debit.key = entry.ref /\ debit.period = entry.period
InsertSound(entry, request) ==
    /\ entry \in EntryRow /\ entry.kind \in {"reversal", "supplement", "credit"}
    /\ ~Committed(entry.kind, entry.key)
    /\ entry.kind = "reversal" =>
          \E debit \in qledger : Corrects(entry, debit) /\ Reversed(entry.ref) + entry.pages <= debit.pages
    /\ entry.kind # "credit" => request = 0
    /\ entry.kind = "credit" =>
          /\ request = entry.key /\ request \in 1..QuotaRequests /\ PendingRequest(request)
          /\ entry.period = qrequest[request].period /\ entry.pages <= qrequest[request].pages

TxSound(tx) ==
    /\ tx.pc = "debit" => /\ tx.entry \in EntryRow /\ tx.entry.kind = "debit"
    /\ tx.pc = "inserted" => InsertSound(tx.entry, tx.request)
    /\ tx.pc = "rebuild" => tx.entry.period \in Months
    /\ tx.pc # "inserted" => tx.request = 0

\* Two inserted entries have different keys, and correct different debits
Apart(one, two) ==
    one.pc = "inserted" /\ two.pc = "inserted" =>
        /\ ~(one.entry.kind = two.entry.kind /\ one.entry.key = two.entry.key)
        /\ ~(one.entry.kind = "reversal" /\ two.entry.kind = "reversal" /\ one.entry.ref = two.entry.ref)
OneInserter == \A t, u \in QuotaTxs : t # u => Apart(qtx[t], qtx[u])

OneRowPerKey == \A one, two \in qledger : one.kind = two.kind /\ one.key = two.key => one = two
ReversalsFit ==
    /\ \A entry \in qledger : entry.kind = "reversal" => \E debit \in qledger : Corrects(entry, debit)
    /\ \A debit \in qledger : debit.kind = "debit" => Reversed(debit.key) <= debit.pages
CreditsFit ==
    /\ \A entry \in qledger : entry.kind = "credit" =>
          /\ entry.key \in 1..QuotaRequests /\ qrequest[entry.key].status = "approved"
          /\ entry.period = qrequest[entry.key].period /\ entry.pages = qrequest[entry.key].granted
          /\ entry.pages <= qrequest[entry.key].pages
    /\ \A r \in 1..QuotaRequests : qrequest[r].status = "approved" =>
          \E entry \in qledger : entry.kind = "credit" /\ entry.key = r
ProjectionFits ==
    \A period \in Months : qproj[period] = [used |-> UsedPages(period), extra |-> Booked(period, "credit")]

QuotaInv ==
    /\ QuotaTypeOK /\ OneInserter /\ \A t \in QuotaTxs : TxSound(qtx[t])
    /\ OneRowPerKey /\ ReversalsFit /\ CreditsFit /\ ProjectionFits

LEMMA QuotaRows ==
    /\ QuotaTypeOK <=>
         /\ qmonth \in Months /\ qactive \in BOOLEAN /\ qledger \subseteq EntryRow /\ IsFiniteSet(qledger)
         /\ qproj \in [Months -> [used : Int, extra : Int]] /\ qtx \in [QuotaTxs -> TxRow]
         /\ qrequest \in [1..QuotaRequests -> RequestRow]
         /\ qlisted \subseteq [request : 1..QuotaRequests,
                               reason : {"applicant_inactive", "period_closed", "revoked"}]
    /\ QuotaTypeOK' <=>
         /\ qmonth' \in Months /\ qactive' \in BOOLEAN /\ qledger' \subseteq EntryRow /\ IsFiniteSet(qledger')
         /\ qproj' \in [Months -> [used : Int, extra : Int]] /\ qtx' \in [QuotaTxs -> TxRow]
         /\ qrequest' \in [1..QuotaRequests -> RequestRow]
         /\ qlisted' \subseteq [request : 1..QuotaRequests,
                                reason : {"applicant_inactive", "period_closed", "revoked"}]
BY DEF QuotaTypeOK, TxRow, RequestRow

LEMMA NoTxSound == NoTx \in TxRow /\ NoTx.pc = "idle" /\ NoTx.request = 0 /\ TxSound(NoTx)
<1>1. NoTx.entry = Entry("none", 0, 0, 0, 0) BY DEF NoTx, NoEntry, Entry
<1>2. 0 \in 0..QuotaRequests BY QuotaAssumption
<1>3. NoTx \in TxRow BY <1>1, <1>2 DEF NoTx, TxRow
<1> QED BY <1>3 DEF NoTx, TxSound

-----------------------------------------------------------------------------
(* Quota: sums of pages *)

\* the pages of a finite set of entries are finite, and those of one entry more
LEMMA PagesFinite ==
    ASSUME NEW booked, booked \subseteq EntryRow, IsFiniteSet(booked)
    PROVE  IsFiniteSet(PageUnits(booked)) /\ TotalPages(booked) \in Nat
<1>1. PageUnits(booked) \subseteq booked \X (1..QuotaPages)
  BY QuotaAssumption DEF PageUnits, EntryRow
<1>2. IsFiniteSet(1..QuotaPages) BY FS_Interval, QuotaAssumption, 1 \in Int, QuotaPages \in Int
<1>3. IsFiniteSet(booked \X (1..QuotaPages)) BY <1>2, FS_Product
<1>4. IsFiniteSet(PageUnits(booked)) BY <1>1, <1>3, FS_Subset
<1> QED BY <1>4, FS_CardinalityType DEF TotalPages

LEMMA PagesAdded ==
    ASSUME NEW booked, booked \subseteq EntryRow, IsFiniteSet(booked), NEW entry \in EntryRow, entry \notin booked
    PROVE  TotalPages(booked \cup {entry}) = TotalPages(booked) + entry.pages
<1> DEFINE one == {entry} \X (1..entry.pages)
           old == PageUnits(booked)
<1>1. PageUnits(booked \cup {entry}) = old \cup one BY DEF PageUnits
<1>2. old \cap one = {} BY DEF PageUnits
<1>3. entry.pages \in Nat BY QuotaAssumption DEF EntryRow
<1>4. IsFiniteSet(1..entry.pages) /\ Cardinality(1..entry.pages) = entry.pages
  <2>1. entry.pages \in Int BY <1>3
  <2>2. IsFiniteSet(1..entry.pages) /\ Cardinality(1..entry.pages) = IF 1 > entry.pages THEN 0 ELSE entry.pages - 1 + 1
    BY <2>1, FS_Interval
  <2> QED BY <1>3, <2>2
<1>5. IsFiniteSet({entry}) /\ Cardinality({entry}) = 1 BY FS_Singleton
<1>6. IsFiniteSet(one) /\ Cardinality(one) = entry.pages
  <2>1. IsFiniteSet(one) /\ Cardinality(one) = Cardinality({entry}) * Cardinality(1..entry.pages)
    BY <1>4, <1>5, FS_Product
  <2> QED BY <1>3, <1>4, <1>5, <2>1
<1>7. IsFiniteSet(old) /\ Cardinality(old) \in Nat BY PagesFinite DEF TotalPages
<1> HIDE DEF one, old
<1>8. Cardinality(old \cup one) = Cardinality(old) + Cardinality(one) - Cardinality(old \cap one)
  BY <1>6, <1>7, FS_Union
<1>9. Cardinality(old \cap one) = 0 BY <1>2, FS_EmptySet
<1>10. Cardinality(old \cup one) = Cardinality(old) + entry.pages BY <1>3, <1>6, <1>7, <1>8, <1>9
<1> QED BY <1>1, <1>10 DEF TotalPages, old

\* room for the pages of a set: they can be numbered from 1 to n
LEMMA PagesNumbered ==
    ASSUME NEW S, IsFiniteSet(S), NEW n \in Nat, Cardinality(S) <= n
    PROVE  \E f \in [S -> 1..n] : \A x, y \in S : f[x] = f[y] => x = y
<1> DEFINE m == Cardinality(S)
<1>1. m \in Nat /\ ExistsBijection(1..m, S) BY FS_CardinalityType
<1>2. PICK g \in [1..m -> S] : \A x \in S : \E i \in 1..m : g[i] = x
  BY <1>1 DEF ExistsBijection, Bijection, Injection, Surjection
<1> DEFINE f == [x \in S |-> CHOOSE i \in 1..m : g[i] = x]
<1>3. \A x \in S : f[x] \in 1..m /\ g[f[x]] = x BY <1>2
<1>4. m <= n OBVIOUS
<1> HIDE DEF m
<1>5. 1..m \subseteq 1..n BY <1>1, <1>4
<1>6. f \in [S -> 1..n] BY <1>3, <1>5
<1>7. \A x, y \in S : f[x] = f[y] => x = y BY <1>3
<1> HIDE DEF f
<1> QED BY <1>6, <1>7

\* no month has more pages reversed than it has debits for: the reversals of
\* each debit are numbered by its pages
LEMMA EnoughDebits ==
    ASSUME QuotaInv, NEW period \in Months
    PROVE  Booked(period, "reversal") <= Booked(period, "debit")
<1> DEFINE R == PageUnits(Entries(period, "reversal"))
           D == PageUnits(Entries(period, "debit"))
           debits == Entries(period, "debit")
           of(entry) == CHOOSE debit \in debits : debit.key = entry.ref
<1>t. qledger \subseteq EntryRow /\ IsFiniteSet(qledger) BY DEF QuotaInv, QuotaTypeOK
<1>1. IsFiniteSet(D)
  <2>1. debits \subseteq qledger BY DEF Entries
  <2>2. IsFiniteSet(debits) BY <1>t, <2>1, FS_Subset
  <2> QED BY <1>t, <2>1, <2>2, PagesFinite
<1>2. ASSUME NEW d \in debits
      PROVE  \E f \in [PageUnits(Reversals(d.key)) -> 1..d.pages] :
                \A x, y \in PageUnits(Reversals(d.key)) : f[x] = f[y] => x = y
  <2>1. d \in qledger /\ d.kind = "debit" BY DEF Entries
  <2>2. d.pages \in Nat BY <1>t, <2>1, QuotaAssumption DEF EntryRow
  <2>3. Reversals(d.key) \subseteq qledger BY DEF Reversals
  <2>4. IsFiniteSet(Reversals(d.key)) BY <1>t, <2>3, FS_Subset
  <2>5. IsFiniteSet(PageUnits(Reversals(d.key))) BY <1>t, <2>3, <2>4, PagesFinite
  <2>6. Cardinality(PageUnits(Reversals(d.key))) <= d.pages
    BY <2>1 DEF QuotaInv, ReversalsFit, Reversed, TotalPages
  <2> QED BY <2>2, <2>5, <2>6, PagesNumbered
<1> DEFINE number == [d \in debits |->
                        CHOOSE f \in [PageUnits(Reversals(d.key)) -> 1..d.pages] :
                          \A x, y \in PageUnits(Reversals(d.key)) : f[x] = f[y] => x = y]
<1>3. ASSUME NEW d \in debits
      PROVE  /\ number[d] \in [PageUnits(Reversals(d.key)) -> 1..d.pages]
             /\ \A x, y \in PageUnits(Reversals(d.key)) : number[d][x] = number[d][y] => x = y
  <2> DEFINE Good(f) == \A x, y \in PageUnits(Reversals(d.key)) : f[x] = f[y] => x = y
  <2>1. \E f \in [PageUnits(Reversals(d.key)) -> 1..d.pages] : Good(f) BY <1>2
  <2>2. number[d] = CHOOSE f \in [PageUnits(Reversals(d.key)) -> 1..d.pages] : Good(f) OBVIOUS
  <2> HIDE DEF Good, number
  <2>3. number[d] \in [PageUnits(Reversals(d.key)) -> 1..d.pages] /\ Good(number[d]) BY <2>1, <2>2
  <2> QED BY <2>3 DEF Good
<1> HIDE DEF number
<1>4. ASSUME NEW x \in R
      PROVE  of(x[1]) \in debits /\ x \in PageUnits(Reversals(of(x[1]).key))
  <2>1. x[1] \in Entries(period, "reversal") /\ x \in {x[1]} \X (1..x[1].pages) BY DEF PageUnits
  <2>2. x[1] \in qledger /\ x[1].kind = "reversal" /\ x[1].period = period BY <2>1 DEF Entries
  <2>3. \E debit \in debits : debit.key = x[1].ref
    BY <2>2 DEF QuotaInv, ReversalsFit, Corrects, Entries
  <2>4. of(x[1]) \in debits /\ of(x[1]).key = x[1].ref BY <2>3
  <2>5. x[1] \in Reversals(of(x[1]).key) BY <2>2, <2>4 DEF Reversals
  <2> QED BY <2>1, <2>4, <2>5 DEF PageUnits
<1> DEFINE place == [x \in R |-> <<of(x[1]), number[of(x[1])][x]>>]
<1>5. place \in [R -> D]
  <2>1. ASSUME NEW x \in R PROVE <<of(x[1]), number[of(x[1])][x]>> \in D
    <3>1. PICK d \in debits : d = of(x[1]) BY <1>4
    <3>2. number[d][x] \in 1..d.pages BY <1>3, <1>4, <3>1
    <3>3. <<d, number[d][x]>> \in {d} \X (1..d.pages) BY <3>2
    <3> QED BY <3>1, <3>3 DEF PageUnits
  <2> QED BY <2>1
<1>6. ASSUME NEW x \in R, NEW y \in R, place[x] = place[y] PROVE x = y
  <2>1. PICK d \in debits : d = of(x[1]) BY <1>4
  <2>2. <<of(x[1]), number[of(x[1])][x]>> = <<of(y[1]), number[of(y[1])][y]>> BY <1>6
  <2> HIDE DEF of
  <2>3. of(y[1]) = of(x[1]) /\ number[of(x[1])][x] = number[of(y[1])][y] BY <2>2
  <2>4. of(y[1]) = d /\ number[d][x] = number[d][y] BY <2>1, <2>3
  <2>5. x \in PageUnits(Reversals(d.key)) /\ y \in PageUnits(Reversals(d.key)) BY <1>4, <2>1, <2>4
  <2> QED BY <1>3, <2>4, <2>5
<1> HIDE DEF R, D, place, of, debits
<1>7. place \in Injection(R, D) BY <1>5, <1>6 DEF Injection, IsInjective
<1>8. Cardinality(R) <= Cardinality(D) BY <1>1, <1>7, FS_Injection
<1> QED BY <1>8 DEF R, D, Booked, TotalPages

LEMMA BookedTyped ==
    ASSUME QuotaInv, NEW period, NEW kind
    PROVE  /\ Booked(period, kind) \in Nat
           /\ Entries(period, kind) \subseteq EntryRow /\ IsFiniteSet(Entries(period, kind))
<1>1. qledger \subseteq EntryRow /\ IsFiniteSet(qledger) BY DEF QuotaInv, QuotaTypeOK
<1>2. Entries(period, kind) \subseteq qledger BY DEF Entries
<1>3. IsFiniteSet(Entries(period, kind)) BY <1>1, <1>2, FS_Subset
<1> QED BY <1>1, <1>2, <1>3, PagesFinite DEF Booked

LEMMA ReversedTyped ==
    ASSUME QuotaInv, NEW op
    PROVE  /\ Reversed(op) \in Nat
           /\ Reversals(op) \subseteq EntryRow /\ IsFiniteSet(Reversals(op))
<1>1. qledger \subseteq EntryRow /\ IsFiniteSet(qledger) BY DEF QuotaInv, QuotaTypeOK
<1>2. Reversals(op) \subseteq qledger BY DEF Reversals
<1>3. IsFiniteSet(Reversals(op)) BY <1>1, <1>2, FS_Subset
<1> QED BY <1>1, <1>2, <1>3, PagesFinite DEF Reversed
-----------------------------------------------------------------------------
(* Quota: the steps *)

LEMMA InitQuota == QuotaInit => QuotaInv
<1> SUFFICES ASSUME QuotaInit PROVE QuotaInv OBVIOUS
<1>1. PageUnits({}) = {} /\ IsFiniteSet({}) /\ TotalPages({}) = 0
  BY FS_EmptySet DEF PageUnits, TotalPages
<1>2. \A period, kind : Entries(period, kind) = {} BY DEF QuotaInit, Entries
<1>3. ProjectionFits
  <2>1. ASSUME NEW period \in Months
        PROVE  qproj[period] = [used |-> UsedPages(period), extra |-> Booked(period, "credit")]
    <3>1. /\ Booked(period, "debit") = 0 /\ Booked(period, "supplement") = 0
          /\ Booked(period, "reversal") = 0 /\ Booked(period, "credit") = 0
      BY <1>1, <1>2 DEF Booked
    <3>2. UsedPages(period) = 0 BY <3>1 DEF UsedPages
    <3> QED BY <3>1, <3>2 DEF QuotaInit
  <2> QED BY <2>1 DEF ProjectionFits
<1>4. QuotaTypeOK
  <2>1. NoQuotaRequest \in RequestRow BY QuotaAssumption DEF NoQuotaRequest, RequestRow
  <2>2. 1 \in Months BY QuotaAssumption DEF Months
  <2> QED BY <1>1, <2>1, <2>2, NoTxSound, QuotaRows DEF QuotaInit
<1>5. OneInserter /\ \A t \in QuotaTxs : TxSound(qtx[t])
  <2>1. \A t \in QuotaTxs : qtx[t] = NoTx BY DEF QuotaInit
  <2> QED BY <2>1, NoTxSound DEF OneInserter, Apart
<1>6. OneRowPerKey /\ ReversalsFit BY DEF QuotaInit, OneRowPerKey, ReversalsFit
<1>7. CreditsFit BY DEF QuotaInit, CreditsFit, NoQuotaRequest
<1> QED BY <1>3, <1>4, <1>5, <1>6, <1>7 DEF QuotaInv

\* what is read of the ledger is what it was
LEMMA LedgerStands ==
    ASSUME UNCHANGED qledger
    PROVE  /\ \A op : Reversed(op)' = Reversed(op)
           /\ \A period, kind : Booked(period, kind)' = Booked(period, kind)
           /\ \A period : UsedPages(period)' = UsedPages(period)
           /\ OneRowPerKey' <=> OneRowPerKey
           /\ \A kind, key : Committed(kind, key)' <=> Committed(kind, key)
<1>1. \A op : Reversed(op)' = Reversed(op) BY DEF Reversed, Reversals
<1>2. \A period, kind : Booked(period, kind)' = Booked(period, kind) BY DEF Booked, Entries
<1>3. \A period : UsedPages(period)' = UsedPages(period) BY <1>2 DEF UsedPages
<1>4. OneRowPerKey' <=> OneRowPerKey BY DEF OneRowPerKey
<1>5. \A kind, key : Committed(kind, key)' <=> Committed(kind, key) BY DEF Committed
<1> QED BY <1>1, <1>2, <1>3, <1>4, <1>5

\* a transaction that is sound stays so while the ledger stands and its own
\* request is as it was
LEMMA TxStaysSound ==
    ASSUME NEW u \in QuotaTxs, NEW tx \in TxRow, TxSound(tx), qtx'[u] = tx, UNCHANGED qledger,
           \A r \in 1..QuotaRequests : qrequest'[r] = qrequest[r] \/ tx.request # r
    PROVE  TxSound(qtx[u])'
<1>3. ASSUME tx.pc = "inserted" PROVE InsertSound(qtx[u].entry, qtx[u].request)'
  <2>1. InsertSound(tx.entry, tx.request) BY <1>3 DEF TxSound
  <2>2. ~Committed(qtx[u].entry.kind, qtx[u].entry.key)' BY <2>1 DEF InsertSound, Committed
  <2>3. tx.entry.kind = "reversal" =>
           \E debit \in qledger' : /\ Corrects(qtx[u].entry, debit)'
                                   /\ Reversed(qtx[u].entry.ref)' + tx.entry.pages <= debit.pages
    <3>1. Reversed(qtx[u].entry.ref)' = Reversed(tx.entry.ref) BY DEF Reversed, Reversals
    <3> QED BY <2>1, <3>1 DEF InsertSound, Corrects
  <2>4. tx.entry.kind = "credit" =>
          /\ tx.request = tx.entry.key /\ tx.request \in 1..QuotaRequests /\ PendingRequest(qtx[u].request)'
          /\ tx.entry.period = qrequest'[tx.request].period
          /\ tx.entry.pages <= qrequest'[tx.request].pages
    BY <2>1 DEF InsertSound, PendingRequest
  <2>5. /\ tx.entry \in EntryRow /\ tx.entry.kind \in {"reversal", "supplement", "credit"}
        /\ tx.entry.kind # "credit" => tx.request = 0
    BY <2>1 DEF InsertSound
  <2> QED BY <2>2, <2>3, <2>4, <2>5 DEF InsertSound
<1> QED BY <1>3 DEF TxSound

\* one transaction opens, or ends without a trace
LEMMA TxMoves ==
    ASSUME QuotaInv, NEW t \in QuotaTxs, NEW tx \in TxRow, TxSound(tx),
           qtx' = [qtx EXCEPT ![t] = tx],
           \A u \in QuotaTxs : u # t => Apart(tx, qtx[u]) /\ Apart(qtx[u], tx),
           UNCHANGED <<qmonth, qactive, qledger, qproj, qrequest, qlisted>>
    PROVE  QuotaInv'
<1>t. qtx \in [QuotaTxs -> TxRow] BY QuotaRows DEF QuotaInv
<1>1. QuotaTypeOK' BY <1>t, QuotaRows DEF QuotaInv
<1>2. qtx'[t] = tx /\ \A u \in QuotaTxs : u # t => qtx'[u] = qtx[u] BY <1>t
<1>3. ASSUME NEW u \in QuotaTxs PROVE TxSound(qtx[u])'
  <2>1. CASE u = t BY <1>2, <2>1, TxStaysSound
  <2>2. CASE u # t
    <3>1. qtx[u] \in TxRow /\ TxSound(qtx[u]) /\ qtx'[u] = qtx[u] BY <1>t, <1>2, <2>2 DEF QuotaInv
    <3> QED BY <3>1, TxStaysSound
  <2> QED BY <2>1, <2>2
<1>4. OneInserter'
  <2>1. ASSUME NEW u \in QuotaTxs, NEW v \in QuotaTxs, u # v PROVE Apart(qtx'[u], qtx'[v])
    BY <1>2, <2>1 DEF QuotaInv, OneInserter
  <2> QED BY <2>1 DEF OneInserter
<1>5. OneRowPerKey' /\ CreditsFit' /\ ReversalsFit' /\ ProjectionFits'
  <2>1. OneRowPerKey' /\ CreditsFit' BY DEF QuotaInv, OneRowPerKey, CreditsFit
  <2>2. ReversalsFit' BY LedgerStands DEF QuotaInv, ReversalsFit
  <2>3. ProjectionFits' BY LedgerStands DEF QuotaInv, ProjectionFits
  <2> QED BY <2>1, <2>2, <2>3
<1> QED BY <1>1, <1>3, <1>4, <1>5 DEF QuotaInv

\* rows of requests change, none of them held, none of them approved before or
\* after
LEMMA RequestsMove ==
    ASSUME QuotaInv, qrequest' \in [1..QuotaRequests -> RequestRow], UNCHANGED <<qledger, qproj, qtx>>,
           \A r \in 1..QuotaRequests :
              \/ qrequest'[r] = qrequest[r]
              \/ /\ qrequest[r].status # "approved" /\ qrequest'[r].status # "approved"
                 /\ \A u \in QuotaTxs : qtx[u].request # r,
           qmonth' \in Months, qactive' \in BOOLEAN,
           qlisted' \subseteq [request : 1..QuotaRequests,
                               reason : {"applicant_inactive", "period_closed", "revoked"}]
    PROVE  QuotaInv'
<1>t. qtx \in [QuotaTxs -> TxRow] BY QuotaRows DEF QuotaInv
<1>1. QuotaTypeOK' BY <1>t, QuotaRows DEF QuotaInv
<1>3. ASSUME NEW u \in QuotaTxs PROVE TxSound(qtx[u])'
  <2>1. qtx[u] \in TxRow /\ TxSound(qtx[u]) /\ qtx'[u] = qtx[u] BY <1>t DEF QuotaInv
  <2>2. \A r \in 1..QuotaRequests : qrequest'[r] = qrequest[r] \/ qtx[u].request # r OBVIOUS
  <2> QED BY <2>1, <2>2, TxStaysSound
<1>4. OneInserter' BY DEF QuotaInv, OneInserter
<1>5. OneRowPerKey' /\ CreditsFit' /\ ReversalsFit' /\ ProjectionFits'
  <2>1. OneRowPerKey' BY DEF QuotaInv, OneRowPerKey
  <2>2. ReversalsFit' BY LedgerStands DEF QuotaInv, ReversalsFit
  <2>3. ProjectionFits' BY LedgerStands DEF QuotaInv, ProjectionFits
  <2>4. CreditsFit' BY DEF QuotaInv, CreditsFit
  <2> QED BY <2>1, <2>2, <2>3, <2>4
<1> QED BY <1>1, <1>3, <1>4, <1>5 DEF QuotaInv

\* the ledger and the projection after an entry whose key was not booked
LEMMA LedgerGrows ==
    ASSUME QuotaInv, NEW entry \in EntryRow, ~Committed(entry.kind, entry.key), Apply(entry)
    PROVE  /\ qledger' = qledger \cup {entry} /\ qledger' \subseteq EntryRow /\ IsFiniteSet(qledger')
           /\ qproj' \in [Months -> [used : Int, extra : Int]]
           /\ \A op : Reversed(op)' = IF entry.kind = "reversal" /\ entry.ref = op
                                      THEN Reversed(op) + entry.pages ELSE Reversed(op)
           /\ OneRowPerKey' /\ ProjectionFits'
<1>t. /\ qledger \subseteq EntryRow /\ IsFiniteSet(qledger)
      /\ qproj \in [Months -> [used : Int, extra : Int]]
  BY QuotaRows DEF QuotaInv
<1>1. qledger' = qledger \cup {entry} BY DEF Apply
<1>2. entry \notin qledger BY DEF Committed
<1>3. qledger' \subseteq EntryRow /\ IsFiniteSet(qledger') BY <1>t, <1>1, FS_AddElement
<1>n. entry.pages \in Nat /\ entry.period \in Months /\ entry.kind \in {"debit", "reversal", "supplement", "credit"}
  BY QuotaAssumption DEF EntryRow
<1>4. ASSUME NEW op
      PROVE  Reversed(op)' = IF entry.kind = "reversal" /\ entry.ref = op
                             THEN Reversed(op) + entry.pages ELSE Reversed(op)
  <2>1. CASE entry.kind = "reversal" /\ entry.ref = op
    <3>1. Reversals(op)' = Reversals(op) \cup {entry} BY <1>1, <2>1 DEF Reversals
    <3>2. entry \notin Reversals(op) BY <1>2 DEF Reversals
    <3>3. TotalPages(Reversals(op) \cup {entry}) = TotalPages(Reversals(op)) + entry.pages
      BY <3>2, ReversedTyped, PagesAdded
    <3> QED BY <2>1, <3>1, <3>3 DEF Reversed
  <2>2. CASE ~(entry.kind = "reversal" /\ entry.ref = op)
    <3>1. Reversals(op)' = Reversals(op) BY <1>1, <2>2 DEF Reversals
    <3> QED BY <2>2, <3>1 DEF Reversed
  <2> QED BY <2>1, <2>2
<1>5. ASSUME NEW period, NEW kind
      PROVE  Booked(period, kind)' = IF entry.kind = kind /\ entry.period = period
                                     THEN Booked(period, kind) + entry.pages ELSE Booked(period, kind)
  <2>1. CASE entry.kind = kind /\ entry.period = period
    <3>1. Entries(period, kind)' = Entries(period, kind) \cup {entry} BY <1>1, <2>1 DEF Entries
    <3>2. entry \notin Entries(period, kind) BY <1>2 DEF Entries
    <3>3. TotalPages(Entries(period, kind) \cup {entry}) = TotalPages(Entries(period, kind)) + entry.pages
      BY <3>2, BookedTyped, PagesAdded
    <3> QED BY <2>1, <3>1, <3>3 DEF Booked
  <2>2. CASE ~(entry.kind = kind /\ entry.period = period)
    <3>1. Entries(period, kind)' = Entries(period, kind) BY <1>1, <2>2 DEF Entries
    <3> QED BY <2>2, <3>1 DEF Booked
  <2> QED BY <2>1, <2>2
<1>6. OneRowPerKey' BY <1>1 DEF QuotaInv, OneRowPerKey, Committed
<1> DEFINE month == entry.period
           more == CASE entry.kind \in {"debit", "supplement"} -> entry.pages
                     [] entry.kind = "reversal" -> -entry.pages
                     [] OTHER -> 0
           given == IF entry.kind = "credit" THEN entry.pages ELSE 0
           row == [used |-> qproj[month].used + more, extra |-> qproj[month].extra + given]
<1>7. qproj[month] \in [used : Int, extra : Int] BY <1>t, <1>n
<1>8. qproj' = [qproj EXCEPT ![month] = row]
  <2>1. qproj' = [qproj EXCEPT ![month] = [used |-> @.used + more, extra |-> @.extra + given]] BY DEF Apply
  <2> HIDE DEF more, given
  <2> QED BY <1>t, <1>n, <2>1
<1>9. row \in [used : Int, extra : Int] /\ qproj' \in [Months -> [used : Int, extra : Int]]
  <2>1. row.used \in Int /\ row.extra \in Int BY <1>7, <1>n
  <2>2. row \in [used : Int, extra : Int] BY <2>1
  <2> HIDE DEF row
  <2> QED BY <1>t, <1>n, <1>8, <2>2
<1>10. ProjectionFits'
  <2>1. ASSUME NEW period \in Months
        PROVE  qproj'[period] = [used |-> UsedPages(period)', extra |-> Booked(period, "credit")']
    <3> DEFINE debit == Booked(period, "debit")
               supplement == Booked(period, "supplement")
               reversal == Booked(period, "reversal")
               credit == Booked(period, "credit")
    <3>1. debit \in Nat /\ supplement \in Nat /\ reversal \in Nat /\ credit \in Nat BY BookedTyped
    <3>2. qproj[period] = [used |-> debit + supplement - reversal, extra |-> credit]
      BY DEF QuotaInv, ProjectionFits, UsedPages
    <3>3. UsedPages(period)' = Booked(period, "debit")' + Booked(period, "supplement")' - Booked(period, "reversal")'
      BY DEF UsedPages
    <3> HIDE DEF debit, supplement, reversal, credit
    <3>4. CASE period # month
      <4>1. qproj'[period] = qproj[period] BY <1>t, <1>8, <3>4
      <4>2. /\ Booked(period, "debit")' = debit /\ Booked(period, "supplement")' = supplement
            /\ Booked(period, "reversal")' = reversal /\ Booked(period, "credit")' = credit
        BY <1>5, <3>4 DEF debit, supplement, reversal, credit
      <4> QED BY <3>2, <3>3, <4>1, <4>2
    <3>5. CASE period = month
      <4>1. qproj'[period] = row BY <1>t, <1>n, <1>8, <3>5
      <4>2. qproj[month].used = debit + supplement - reversal /\ qproj[month].extra = credit
        BY <3>2, <3>5
      <4>3. /\ Booked(period, "debit")' = IF entry.kind = "debit" THEN debit + entry.pages ELSE debit
            /\ Booked(period, "supplement")' = IF entry.kind = "supplement" THEN supplement + entry.pages ELSE supplement
            /\ Booked(period, "reversal")' = IF entry.kind = "reversal" THEN reversal + entry.pages ELSE reversal
            /\ Booked(period, "credit")' = IF entry.kind = "credit" THEN credit + entry.pages ELSE credit
        BY <1>5, <3>5 DEF debit, supplement, reversal, credit
      <4>4. row.used = UsedPages(period)' /\ row.extra = Booked(period, "credit")'
        <5>1. CASE entry.kind = "debit" BY <1>n, <3>1, <3>3, <4>2, <4>3, <5>1
        <5>2. CASE entry.kind = "supplement" BY <1>n, <3>1, <3>3, <4>2, <4>3, <5>2
        <5>3. CASE entry.kind = "reversal" BY <1>n, <3>1, <3>3, <4>2, <4>3, <5>3
        <5>4. CASE entry.kind = "credit" BY <1>n, <3>1, <3>3, <4>2, <4>3, <5>4
        <5> QED BY <1>n, <5>1, <5>2, <5>3, <5>4
      <4>5. row = [used |-> row.used, extra |-> row.extra] OBVIOUS
      <4> HIDE DEF row
      <4> QED BY <4>1, <4>4, <4>5
    <3> QED BY <3>4, <3>5
  <2> QED BY <2>1 DEF ProjectionFits
<1> HIDE DEF row, month
<1> QED BY <1>1, <1>3, <1>4, <1>6, <1>9, <1>10

\* a transaction commits its entry, a credit together with its request
LEMMA EntryCommits ==
    ASSUME QuotaInv, NEW t \in QuotaTxs, NEW entry, entry = qtx[t].entry, entry \in EntryRow,
           ~Committed(entry.kind, entry.key), Apply(entry), EndTx(t), UNCHANGED <<qmonth, qactive, qlisted>>,
           \/ entry.kind = "debit" /\ qtx[t].request = 0 /\ UNCHANGED qrequest
           \/ /\ InsertSound(entry, qtx[t].request) /\ qtx[t].pc = "inserted"
              /\ qrequest' = IF qtx[t].request = 0 THEN qrequest
                             ELSE [qrequest EXCEPT ![qtx[t].request].status = "approved",
                                                   ![qtx[t].request].granted = entry.pages]
    PROVE  QuotaInv'
<1>t. /\ qtx \in [QuotaTxs -> TxRow] /\ qrequest \in [1..QuotaRequests -> RequestRow]
      /\ qledger \subseteq EntryRow
  BY QuotaRows DEF QuotaInv
<1>g. /\ qledger' = qledger \cup {entry} /\ qledger' \subseteq EntryRow /\ IsFiniteSet(qledger')
      /\ qproj' \in [Months -> [used : Int, extra : Int]]
      /\ \A op : Reversed(op)' = IF entry.kind = "reversal" /\ entry.ref = op
                                 THEN Reversed(op) + entry.pages ELSE Reversed(op)
      /\ OneRowPerKey' /\ ProjectionFits'
  BY LedgerGrows
<1>n. entry.pages \in Nat /\ entry.pages \in 1..QuotaPages BY QuotaAssumption DEF EntryRow
<1>1. /\ qtx'[t] = NoTx /\ \A u \in QuotaTxs : u # t => qtx'[u] = qtx[u]
      /\ qtx' \in [QuotaTxs -> TxRow]
  BY <1>t, NoTxSound DEF EndTx
<1> DEFINE r == qtx[t].request
           row == [qrequest[r] EXCEPT !.status = "approved", !.granted = entry.pages]
<1>2. /\ entry.kind # "credit" => r = 0 /\ qrequest' = qrequest
      /\ entry.kind = "credit" =>
            /\ r \in 1..QuotaRequests /\ r = entry.key /\ qrequest' = [qrequest EXCEPT ![r] = row]
            /\ qrequest[r].status = "pending"
            /\ entry.period = qrequest[r].period /\ entry.pages <= qrequest[r].pages
  <2>1. CASE entry.kind = "debit" /\ qtx[t].request = 0 /\ UNCHANGED qrequest BY <2>1
  <2>2. CASE /\ InsertSound(entry, qtx[t].request)
             /\ qrequest' = IF qtx[t].request = 0 THEN qrequest
                            ELSE [qrequest EXCEPT ![qtx[t].request].status = "approved",
                                                  ![qtx[t].request].granted = entry.pages]
    <3>1. CASE entry.kind = "credit"
      <4>1. /\ r \in 1..QuotaRequests /\ r = entry.key /\ qrequest[r].status = "pending"
            /\ entry.period = qrequest[r].period /\ entry.pages <= qrequest[r].pages
        BY <2>2, <3>1 DEF InsertSound, PendingRequest
      <4>2. r # 0 BY <4>1, QuotaAssumption
      <4>3. qrequest' = [qrequest EXCEPT ![r] = row] BY <1>t, <2>2, <4>1, <4>2
      <4> QED BY <3>1, <4>1, <4>3
    <3>2. CASE entry.kind # "credit" BY <2>2, <3>2 DEF InsertSound
    <3> QED BY <3>1, <3>2
  <2> QED BY <2>1, <2>2
<1>3. entry.kind = "credit" =>
         /\ row \in RequestRow /\ row.status = "approved" /\ row.granted = entry.pages
         /\ row.period = qrequest[r].period /\ row.pages = qrequest[r].pages
  <2>1. entry.kind = "credit" => qrequest[r] \in RequestRow BY <1>t, <1>2
  <2>2. entry.pages \in 0..QuotaPages BY <1>n
  <2> QED BY <2>1, <2>2 DEF RequestRow
<1> HIDE DEF row, r
<1>4. /\ qrequest' \in [1..QuotaRequests -> RequestRow]
      /\ \A q \in 1..QuotaRequests : qrequest'[q] = qrequest[q] \/ (q = r /\ entry.kind = "credit")
      /\ entry.kind = "credit" => qrequest'[r] = row
  BY <1>t, <1>2, <1>3
<1>5. QuotaTypeOK' BY <1>g, <1>1, <1>4, QuotaRows DEF QuotaInv
<1>6. ASSUME NEW u \in QuotaTxs PROVE TxSound(qtx[u])'
  <2>1. CASE u = t
    <3>1. qtx'[u] = NoTx BY <1>1, <2>1
    <3> QED BY <3>1, NoTxSound DEF TxSound
  <2>2. CASE u # t
    <3>1. PICK tx \in TxRow : tx = qtx[u] /\ qtx'[u] = tx /\ TxSound(tx) BY <1>t, <1>1, <2>2 DEF QuotaInv
    <3>2. ASSUME tx.pc = "inserted" PROVE InsertSound(qtx[u].entry, qtx[u].request)'
      <4>1. InsertSound(tx.entry, tx.request) BY <3>1, <3>2 DEF TxSound
      <4>2. ~(tx.entry.kind = entry.kind /\ tx.entry.key = entry.key)
            /\ ~(tx.entry.kind = "reversal" /\ entry.kind = "reversal" /\ tx.entry.ref = entry.ref)
        <5>1. CASE entry.kind = "debit" BY <4>1, <5>1 DEF InsertSound
        <5>2. CASE qtx[t].pc = "inserted" BY <2>2, <3>1, <3>2, <5>2 DEF QuotaInv, OneInserter, Apart
        <5> QED BY <5>1, <5>2
      <4>3. ~Committed(qtx[u].entry.kind, qtx[u].entry.key)'
        BY <1>g, <3>1, <4>1, <4>2 DEF InsertSound, Committed
      <4>4. tx.entry.kind = "reversal" =>
              \E debit \in qledger' : /\ Corrects(qtx[u].entry, debit)'
                                      /\ Reversed(qtx[u].entry.ref)' + tx.entry.pages <= debit.pages
        <5>1. Reversed(qtx[u].entry.ref)' = Reversed(tx.entry.ref)' BY <3>1 DEF Reversed, Reversals
        <5>2. tx.entry.kind = "reversal" => Reversed(tx.entry.ref)' = Reversed(tx.entry.ref) BY <1>g, <4>2
        <5> QED BY <1>g, <3>1, <4>1, <5>1, <5>2 DEF InsertSound, Corrects
      <4>5. tx.entry.kind = "credit" =>
              /\ tx.request = tx.entry.key /\ tx.request \in 1..QuotaRequests /\ PendingRequest(qtx[u].request)'
              /\ tx.entry.period = qrequest'[tx.request].period
              /\ tx.entry.pages <= qrequest'[tx.request].pages
        <5>1. tx.entry.kind = "credit" => qrequest'[tx.request] = qrequest[tx.request]
          BY <1>2, <1>4, <4>1, <4>2 DEF InsertSound
        <5> QED BY <3>1, <4>1, <5>1 DEF InsertSound, PendingRequest
      <4>6. /\ tx.entry \in EntryRow /\ tx.entry.kind \in {"reversal", "supplement", "credit"}
            /\ tx.entry.kind # "credit" => tx.request = 0
        BY <4>1 DEF InsertSound
      <4> QED BY <3>1, <4>3, <4>4, <4>5, <4>6 DEF InsertSound
    <3> QED BY <3>1, <3>2 DEF TxSound
  <2> QED BY <2>1, <2>2
<1>7. OneInserter'
  <2>1. ASSUME NEW u \in QuotaTxs, NEW v \in QuotaTxs, u # v PROVE Apart(qtx'[u], qtx'[v])
    <3>1. CASE u = t \/ v = t BY <1>1, <3>1, NoTxSound DEF Apart
    <3>2. CASE u # t /\ v # t BY <1>1, <2>1, <3>2 DEF QuotaInv, OneInserter
    <3> QED BY <3>1, <3>2
  <2> QED BY <2>1 DEF OneInserter
<1>8. ReversalsFit'
  <2>1. \A e \in qledger' : e.kind = "reversal" => \E debit \in qledger' : Corrects(e, debit)
    <3>1. entry.kind = "reversal" => \E debit \in qledger : Corrects(entry, debit) BY DEF InsertSound
    <3> QED BY <1>g, <3>1 DEF QuotaInv, ReversalsFit
  <2>2. ASSUME NEW debit \in qledger', debit.kind = "debit" PROVE Reversed(debit.key)' <= debit.pages
    <3>1. CASE debit = entry
      <4>1. ~Committed("debit", debit.key) BY <2>2, <3>1
      <4>2. Reversals(debit.key) = {} BY <4>1 DEF Reversals, QuotaInv, ReversalsFit, Corrects, Committed
      <4>3. Reversed(debit.key) = 0 BY <4>2, FS_EmptySet DEF Reversed, TotalPages, PageUnits
      <4>4. Reversed(debit.key)' = Reversed(debit.key) BY <1>g, <2>2, <3>1
      <4> QED BY <1>n, <3>1, <4>3, <4>4
    <3>2. CASE debit \in qledger
      <4>1. Reversed(debit.key) <= debit.pages BY <2>2, <3>2 DEF QuotaInv, ReversalsFit
      <4>2. CASE entry.kind = "reversal" /\ entry.ref = debit.key
        <5>1. PICK other \in qledger : Corrects(entry, other) /\ Reversed(entry.ref) + entry.pages <= other.pages
          BY <4>2 DEF InsertSound
        <5>2. other = debit BY <2>2, <3>2, <4>2, <5>1 DEF Corrects, QuotaInv, OneRowPerKey
        <5>3. Reversed(debit.key)' = Reversed(debit.key) + entry.pages BY <1>g, <4>2
        <5> QED BY <4>2, <5>1, <5>2, <5>3
      <4>3. CASE ~(entry.kind = "reversal" /\ entry.ref = debit.key)
        <5>1. Reversed(debit.key)' = Reversed(debit.key) BY <1>g, <4>3
        <5> QED BY <4>1, <5>1
      <4> QED BY <4>2, <4>3
    <3> QED BY <1>g, <3>1, <3>2
  <2> QED BY <2>1, <2>2 DEF ReversalsFit
<1>9. CreditsFit'
  <2>1. ASSUME NEW e \in qledger', e.kind = "credit"
        PROVE  /\ e.key \in 1..QuotaRequests /\ qrequest'[e.key].status = "approved"
               /\ e.period = qrequest'[e.key].period /\ e.pages = qrequest'[e.key].granted
               /\ e.pages <= qrequest'[e.key].pages
    <3>1. CASE e = entry BY <1>2, <1>3, <1>4, <2>1, <3>1
    <3>2. CASE e \in qledger
      <4>1. /\ e.key \in 1..QuotaRequests /\ qrequest[e.key].status = "approved"
            /\ e.period = qrequest[e.key].period /\ e.pages = qrequest[e.key].granted
            /\ e.pages <= qrequest[e.key].pages
        BY <2>1, <3>2 DEF QuotaInv, CreditsFit
      <4>2. qrequest'[e.key] = qrequest[e.key] BY <1>2, <1>4, <4>1
      <4> QED BY <4>1, <4>2
    <3> QED BY <1>g, <3>1, <3>2
  <2>2. ASSUME NEW q \in 1..QuotaRequests, qrequest'[q].status = "approved"
        PROVE  \E e \in qledger' : e.kind = "credit" /\ e.key = q
    <3>1. CASE q = r /\ entry.kind = "credit" BY <1>g, <1>2, <3>1
    <3>2. CASE qrequest'[q] = qrequest[q] BY <1>g, <2>2, <3>2 DEF QuotaInv, CreditsFit
    <3> QED BY <1>4, <3>1, <3>2
  <2> QED BY <2>1, <2>2 DEF CreditsFit
<1> QED BY <1>g, <1>5, <1>6, <1>7, <1>8, <1>9 DEF QuotaInv

LEMMA TxOpens ==
    ASSUME QuotaInv, NEW t \in QuotaTxs, NEW entry, NEW request \in 0..QuotaRequests,
           OpenTx(t, "inserted", entry, request), InsertSound(entry, request), ~Inserted(entry.kind, entry.key),
           entry.kind = "reversal" => DebitRowFree(entry.ref),
           UNCHANGED <<qmonth, qactive, qledger, qproj, qrequest, qlisted>>
    PROVE  QuotaInv'
<1> DEFINE tx == [pc |-> "inserted", entry |-> entry, request |-> request]
<1>1. tx \in TxRow BY DEF TxRow, InsertSound
<1>2. TxSound(tx) BY DEF TxSound
<1>3. qtx' = [qtx EXCEPT ![t] = tx] BY DEF OpenTx
<1>4. ASSUME NEW u \in QuotaTxs, u # t PROVE Apart(tx, qtx[u]) /\ Apart(qtx[u], tx)
  BY DEF Apart, Inserted, DebitRowFree
<1> HIDE DEF tx
<1> QED BY <1>1, <1>2, <1>3, <1>4, TxMoves

LEMMA EntriesStep ==
    ASSUME QuotaInv, NEW t \in QuotaTxs, NEW op \in QuotaPublications, NEW source \in QuotaSources,
           NEW pages \in 1..QuotaPages, ReversePages(t, op, source, pages) \/ Supplement(t, op, source, pages)
    PROVE  QuotaInv'
<1>t. qledger \subseteq EntryRow BY QuotaRows DEF QuotaInv
<1>1. PICK debit \in qledger : debit = DebitOf(op) /\ debit.kind = "debit" /\ debit.key = op
  <2>1. \E entry \in qledger : entry.kind = "debit" /\ entry.key = op
    BY DEF ReversePages, Supplement, Committed
  <2> QED BY <2>1 DEF DebitOf
<1>2. debit.period \in Months BY <1>t, <1>1 DEF EntryRow
<1>3. ASSUME NEW kind \in {"reversal", "supplement"}
      PROVE  /\ Entry(kind, source, debit.period, pages, op) \in EntryRow
             /\ Entry(kind, source, debit.period, pages, op).kind = kind
             /\ Entry(kind, source, debit.period, pages, op).key = source
             /\ Entry(kind, source, debit.period, pages, op).ref = op
             /\ Entry(kind, source, debit.period, pages, op).pages = pages
             /\ Entry(kind, source, debit.period, pages, op).period = debit.period
  BY <1>2 DEF Entry, EntryRow
<1>4. 0 \in 0..QuotaRequests BY QuotaAssumption
<1>5. CASE ReversePages(t, op, source, pages)
  <2>1. PICK entry \in EntryRow : /\ entry = Entry("reversal", source, debit.period, pages, op)
                                  /\ entry.kind = "reversal" /\ entry.key = source /\ entry.ref = op
                                  /\ entry.pages = pages /\ entry.period = debit.period
    BY <1>3
  <2>2. InsertSound(entry, 0) BY <1>1, <1>5, <2>1 DEF ReversePages, InsertSound, Corrects
  <2>3. /\ OpenTx(t, "inserted", entry, 0) /\ ~Inserted(entry.kind, entry.key) /\ DebitRowFree(entry.ref)
        /\ UNCHANGED <<qmonth, qactive, qledger, qproj, qrequest, qlisted>>
    BY <1>1, <1>5, <2>1 DEF ReversePages
  <2> QED BY <1>4, <2>2, <2>3, TxOpens
<1>6. CASE Supplement(t, op, source, pages)
  <2>1. PICK entry \in EntryRow : /\ entry = Entry("supplement", source, debit.period, pages, op)
                                  /\ entry.kind = "supplement" /\ entry.key = source
    BY <1>3
  <2>2. InsertSound(entry, 0) BY <1>1, <1>6, <2>1 DEF Supplement, InsertSound
  <2>3. /\ OpenTx(t, "inserted", entry, 0) /\ ~Inserted(entry.kind, entry.key)
        /\ UNCHANGED <<qmonth, qactive, qledger, qproj, qrequest, qlisted>>
    BY <1>1, <1>6, <2>1 DEF Supplement
  <2> QED BY <1>4, <2>1, <2>2, <2>3, TxOpens
<1> QED BY <1>5, <1>6

LEMMA ApproveStep ==
    ASSUME QuotaInv, NEW t \in QuotaTxs, NEW r \in 1..QuotaRequests, NEW pages \in 1..QuotaPages,
           Approve(t, r, pages)
    PROVE  QuotaInv'
<1>t. qrequest \in [1..QuotaRequests -> RequestRow] /\ qmonth \in Months BY QuotaRows DEF QuotaInv
<1>1. qrequest[r].period = qmonth BY DEF Approve, NotApprovable
<1>2. PICK entry \in EntryRow : /\ entry = Entry("credit", r, qrequest[r].period, pages, 0)
                                /\ entry.kind = "credit" /\ entry.key = r
                                /\ entry.pages = pages /\ entry.period = qrequest[r].period
  <2>1. Entry("credit", r, qrequest[r].period, pages, 0) \in EntryRow BY <1>t, <1>1 DEF Entry, EntryRow
  <2> QED BY <2>1 DEF Entry
<1>3. InsertSound(entry, r)
  <2>1. ~Committed("credit", r) BY DEF Approve, PendingRequest, Committed, QuotaInv, CreditsFit
  <2> QED BY <1>2, <2>1 DEF Approve, InsertSound
<1>4. ~Inserted("credit", r) BY DEF Approve, RequestRowFree, Inserted, QuotaInv, TxSound, InsertSound
<1>5. /\ OpenTx(t, "inserted", entry, r)
      /\ UNCHANGED <<qmonth, qactive, qledger, qproj, qrequest, qlisted>>
  BY <1>2 DEF Approve
<1>6. r \in 0..QuotaRequests BY QuotaAssumption
<1> QED BY <1>2, <1>3, <1>4, <1>5, <1>6, TxOpens

LEMMA TransactStep ==
    ASSUME QuotaInv, NEW t \in QuotaTxs, Transact(t)
    PROVE  QuotaInv'
<1>t. qtx \in [QuotaTxs -> TxRow] /\ qmonth \in Months BY QuotaRows DEF QuotaInv
<1>s. qtx[t] \in TxRow /\ TxSound(qtx[t]) BY <1>t DEF QuotaInv
<1>0. 0 \in 0..QuotaRequests BY QuotaAssumption
<1>n. ASSUME EndTx(t), UNCHANGED <<qmonth, qactive, qledger, qproj, qrequest, qlisted>> PROVE QuotaInv'
  <2>1. qtx' = [qtx EXCEPT ![t] = NoTx] BY <1>n DEF EndTx
  <2>2. \A u \in QuotaTxs : Apart(NoTx, qtx[u]) /\ Apart(qtx[u], NoTx) BY NoTxSound DEF Apart
  <2> QED BY <1>n, <2>1, <2>2, NoTxSound, TxMoves
<1>o. ASSUME NEW pc \in {"debit", "rebuild"}, NEW entry, OpenTx(t, pc, entry, 0),
             pc = "debit" => entry \in EntryRow /\ entry.kind = "debit",
             pc = "rebuild" => \E period \in Months : entry = Entry("none", 0, period, 0, 0),
             UNCHANGED <<qmonth, qactive, qledger, qproj, qrequest, qlisted>>
      PROVE  QuotaInv'
  <2> DEFINE tx == [pc |-> pc, entry |-> entry, request |-> 0]
  <2>1. tx \in TxRow BY <1>0, <1>o DEF TxRow
  <2>2. TxSound(tx) BY <1>o DEF TxSound, Entry
  <2>3. qtx' = [qtx EXCEPT ![t] = tx] BY <1>o DEF OpenTx
  <2>4. \A u \in QuotaTxs : Apart(tx, qtx[u]) /\ Apart(qtx[u], tx) BY DEF Apart
  <2> HIDE DEF tx
  <2> QED BY <1>o, <2>1, <2>2, <2>3, <2>4, TxMoves
<1>1. CASE CommitDebit(t)
  <2>1. /\ qtx[t].pc = "debit" /\ EndTx(t) /\ UNCHANGED <<qmonth, qactive, qrequest, qlisted>>
        /\ IF Committed("debit", qtx[t].entry.key) THEN UNCHANGED <<qledger, qproj>> ELSE Apply(qtx[t].entry)
    BY <1>1 DEF CommitDebit
  <2>2. CASE Committed("debit", qtx[t].entry.key) BY <1>n, <2>1, <2>2
  <2>3. CASE ~Committed("debit", qtx[t].entry.key)
    <3>1. qtx[t].entry \in EntryRow /\ qtx[t].entry.kind = "debit" /\ qtx[t].request = 0
      BY <1>s, <2>1 DEF TxSound
    <3> QED BY <2>1, <2>3, <3>1, EntryCommits
  <2> QED BY <2>2, <2>3
<1>2. CASE CommitInserted(t)
  <2>1. /\ qtx[t].pc = "inserted" /\ EndTx(t) /\ UNCHANGED <<qmonth, qactive, qlisted>>
        /\ Apply(qtx[t].entry)
        /\ qrequest' = IF qtx[t].request = 0 THEN qrequest
                       ELSE [qrequest EXCEPT ![qtx[t].request].status = "approved",
                                             ![qtx[t].request].granted = qtx[t].entry.pages]
    BY <1>2 DEF CommitInserted
  <2>2. InsertSound(qtx[t].entry, qtx[t].request) BY <1>s, <2>1 DEF TxSound
  <2>3. qtx[t].entry \in EntryRow /\ ~Committed(qtx[t].entry.kind, qtx[t].entry.key)
    BY <2>2 DEF InsertSound
  <2> QED BY <2>1, <2>2, <2>3, EntryCommits
<1>3. CASE CommitRebuild(t)
  <2> DEFINE period == qtx[t].entry.period
             used == UsedPages(period)
  <2>1. period \in Months BY <1>3, <1>s DEF CommitRebuild, TxSound
  <2>2. Booked(period, "reversal") <= Booked(period, "debit") BY <2>1, EnoughDebits
  <2>3. ~(used < 0)
    <3>1. /\ Booked(period, "reversal") \in Nat /\ Booked(period, "debit") \in Nat
          /\ Booked(period, "supplement") \in Nat
      BY BookedTyped
    <3> QED BY <2>2, <3>1 DEF UsedPages
  <2>4. qproj[period] = [used |-> used, extra |-> Booked(period, "credit")]
    BY <2>1 DEF QuotaInv, ProjectionFits
  <2>5. qproj' = [qproj EXCEPT ![period] = [used  |-> IF used < 0 THEN 0 ELSE used,
                                            extra |-> Booked(period, "credit")]]
    BY <1>3 DEF CommitRebuild
  <2>6. qproj \in [Months -> [used : Int, extra : Int]] BY QuotaRows DEF QuotaInv
  <2> HIDE DEF period, used
  <2>7. qproj' = qproj BY <2>1, <2>3, <2>4, <2>5, <2>6
  <2> QED BY <1>3, <1>n, <2>7 DEF CommitRebuild
<1>4. CASE RollbackTx(t) BY <1>4, <1>n DEF RollbackTx
<1>5. ASSUME NEW op \in QuotaPublications, OpenDebit(t, op) PROVE QuotaInv'
  <2>1. PICK entry \in EntryRow : entry = Entry("debit", op, qmonth, QuotaPages, 0) /\ entry.kind = "debit"
    <3>1. QuotaPages \in 1..QuotaPages BY QuotaAssumption
    <3>2. Entry("debit", op, qmonth, QuotaPages, 0) \in EntryRow BY <1>t, <3>1 DEF Entry, EntryRow
    <3> QED BY <3>2 DEF Entry
  <2> QED BY <1>5, <1>o, <2>1 DEF OpenDebit
<1>6. ASSUME NEW period \in Months, OpenRebuild(t, period) PROVE QuotaInv'
  <2>1. PICK entry : entry = Entry("none", 0, period, 0, 0) OBVIOUS
  <2> QED BY <1>6, <1>o, <2>1 DEF OpenRebuild
<1> QED BY <1>1, <1>2, <1>3, <1>4, <1>5, <1>6, EntriesStep, ApproveStep DEF Transact

LEMMA RequestsStep ==
    ASSUME QuotaInv,
           \/ \E r \in 1..QuotaRequests :
                 CancelOnReview(r) \/ Reject(r) \/ \E pages \in 1..QuotaPages : CreateRequest(r, pages)
           \/ Freeze \/ Unfreeze \/ RevokeAll \/ Maintain \/ NextMonth
    PROVE  QuotaInv'
<1>t. /\ qmonth \in Months /\ qactive \in BOOLEAN /\ qrequest \in [1..QuotaRequests -> RequestRow]
      /\ qlisted \subseteq [request : 1..QuotaRequests,
                            reason : {"applicant_inactive", "period_closed", "revoked"}]
  BY QuotaRows DEF QuotaInv
<1>c. ASSUME NEW r \in 1..QuotaRequests, NEW reason \in {"applicant_inactive", "period_closed", "revoked"}
      PROVE  Cancelled(r, reason) \in RequestRow /\ Cancelled(r, reason).status = "cancelled"
  <2>1. qrequest[r] \in RequestRow BY <1>t
  <2> QED BY <2>1 DEF Cancelled, RequestRow
<1>o. ASSUME NEW r \in 1..QuotaRequests, NEW row \in RequestRow, qrequest' = [qrequest EXCEPT ![r] = row],
             qrequest[r].status # "approved", row.status # "approved", RequestRowFree(r),
             UNCHANGED <<qmonth, qactive, qledger, qproj, qtx>>, qlisted' \subseteq qlisted
      PROVE  QuotaInv'
  <2>1. qrequest' \in [1..QuotaRequests -> RequestRow] BY <1>t, <1>o
  <2>2. \A q \in 1..QuotaRequests : qrequest'[q] = qrequest[q] \/ q = r BY <1>t, <1>o
  <2>3. qrequest'[r] = row BY <1>t, <1>o
  <2>4. \A q \in 1..QuotaRequests :
           \/ qrequest'[q] = qrequest[q]
           \/ /\ qrequest[q].status # "approved" /\ qrequest'[q].status # "approved"
              /\ \A u \in QuotaTxs : qtx[u].request # q
    BY <1>o, <2>2, <2>3 DEF RequestRowFree
  <2> QED BY <1>t, <1>o, <2>1, <2>4, RequestsMove
<1>s. ASSUME UNCHANGED <<qledger, qproj, qtx, qrequest>>, qmonth' \in Months, qactive' \in BOOLEAN,
             qlisted' \subseteq [request : 1..QuotaRequests,
                                 reason : {"applicant_inactive", "period_closed", "revoked"}]
      PROVE  QuotaInv'
  BY <1>t, <1>s, RequestsMove
<1>1. ASSUME NEW r \in 1..QuotaRequests, CancelOnReview(r) PROVE QuotaInv'
  <2>1. NotApprovable(r) \in {"applicant_inactive", "period_closed"} BY <1>1 DEF CancelOnReview, NotApprovable
  <2>2. Cancelled(r, NotApprovable(r)) \in RequestRow /\ Cancelled(r, NotApprovable(r)).status = "cancelled"
    BY <1>c, <2>1
  <2> QED BY <1>1, <1>o, <2>2 DEF CancelOnReview, PendingRequest
<1>2. ASSUME NEW r \in 1..QuotaRequests, Reject(r) PROVE QuotaInv'
  <2> DEFINE row == [qrequest[r] EXCEPT !.status = "rejected"]
  <2>1. row \in RequestRow /\ row.status = "rejected"
    <3>1. qrequest[r] \in RequestRow BY <1>t
    <3> QED BY <3>1 DEF RequestRow
  <2>2. qrequest' = [qrequest EXCEPT ![r] = row] BY <1>2 DEF Reject
  <2> HIDE DEF row
  <2> QED BY <1>2, <1>o, <2>1, <2>2 DEF Reject, PendingRequest
<1>3. ASSUME NEW r \in 1..QuotaRequests, NEW pages \in 1..QuotaPages, CreateRequest(r, pages) PROVE QuotaInv'
  <2> DEFINE row == [NoQuotaRequest EXCEPT !.status = "pending", !.period = qmonth, !.pages = pages]
  <2>1. row \in RequestRow /\ row.status = "pending"
    <3>1. pages \in 0..QuotaPages /\ 0 \in 0..QuotaPages BY QuotaAssumption
    <3> QED BY <1>t, <3>1 DEF NoQuotaRequest, RequestRow
  <2>2. qrequest' = [qrequest EXCEPT ![r] = row] /\ qrequest[r].status = "none" BY <1>3 DEF CreateRequest
  <2> HIDE DEF row
  <2>3. RequestRowFree(r)
    <3>1. ASSUME NEW u \in QuotaTxs, qtx[u].request = r PROVE FALSE
      <4>1. r # 0 BY QuotaAssumption
      <4>2. qtx[u].pc = "inserted" /\ InsertSound(qtx[u].entry, r) BY <3>1, <4>1 DEF QuotaInv, TxSound
      <4>3. qrequest[r].status = "pending" BY <4>1, <4>2 DEF InsertSound, PendingRequest
      <4> QED BY <2>2, <4>3
    <3> QED BY <3>1 DEF RequestRowFree
  <2> QED BY <1>3, <1>o, <2>1, <2>2, <2>3 DEF CreateRequest
<1>4. CASE Freeze
  <2>1. qrequest' = [r \in 1..QuotaRequests |->
                       IF PendingRequest(r) THEN Cancelled(r, "applicant_inactive") ELSE qrequest[r]]
    BY <1>t, <1>4 DEF Freeze
  <2>2. qrequest' \in [1..QuotaRequests -> RequestRow] BY <1>c, <1>t, <2>1
  <2>3. \A q \in 1..QuotaRequests :
           \/ qrequest'[q] = qrequest[q]
           \/ /\ qrequest[q].status # "approved" /\ qrequest'[q].status # "approved"
              /\ \A u \in QuotaTxs : qtx[u].request # q
    BY <1>c, <1>4, <2>1 DEF Freeze, PendingRequest, RequestRowFree
  <2> QED BY <1>t, <1>4, <2>2, <2>3, RequestsMove DEF Freeze
<1>5. CASE Unfreeze BY <1>t, <1>s, <1>5 DEF Unfreeze
<1>6. CASE RevokeAll BY <1>t, <1>s, <1>6 DEF RevokeAll
<1>7. CASE ListCandidates
  <2>1. Candidates \subseteq [request : 1..QuotaRequests,
                              reason : {"applicant_inactive", "period_closed", "revoked"}]
    BY DEF Candidates
  <2> QED BY <1>t, <1>s, <1>7, <2>1 DEF ListCandidates
<1>8. ASSUME NEW candidate \in qlisted, CancelListed(candidate) PROVE QuotaInv'
  <2>1. /\ candidate.request \in 1..QuotaRequests
        /\ candidate.reason \in {"applicant_inactive", "period_closed", "revoked"}
    BY <1>t
  <2>2. qlisted' \subseteq qlisted /\ UNCHANGED <<qmonth, qactive, qledger, qproj, qtx>>
    BY <1>8 DEF CancelListed
  <2>3. CASE PendingRequest(candidate.request)
    <3>1. qrequest' = [qrequest EXCEPT ![candidate.request] = Cancelled(candidate.request, candidate.reason)]
      BY <1>8, <2>3 DEF CancelListed
    <3>2. qrequest[candidate.request].status = "pending" BY <2>3 DEF PendingRequest
    <3>3. RequestRowFree(candidate.request) BY <1>8 DEF CancelListed
    <3> QED BY <1>c, <1>o, <2>1, <2>2, <3>1, <3>2, <3>3
  <2>4. CASE ~PendingRequest(candidate.request)
    <3>1. qrequest' = qrequest BY <1>8, <2>4 DEF CancelListed
    <3> QED BY <1>t, <1>s, <2>2, <3>1
  <2> QED BY <2>3, <2>4
<1>9. CASE NextMonth
  <2>1. qmonth' \in Months BY <1>t, <1>9, QuotaAssumption DEF NextMonth, Months
  <2> QED BY <1>t, <1>s, <1>9, <2>1 DEF NextMonth
<1> QED BY <1>1, <1>2, <1>3, <1>4, <1>5, <1>6, <1>7, <1>8, <1>9 DEF Maintain

LEMMA QuotaStep == QuotaInv /\ [QuotaNext]_quotaVars => QuotaInv'
<1> SUFFICES ASSUME QuotaInv, [QuotaNext]_quotaVars PROVE QuotaInv' OBVIOUS
<1>1. CASE UNCHANGED quotaVars
  <2>1. UNCHANGED <<qmonth, qactive, qledger, qproj, qtx, qrequest, qlisted>> BY <1>1 DEF quotaVars
  <2>2. /\ qmonth \in Months /\ qactive \in BOOLEAN /\ qrequest \in [1..QuotaRequests -> RequestRow]
        /\ qlisted \subseteq [request : 1..QuotaRequests,
                              reason : {"applicant_inactive", "period_closed", "revoked"}]
    BY QuotaRows DEF QuotaInv
  <2> QED BY <2>1, <2>2, RequestsMove
<1>2. CASE QuotaNext BY <1>2, TransactStep, RequestsStep DEF QuotaNext
<1> QED BY <1>1, <1>2

\* What the invariant gives
LEMMA QuotaPromise == QuotaInv => QuotaSafe
<1> SUFFICES ASSUME QuotaInv PROVE QuotaSafe OBVIOUS
<1>1. ASSUME NEW op \in QuotaPublications, Committed("debit", op) PROVE Reversed(op) <= DebitOf(op).pages
  <2>1. \E debit \in qledger : debit.kind = "debit" /\ debit.key = op BY <1>1 DEF Committed
  <2>2. DebitOf(op) \in qledger /\ DebitOf(op).kind = "debit" /\ DebitOf(op).key = op BY <2>1 DEF DebitOf
  <2> QED BY <2>2 DEF QuotaInv, ReversalsFit
<1>2. QuotaBooks BY <1>1 DEF QuotaBooks, QuotaInv, ProjectionFits, OneRowPerKey
<1>3. ASSUME NEW r \in 1..QuotaRequests,
             NEW credits, credits = {entry \in qledger : entry.kind = "credit" /\ entry.key = r}
      PROVE  IF qrequest[r].status = "approved"
             THEN \E credit \in credits : /\ credits = {credit}
                                          /\ credit.period = qrequest[r].period
                                          /\ credit.pages = qrequest[r].granted
                                          /\ credit.pages <= qrequest[r].pages
             ELSE credits = {}
  <2>1. CASE qrequest[r].status = "approved"
    <3>1. PICK credit \in qledger : credit.kind = "credit" /\ credit.key = r
      BY <2>1 DEF QuotaInv, CreditsFit
    <3>2. credits = {credit} BY <1>3, <3>1 DEF QuotaInv, OneRowPerKey
    <3> QED BY <2>1, <3>1, <3>2 DEF QuotaInv, CreditsFit
  <2>2. CASE qrequest[r].status # "approved" BY <1>3, <2>2 DEF QuotaInv, CreditsFit
  <2> QED BY <2>1, <2>2
<1>4. QuotaApprovals BY <1>3 DEF QuotaApprovals
<1> QED BY <1>2, <1>4 DEF QuotaSafe, QuotaInv

\* The projection is the sum of the ledger month by month, reversals stay within
\* their debits and a request is approved with its one credit, whatever debits,
\* corrections, approvals and rebuilds overlap (append_debit, append_reversal,
\* approve, rebuild_projection).
THEOREM Quotas == QuotaSpec => []QuotaSafe
BY InitQuota, QuotaStep, QuotaPromise, PTL DEF QuotaSpec

-----------------------------------------------------------------------------
(* Local usage meters *)

MeterRow == [status : {"none", "running"} \cup Terminal, sequence : Nat, reading : Readings, lapsed : BOOLEAN]

LEMMA InitMetering == MeteringInit => MeteringSafe
<1> SUFFICES ASSUME MeteringInit PROVE MeteringSafe OBVIOUS
<1>1. 0 \in Readings /\ None \notin Readings /\ 0 \in Nat
  BY MeteringAssumption DEF Readings, None
<1>2. NoMeter \in MeterRow BY <1>1 DEF NoMeter, MeterRow
<1>3. MeteringTypeOK BY <1>1, <1>2 DEF MeteringInit, MeteringTypeOK, MeterRow
<1>4. EventMatches BY DEF MeteringInit, EventMatches, NoMeter, Terminal
<1>5. NothingReportedIsLost BY DEF MeteringInit, NothingReportedIsLost, NoMeter
<1> QED BY <1>3, <1>4, <1>5 DEF MeteringSafe

\* the row of one meter is replaced, its event and its projection stand
LEMMA MeterWritten ==
    ASSUME MeteringSafe, NEW s \in Scopes, NEW row \in MeterRow, NEW told \in Readings,
           meter' = [meter EXCEPT ![s] = row], reported' = [reported EXCEPT ![s] = told],
           row.status \in Terminal <=> meter[s].status \in Terminal,
           usageEvent[s] = None \/ row.reading = meter[s].reading,
           row.reading >= told, usageEvent[s] # None => told = reported[s],
           UNCHANGED <<usageEvent, projected>>
    PROVE  /\ meter' \in [Scopes -> MeterRow] /\ reported' \in [Scopes -> Readings]
           /\ EventMatches' /\ NothingReportedIsLost'
<1>t. /\ meter \in [Scopes -> MeterRow] /\ reported \in [Scopes -> Readings]
  BY DEF MeteringSafe, MeteringTypeOK, MeterRow
<1>1. meter' \in [Scopes -> MeterRow] /\ reported' \in [Scopes -> Readings] BY <1>t
<1>2. ASSUME NEW q \in Scopes
      PROVE  /\ meter'[q].status \in Terminal <=> usageEvent'[q] # None
             /\ projected'[q] = usageEvent'[q]
             /\ usageEvent'[q] # None => usageEvent'[q] = meter'[q].reading
             /\ meter'[q].reading >= reported'[q]
             /\ usageEvent'[q] # None => usageEvent'[q] >= reported'[q]
  <2>1. CASE q = s BY <1>t, <2>1 DEF MeteringSafe, EventMatches, NothingReportedIsLost
  <2>2. CASE q # s BY <1>t, <2>2 DEF MeteringSafe, EventMatches, NothingReportedIsLost
  <2> QED BY <2>1, <2>2
<1> QED BY <1>1, <1>2 DEF EventMatches, NothingReportedIsLost

\* a meter ends with its event and its projection in one transaction
LEMMA Finalized ==
    ASSUME MeteringSafe, NEW s \in Scopes, NEW reading \in Readings, NEW status \in Terminal,
           Finalize(s, reading, status)
    PROVE  /\ meter' \in [Scopes -> MeterRow] /\ reported' \in [Scopes -> Readings]
           /\ usageEvent' \in [Scopes -> Readings \cup {None}]
           /\ projected' \in [Scopes -> Readings \cup {None}]
           /\ EventMatches' /\ NothingReportedIsLost'
<1>t. /\ meter \in [Scopes -> MeterRow] /\ reported \in [Scopes -> Readings]
      /\ usageEvent \in [Scopes -> Readings \cup {None}] /\ projected \in [Scopes -> Readings \cup {None}]
  BY DEF MeteringSafe, MeteringTypeOK, MeterRow
<1> DEFINE row == [meter[s] EXCEPT !.status = status, !.sequence = @ + 1, !.reading = reading]
<1>1. meter' = [meter EXCEPT ![s] = row] BY <1>t DEF Finalize
<1>2. row \in MeterRow /\ row.status = status /\ row.reading = reading
  <2>1. meter[s] \in MeterRow BY <1>t
  <2>2. meter[s].sequence + 1 \in Nat BY <2>1 DEF MeterRow
  <2> QED BY <2>1, <2>2 DEF MeterRow
<1>3. /\ usageEvent' = [usageEvent EXCEPT ![s] = reading]
      /\ projected' = [projected EXCEPT ![s] = reading]
      /\ reported' = reported /\ reading >= meter[s].reading
  BY DEF Finalize, Monotonic
<1> HIDE DEF row
<1>4. /\ meter' \in [Scopes -> MeterRow] /\ reported' \in [Scopes -> Readings]
      /\ usageEvent' \in [Scopes -> Readings \cup {None}]
      /\ projected' \in [Scopes -> Readings \cup {None}]
  BY <1>t, <1>1, <1>2, <1>3
<1>5. reading # None /\ reading \in Nat /\ meter[s].reading \in Nat /\ reported[s] \in Nat
  BY <1>t, MeteringAssumption DEF Readings, None, MeterRow
<1>6. reading >= reported[s] BY <1>3, <1>5 DEF MeteringSafe, NothingReportedIsLost
<1>7. ASSUME NEW q \in Scopes
      PROVE  /\ meter'[q].status \in Terminal <=> usageEvent'[q] # None
             /\ projected'[q] = usageEvent'[q]
             /\ usageEvent'[q] # None => usageEvent'[q] = meter'[q].reading
             /\ meter'[q].reading >= reported'[q]
             /\ usageEvent'[q] # None => usageEvent'[q] >= reported'[q]
  <2>1. CASE q = s BY <1>t, <1>1, <1>2, <1>3, <1>5, <1>6, <2>1
  <2>2. CASE q # s
    BY <1>t, <1>1, <1>3, <2>2 DEF MeteringSafe, EventMatches, NothingReportedIsLost
  <2> QED BY <2>1, <2>2
<1> QED BY <1>4, <1>7 DEF EventMatches, NothingReportedIsLost

LEMMA MeteringStep == MeteringSafe /\ [MeteringNext]_meteringVars => MeteringSafe'
<1> SUFFICES ASSUME MeteringSafe, [MeteringNext]_meteringVars PROVE MeteringSafe' OBVIOUS
<1>t. /\ meter \in [Scopes -> MeterRow] /\ running \subseteq Scopes /\ reported \in [Scopes -> Readings]
      /\ usageEvent \in [Scopes -> Readings \cup {None}] /\ projected \in [Scopes -> Readings \cup {None}]
      /\ found \in [Ticks -> SUBSET [scope : Scopes, reading : Readings]]
  BY DEF MeteringSafe, MeteringTypeOK, MeterRow
<1>p. /\ meter' \in [Scopes -> MeterRow] /\ running' \subseteq Scopes /\ reported' \in [Scopes -> Readings]
      /\ usageEvent' \in [Scopes -> Readings \cup {None}] /\ projected' \in [Scopes -> Readings \cup {None}]
      /\ found' \in [Ticks -> SUBSET [scope : Scopes, reading : Readings]]
      /\ EventMatches' /\ NothingReportedIsLost'
      => MeteringSafe'
  BY DEF MeteringSafe, MeteringTypeOK, MeterRow
<1>n. \A s \in Scopes : meter[s].reading \in Nat /\ reported[s] \in Nat
  BY <1>t, MeteringAssumption DEF Readings, MeterRow
<1>1. CASE UNCHANGED <<meter, reported, usageEvent, projected>>
           /\ running' \subseteq Scopes /\ found' \in [Ticks -> SUBSET [scope : Scopes, reading : Readings]]
  BY <1>t, <1>p, <1>1 DEF MeteringSafe, EventMatches, NothingReportedIsLost
<1>2. CASE UNCHANGED meteringVars BY <1>t, <1>1, <1>2 DEF meteringVars
<1>3. ASSUME NEW s \in Scopes, StartMeter(s) PROVE MeteringSafe'
  <2>1. CASE meter[s].status = "none"
    <3> DEFINE row == [meter[s] EXCEPT !.status = "running"]
    <3>1. row \in MeterRow /\ row.reading = meter[s].reading /\ row.status = "running"
      BY <1>t DEF MeterRow
    <3>2. meter' = [meter EXCEPT ![s] = row] BY <1>3, <2>1 DEF StartMeter
    <3> HIDE DEF row
    <3>3. reported' = [reported EXCEPT ![s] = reported[s]] /\ reported[s] \in Readings
      BY <1>t, <1>3 DEF StartMeter
    <3>4. row.status \notin Terminal /\ meter[s].status \notin Terminal BY <2>1, <3>1 DEF Terminal
    <3>5. row.reading >= reported[s] BY <3>1 DEF MeteringSafe, NothingReportedIsLost
    <3>6. UNCHANGED <<usageEvent, projected, found>> /\ running' \subseteq Scopes
      BY <1>t, <1>3 DEF StartMeter
    <3>7. /\ meter' \in [Scopes -> MeterRow] /\ reported' \in [Scopes -> Readings]
          /\ EventMatches' /\ NothingReportedIsLost'
      BY <3>1, <3>2, <3>3, <3>4, <3>5, <3>6, MeterWritten
    <3> QED BY <1>t, <1>p, <3>6, <3>7
  <2>2. CASE meter[s].status # "none" BY <1>t, <1>1, <1>3, <2>2 DEF StartMeter
  <2> QED BY <2>1, <2>2
<1>4. ASSUME NEW s \in Scopes, CrashExecution(s) PROVE MeteringSafe'
  BY <1>t, <1>1, <1>4 DEF CrashExecution
<1>5. ASSUME NEW s \in Scopes, MeterLapses(s) PROVE MeteringSafe'
  <2> DEFINE row == [meter[s] EXCEPT !.lapsed = TRUE]
  <2>1. row \in MeterRow /\ row.reading = meter[s].reading /\ row.status = meter[s].status
    BY <1>t DEF MeterRow
  <2>2. meter' = [meter EXCEPT ![s] = row] BY <1>5 DEF MeterLapses
  <2> HIDE DEF row
  <2>3. reported' = [reported EXCEPT ![s] = reported[s]] /\ reported[s] \in Readings
    BY <1>t, <1>5 DEF MeterLapses
  <2>4. row.reading >= reported[s] BY <2>1 DEF MeteringSafe, NothingReportedIsLost
  <2>5. UNCHANGED <<usageEvent, projected, found, running>> BY <1>5 DEF MeterLapses
  <2>6. /\ meter' \in [Scopes -> MeterRow] /\ reported' \in [Scopes -> Readings]
        /\ EventMatches' /\ NothingReportedIsLost'
    BY <2>1, <2>2, <2>3, <2>4, <2>5, MeterWritten
  <2> QED BY <1>t, <1>p, <2>5, <2>6
<1>6. ASSUME NEW s \in Scopes, NEW v \in Readings, Checkpoint(s, v) PROVE MeteringSafe'
  <2> DEFINE row == [meter[s] EXCEPT !.sequence = @ + 1, !.reading = v]
  <2>1. row \in MeterRow /\ row.reading = v /\ row.status = meter[s].status
    <3>1. meter[s] \in MeterRow BY <1>t
    <3>2. meter[s].sequence + 1 \in Nat BY <3>1 DEF MeterRow
    <3> QED BY <3>1, <3>2 DEF MeterRow
  <2>2. meter' = [meter EXCEPT ![s] = row] BY <1>t, <1>6 DEF Checkpoint
  <2> HIDE DEF row
  <2>3. reported' = [reported EXCEPT ![s] = v] BY <1>6 DEF Checkpoint
  <2>4. v \in Nat BY MeteringAssumption DEF Readings
  <2>5. usageEvent[s] = None
    BY <1>6 DEF Checkpoint, MeteringSafe, EventMatches, Terminal
  <2>6. UNCHANGED <<usageEvent, projected, found, running>> BY <1>6 DEF Checkpoint
  <2>7. row.reading >= v BY <2>1, <2>4
  <2>8. /\ meter' \in [Scopes -> MeterRow] /\ reported' \in [Scopes -> Readings]
        /\ EventMatches' /\ NothingReportedIsLost'
    BY <2>1, <2>2, <2>3, <2>5, <2>6, <2>7, MeterWritten
  <2> QED BY <1>t, <1>p, <2>6, <2>8
<1>7. ASSUME NEW s \in Scopes, NEW v \in Readings, FinishExecution(s, v) PROVE MeteringSafe'
  <2>1. running' \subseteq Scopes /\ found' = found BY <1>t, <1>7 DEF FinishExecution
  <2>2. CASE Finalize(s, v, "completed")
    <3>1. "completed" \in Terminal BY DEF Terminal
    <3> QED BY <1>t, <1>p, <2>1, <2>2, <3>1, Finalized
  <2>3. CASE UNCHANGED <<meter, usageEvent, projected, reported>> BY <1>t, <1>1, <2>1, <2>3
  <2> QED BY <1>7, <2>2, <2>3 DEF FinishExecution
<1>8. ASSUME NEW t \in Ticks, FindExpired(t) PROVE MeteringSafe'
  <2> DEFINE lapsing == {[scope |-> s, reading |-> meter[s].reading] : s \in ExpiredMeters}
  <2>1. lapsing \in SUBSET [scope : Scopes, reading : Readings] BY <1>t DEF ExpiredMeters, MeterRow
  <2>2. found' = [found EXCEPT ![t] = lapsing] BY <1>8 DEF FindExpired
  <2> HIDE DEF lapsing
  <2>3. found' \in [Ticks -> SUBSET [scope : Scopes, reading : Readings]] BY <1>t, <2>1, <2>2
  <2> QED BY <1>t, <1>1, <1>8, <2>3 DEF FindExpired
<1>9. ASSUME NEW t \in Ticks, RecoverRow(t) PROVE MeteringSafe'
  <2>1. PICK r \in found[t] : AbandonRow(t, r) \/ SkipRow(t, r) \/ TickFails(t, r)
    BY <1>9 DEF RecoverRow
  <2>2. found[t] \in SUBSET [scope : Scopes, reading : Readings] BY <1>t
  <2>3. r.scope \in Scopes /\ r.reading \in Readings BY <2>2
  <2>4. found' \in [Ticks -> SUBSET [scope : Scopes, reading : Readings]] /\ running' = running
    <3>1. found' = [found EXCEPT ![t] = @ \ {r}] \/ found' = [found EXCEPT ![t] = {}]
      BY <2>1 DEF AbandonRow, SkipRow, TickFails
    <3> QED BY <1>t, <2>1, <2>2, <3>1 DEF AbandonRow, SkipRow, TickFails
  <2>5. CASE AbandonRow(t, r)
    <3>1. "abandoned" \in Terminal BY DEF Terminal
    <3>2. Finalize(r.scope, r.reading, "abandoned") BY <2>5 DEF AbandonRow
    <3> QED BY <1>t, <1>p, <2>3, <2>4, <3>1, <3>2, Finalized
  <2>6. CASE SkipRow(t, r) \/ TickFails(t, r) BY <1>t, <1>1, <2>4, <2>6 DEF SkipRow, TickFails
  <2> QED BY <2>1, <2>5, <2>6
<1>10. ASSUME NEW t \in Ticks, CrashTick(t) PROVE MeteringSafe'
  <2>1. found' \in [Ticks -> SUBSET [scope : Scopes, reading : Readings]] BY <1>t, <1>10 DEF CrashTick
  <2> QED BY <1>t, <1>1, <1>10, <2>1 DEF CrashTick
<1> QED BY <1>2, <1>3, <1>4, <1>5, <1>6, <1>7, <1>8, <1>9, <1>10 DEF MeteringNext

\* A meter ends in one usage event with the figures of its row, and no report an
\* execution was told is stored is lost, whatever ticks and executions overlap
\* (report_checkpoint, finalize, abandon_expired).
THEOREM Metered == MeteringSpec => []MeteringSafe
BY InitMetering, MeteringStep, PTL DEF MeteringSpec

-----------------------------------------------------------------------------
(* The parts side by side *)

\* each part starts as it starts alone, and moves by its own steps or stands
LEMMA PartsStart ==
    RequestsInit => /\ DirectoryInit /\ GenInit /\ ReleaseInit /\ GraphInit
                    /\ AskingInit /\ AssemblyInit /\ EnrichmentInit /\ QuotaInit /\ MeteringInit
BY DEF RequestsInit

LEMMA PartsMove ==
    [RequestsNext]_allVars =>
        /\ [DirectoryNext]_directoryVars /\ [GenNext]_genVars
        /\ [ReleaseNext]_releaseVars /\ [GraphNext]_graphVars
        /\ [AskingNext]_requestVars /\ [AssemblyNext]_assemblyVars /\ [EnrichmentNext]_enrichmentVars
        /\ [QuotaNext]_quotaVars /\ [MeteringNext]_meteringVars
<1> SUFFICES ASSUME [RequestsNext]_allVars
             PROVE  /\ [DirectoryNext]_directoryVars /\ [GenNext]_genVars
                    /\ [ReleaseNext]_releaseVars /\ [GraphNext]_graphVars
                    /\ [AskingNext]_requestVars /\ [AssemblyNext]_assemblyVars
                    /\ [EnrichmentNext]_enrichmentVars
                    /\ [QuotaNext]_quotaVars /\ [MeteringNext]_meteringVars
  OBVIOUS
<1>1. CASE UNCHANGED allVars BY <1>1 DEF allVars
<1>2. CASE RequestsNext BY <1>2 DEF RequestsNext
<1> QED BY <1>1, <1>2

PartsInv == DirectoryInv /\ ReleaseInv /\ GenInv /\ GraphInv

\* The safety of departments, of the releases of retrieval, of the generations
\* and of the builds of the graph holds of the parts side by side, as the run
\* checks it on its instance.
THEOREM PartsSideBySide == RequestsSpec => [](DirectorySafe /\ ReleasesSafe /\ IndexKept)
<1>1. RequestsInit => PartsInv
  BY PartsStart, InitDirectory, InitGen, InitRelease, InitGraph DEF PartsInv
<1>2. PartsInv /\ [RequestsNext]_allVars => PartsInv'
  BY PartsMove, DirectoryStep, GenStep, ReleaseStep, GraphStep DEF PartsInv
<1>3. PartsInv => DirectorySafe /\ ReleasesSafe /\ IndexKept
  BY DirectoryPromise, ReleasePromise, GenPromise, GraphPromise DEF PartsInv, IndexKept
<1> QED BY <1>1, <1>2, <1>3, PTL DEF RequestsSpec

\* Switches of the index are whole and releases of the graph are current, side
\* by side.
THEOREM SwitchesSideBySide == RequestsSpec => SwitchesAreWhole
<1>1. RequestsInit => GenInv /\ GraphInv BY PartsStart, InitGen, InitGraph
<1>2. GenInv /\ GraphInv /\ [RequestsNext]_allVars =>
         /\ GenInv' /\ GraphInv'
         /\ [WholeSwitch]_genVars /\ [CurrentRelease]_graphVars
  BY PartsMove, GenStep, GraphStep, ActiveStep
<1> QED BY <1>1, <1>2, PTL DEF RequestsSpec, SwitchesAreWhole, SwitchIsWhole, ReleasesCurrent

KeptInv == AskingInv /\ AssemblyInv /\ EnrichmentInv

\* What the rows of a conversation owe each other, the bounds of an assembled
\* context, and the calls and results of an enrichment hold of the parts side by
\* side (app/chat/generation.py, app/retrieval, app/indexing/processing.py), for
\* documents whose plan of prefix units is sound.
THEOREM RequestsSideBySide == PlansAreSound /\ RequestsSpec => []RequestsKept
<1>1. RequestsInit /\ PlansAreSound => KeptInv
  BY PartsStart, InitAsking, InitAssembly, InitEnrichment DEF KeptInv
<1>2. KeptInv /\ [RequestsNext]_allVars => KeptInv'
  BY PartsMove, AskingStep, AssemblyStep, EnrichmentStep DEF KeptInv
<1>3. KeptInv => RequestsKept
  BY AskingPromise, AssemblyPromise, EnrichmentPromise DEF KeptInv, RequestsKept
<1> QED BY <1>1, <1>2, <1>3, PTL DEF RequestsSpec

\* The projection of the quota counts its ledger, and every meter keeps to its
\* one event, side by side (app/quota, app/metering).
THEOREM CountsSideBySide == RequestsSpec => []CountsKept
<1>1. RequestsInit => QuotaInv /\ MeteringSafe BY PartsStart, InitQuota, InitMetering
<1>2. QuotaInv /\ MeteringSafe /\ [RequestsNext]_allVars => QuotaInv' /\ MeteringSafe'
  BY PartsMove, QuotaStep, MeteringStep
<1>3. QuotaInv /\ MeteringSafe => CountsKept BY QuotaPromise DEF CountsKept
<1> QED BY <1>1, <1>2, <1>3, PTL DEF RequestsSpec
=================================================================================

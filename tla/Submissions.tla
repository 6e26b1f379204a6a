----------------------------- MODULE Submissions -----------------------------
(***************************************************************************)
(* Submissions to shared spaces (SubmissionService): a member hands in a   *)
(* file, a reviewer approves or rejects it, the submitter withdraws or     *)
(* deletes it, and identity changes invalidate what the submitter may no   *)
(* longer contribute.  A review holds the row's lock over several steps:   *)
(* it reads the submitter's account through another connection, copies the *)
(* private object, and only then writes.  An identity change holds the     *)
(* locks of the pending rows it found until it commits.                    *)
(*                                                                         *)
(* A repeated request is answered from its idempotency key and changes     *)
(* nothing.                                                                *)
(***************************************************************************)
EXTENDS Integers, FiniteSets

CONSTANTS
    SubmissionIds,      \* bound: submissions that are created
    Submitters,         \* accounts that submit
    SubmissionFiles,    \* a normalised name with a content hash
    CleanupLimit,       \* limit of a maintenance run
    StorageFaults       \* bound: objects lost and transactions that die

ASSUME SubmissionAssumption ==
    /\ IsFiniteSet(SubmissionIds) /\ "none" \notin SubmissionIds
    /\ CleanupLimit \in Nat \ {0}

VARIABLES
    people,     \* identity_user: lifecycle and department of the submitters
    change,     \* the identity transaction under way for each of them
    subs,       \* knowledge_submission
    review,     \* the review transaction holding each row
    published,  \* the document of an approved submission and its object
    dedup,      \* upload_dedup_claim
    notices,    \* submission events published
    storageFaults

submissionVars == <<people, change, subs, review, published, dedup, notices, storageFaults>>

SharedSpaces == {"public", "department"}
NoChange == [to |-> "none", rows |-> {}]
NoClaim == "none"
Row(status, owner, space, file, private) ==
    [status |-> status, owner |-> owner, space |-> space, file |-> file, private |-> private,
     requested |-> 0, cleaned |-> FALSE, overtook |-> FALSE, lapsed |-> FALSE]
NotSubmitted == Row("none", "none", "none", "none", FALSE)

\* _can_contribute: a member of the department, one who moved to another, one
\* whose account is being deleted
CanContribute(state, space) == \/ state = "member"
                               \/ state = "moved" /\ space = "public"
Allowed(s) == CanContribute(people[subs[s].owner], subs[s].space)

InStatus(status) == {s \in SubmissionIds : subs[s].status = status}
PendingOf(u) == {s \in InStatus("pending") : subs[s].owner = u}
Key(s) == <<subs[s].space, subs[s].file>>
ClaimOf(s) == dedup[Key(s)]
\* SELECT ... FOR UPDATE waits for the row's lock
RowUnlocked(s) == review[s] = "none" /\ \A u \in Submitters : s \notin change[u].rows
Creating == InStatus("storing")

\* The clock, as far as the requests for cleanup tell it: later than all of them
Now == 1 + Cardinality({s \in SubmissionIds : subs[s].requested # 0})

Notify(s, event) == notices' = notices \cup {[submission |-> s, event |-> event]}
CanFail == storageFaults < StorageFaults
OneFault == storageFaults' = storageFaults + 1

-----------------------------------------------------------------------------
(* The submitter *)

\* create: authorised with every department's row locked, the private object
\* stored, and the row inserted and committed by the next step
Submit(s, u, space, file) ==
    /\ subs[s].status = "none"
    /\ Creating = {}
    /\ \A other \in Submitters : change[other].to \notin {"member", "moved"}
    /\ CanContribute(people[u], space)
    /\ subs' = [subs EXCEPT ![s] = Row("storing", u, space, file, TRUE)]
    /\ UNCHANGED <<people, change, review, published, dedup, notices, storageFaults>>
SubmitCommits(s) ==
    /\ subs[s].status = "storing"
    /\ LET u == subs[s].owner IN
       subs' = [subs EXCEPT ![s].status = "pending",
                            ![s].overtook = change[u] # NoChange \/ ~Allowed(s)]
    /\ UNCHANGED <<people, change, review, published, dedup, notices, storageFaults>>
\* The process dies: the object has no row
SubmitDies(s) ==
    /\ subs[s].status = "storing" /\ CanFail /\ OneFault
    /\ subs' = [subs EXCEPT ![s].status = "lost"]
    /\ UNCHANGED <<people, change, review, published, dedup, notices>>

\* withdraw
Withdraw(s) ==
    /\ subs[s].status = "pending" /\ RowUnlocked(s)
    /\ subs' = [subs EXCEPT ![s].status = "withdrawn", ![s].requested = Now]
    /\ UNCHANGED <<people, change, review, published, dedup, notices, storageFaults>>

\* delete: the object goes before the commit, so a transaction that dies
\* leaves a row without one
Delete(s) ==
    /\ subs[s].status \in {"rejected", "withdrawn", "invalidated"} /\ RowUnlocked(s)
    /\ \/ /\ subs' = [subs EXCEPT ![s].status = "deleted", ![s].private = FALSE]
          /\ UNCHANGED storageFaults
       \/ /\ CanFail /\ OneFault
          /\ subs' = [subs EXCEPT ![s].private = FALSE]
    /\ UNCHANGED <<people, change, review, published, dedup, notices>>

-----------------------------------------------------------------------------
(* Identity: role, department and account changes *)

\* The transaction writes the account and locks the pending rows it finds (the
\* end of a deletion does not look: the request for it did)
BeginChange(u, to) ==
    /\ change[u] = NoChange
    /\ people[u] # "deleted" /\ to # people[u]
    /\ to \in {"member", "moved"} => people[u] # "pending_delete" /\ Creating = {}
    /\ to = "deleted" => people[u] = "pending_delete"
    /\ \A s \in PendingOf(u) : to = "deleted" \/ RowUnlocked(s)
    /\ change' = [change EXCEPT ![u] = [to |-> to, rows |-> IF to = "deleted" THEN {} ELSE PendingOf(u)]]
    /\ UNCHANGED <<people, subs, review, published, dedup, notices, storageFaults>>

\* invalidate_pending_for_identity, committed with the change
LapsedRows(u) == {s \in change[u].rows : ~CanContribute(change[u].to, subs[s].space)}
CommitChange(u) ==
    /\ change[u] # NoChange
    /\ people' = [people EXCEPT ![u] = change[u].to]
    /\ subs' = [s \in SubmissionIds |->
                    IF s \in LapsedRows(u)
                    THEN [subs[s] EXCEPT !.status = "invalidated", !.requested = Now] ELSE subs[s]]
    /\ notices' = notices \cup {[submission |-> s, event |-> "invalidated"] : s \in LapsedRows(u)}
    /\ change' = [change EXCEPT ![u] = NoChange]
    /\ UNCHANGED <<review, published, dedup, storageFaults>>
AbortChange(u) ==
    /\ change[u] # NoChange /\ CanFail /\ OneFault
    /\ change' = [change EXCEPT ![u] = NoChange]
    /\ UNCHANGED <<people, subs, review, published, dedup, notices>>

-----------------------------------------------------------------------------
(* The reviewer *)

Invalidate(s) ==
    /\ subs' = [subs EXCEPT ![s].status = "invalidated", ![s].requested = Now]
    /\ Notify(s, "invalidated")

\* _review_preconditions: the committed account decides; a reviewer who may no
\* longer manage the space loses the submission too
Reject(s) ==
    /\ subs[s].status = "pending" /\ RowUnlocked(s)
    /\ \/ Invalidate(s)
       \/ /\ Allowed(s)
          /\ subs' = [subs EXCEPT ![s].status = "rejected"]
          /\ Notify(s, "rejected")
    /\ UNCHANGED <<people, change, review, published, dedup, storageFaults>>

\* approve: refused while a claim exists, else the checks have passed and the
\* transaction goes on with the row locked
MayApprove(s) == subs[s].status = "pending" /\ RowUnlocked(s)
BeginApproval(s) ==
    /\ MayApprove(s)
    /\ \/ Invalidate(s) /\ UNCHANGED review
       \/ /\ Allowed(s) /\ ClaimOf(s) = NoClaim
          /\ review' = [review EXCEPT ![s] = "checked"]
          /\ UNCHANGED <<subs, notices>>
    /\ UNCHANGED <<people, change, published, dedup, storageFaults>>

\* The object's copy; without the object the submission is invalidated
CopyObject(s) ==
    /\ review[s] = "checked"
    /\ IF subs[s].private
       THEN /\ review' = [review EXCEPT ![s] = "copied"]
            /\ published' = [published EXCEPT ![s].object = TRUE]
            /\ UNCHANGED <<subs, notices>>
       ELSE /\ review' = [review EXCEPT ![s] = "none"]
            /\ Invalidate(s)
            /\ UNCHANGED published
    /\ UNCHANGED <<people, change, dedup, storageFaults>>

\* Document, version, job and claim; the insert of the claim waits for another
\* transaction's and then loses
MutantWinsClaim(s) == TRUE
WinsClaim(s) == ClaimOf(s) = NoClaim
CommitApproval(s) ==
    /\ review[s] = "copied"
    /\ IF WinsClaim(s)
       THEN /\ published' = [published EXCEPT ![s].document = TRUE]
            /\ dedup' = [dedup EXCEPT ![Key(s)] = s]
            /\ subs' = [subs EXCEPT ![s].status = "approved", ![s].requested = Now,
                                    ![s].lapsed = ~Allowed(s)]
            /\ Notify(s, "approved")
       ELSE /\ published' = [published EXCEPT ![s].object = FALSE]
            /\ UNCHANGED <<subs, dedup, notices>>
    /\ review' = [review EXCEPT ![s] = "none"]
    /\ UNCHANGED <<people, change, storageFaults>>
\* The transaction dies: the copy stays behind, the submission is pending
ApprovalDies(s) ==
    /\ review[s] # "none" /\ CanFail /\ OneFault
    /\ review' = [review EXCEPT ![s] = "none"]
    /\ UNCHANGED <<people, change, subs, published, dedup, notices>>

-----------------------------------------------------------------------------
(* Maintenance, and what happens outside *)

\* cleanup_scheduled: the rows that ended and ask for it, oldest request first,
\* their objects one by one and then one commit
Cleanable == {s \in SubmissionIds : /\ subs[s].status \in {"approved", "withdrawn", "invalidated"}
                                   /\ ~subs[s].cleaned}
IsBatch(rows) ==
    /\ Cardinality(rows) = IF Cardinality(Cleanable) < CleanupLimit
                           THEN Cardinality(Cleanable) ELSE CleanupLimit
    /\ \A s \in rows, t \in Cleanable \ rows : subs[s].requested <= subs[t].requested
Cleaned(s) == [subs[s] EXCEPT !.private = FALSE, !.cleaned = TRUE]
CleanupScheduled ==
    /\ Cleanable # {}
    /\ \E rows \in SUBSET Cleanable :
          /\ IsBatch(rows)
          /\ \/ /\ subs' = [s \in SubmissionIds |-> IF s \in rows THEN Cleaned(s) ELSE subs[s]]
                /\ UNCHANGED storageFaults
             \/ /\ CanFail /\ OneFault
                /\ \E gone \in SUBSET rows :
                      subs' = [s \in SubmissionIds |->
                                 IF s \in gone THEN [subs[s] EXCEPT !.private = FALSE] ELSE subs[s]]
    /\ UNCHANGED <<people, change, review, published, dedup, notices>>

\* The deletion of a document drops its claim and, later, its objects
DeleteDocument(s) ==
    /\ published[s].document
    /\ dedup' = [dedup EXCEPT ![Key(s)] = IF @ = s THEN NoClaim ELSE @]
    /\ published' = [published EXCEPT ![s] = [document |-> FALSE, object |-> FALSE]]
    /\ UNCHANGED <<people, change, subs, review, notices, storageFaults>>

ObjectLost(s) ==
    /\ subs[s].status = "pending" /\ subs[s].private /\ CanFail /\ OneFault
    /\ subs' = [subs EXCEPT ![s].private = FALSE]
    /\ UNCHANGED <<people, change, review, published, dedup, notices>>

SubmissionInit ==
    /\ people = [u \in Submitters |-> "member"]
    /\ change = [u \in Submitters |-> NoChange]
    /\ subs = [s \in SubmissionIds |-> NotSubmitted]
    /\ review = [s \in SubmissionIds |-> "none"]
    /\ published = [s \in SubmissionIds |-> [document |-> FALSE, object |-> FALSE]]
    /\ dedup = [key \in SharedSpaces \X SubmissionFiles |-> NoClaim]
    /\ notices = {}
    /\ storageFaults = 0

SubmissionNext ==
    \/ CleanupScheduled
    \/ \E u \in Submitters :
          \/ \E s \in SubmissionIds, space \in SharedSpaces, file \in SubmissionFiles :
                Submit(s, u, space, file)
          \/ \E to \in {"member", "moved", "pending_delete", "deleted"} : BeginChange(u, to)
          \/ CommitChange(u) \/ AbortChange(u)
    \/ \E s \in SubmissionIds :
          \/ SubmitCommits(s) \/ SubmitDies(s) \/ Withdraw(s) \/ Delete(s)
          \/ Reject(s) \/ BeginApproval(s) \/ CopyObject(s) \/ CommitApproval(s) \/ ApprovalDies(s)
          \/ DeleteDocument(s) \/ ObjectLost(s)

\* The maintenance command runs again and again
SubmissionSpec == SubmissionInit /\ [][SubmissionNext]_submissionVars /\ WF_submissionVars(CleanupScheduled)

-----------------------------------------------------------------------------
(* Properties *)

\* However approvals of equal files race each other, deletions and rollbacks,
\* a space has one document per file, the claim names it, it has its content,
\* and its submission says approved.
OneDocumentPerFile ==
    \A s \in SubmissionIds : published[s].document =>
        /\ subs[s].status = "approved" /\ published[s].object
        /\ ClaimOf(s) = s

\* Nothing is approved for a person who has lost the right, whenever the
\* identity change commits: the review and the change wait for each other on
\* the row.  Only a row inserted while the change was committing escapes.
ApprovedForMembers ==
    \A s \in SubmissionIds : subs[s].lapsed => subs[s].overtook

\* After an identity change every submission it locked that its owner may no
\* longer make is out of the reviewers' queue, with the same exception.
PendingIsAllowed ==
    \A s \in InStatus("pending") : Allowed(s) \/ subs[s].overtook

\* What a reviewer or the submitter may still open has its private object;
\* every end but a withdrawal was announced, once, as what it is.
EndsAreAnnounced ==
    \A s \in SubmissionIds :
        /\ subs[s].status \in {"pending", "rejected"} /\ storageFaults = 0 => subs[s].private
        /\ subs[s].status \in {"approved", "rejected", "invalidated"} =>
              {n.event : n \in {m \in notices : m.submission = s}} = {subs[s].status}
        /\ subs[s].status \in {"pending", "withdrawn"} => \A n \in notices : n.submission # s

SubmissionsSafe == OneDocumentPerFile /\ ApprovedForMembers /\ PendingIsAllowed /\ EndsAreAnnounced

\* The private object of a submission that has ended is removed, whatever
\* cleanup run died on the way (one the submitter can delete himself excepted:
\* a rejected one).
PrivateObjectsGo ==
    \A s \in SubmissionIds :
        []<>(subs[s].status \in {"approved", "withdrawn", "invalidated"} =>
                 ~subs[s].private /\ subs[s].cleaned)

=============================================================================

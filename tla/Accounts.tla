------------------------------- MODULE Accounts -------------------------------
(***************************************************************************)
(* The deletion of one account (IdentityAccessService, its deletion worker)*)
(* with the archive package on disk, the avatars in the object store and   *)
(* the personal documents.  Finalisation is one database transaction that  *)
(* also writes the archive's file and deletes objects: what it did outside *)
(* the database stays when the transaction is rolled back.                 *)
(***************************************************************************)
EXTENDS Integers, FiniteSets

CONSTANTS
    Avatars,        \* bound: avatars that are uploaded (object keys)
    PersonalDocs,   \* documents of the personal space
    ArchiveLosses   \* bound: how often the archive's file is lost or damaged

NoAvatar == "none"

ASSUME AccountAssumption == NoAvatar \notin Avatars /\ ArchiveLosses \in Nat

VARIABLES
    status,     \* lifecycle_status, with due once the retention period has passed
    archive,    \* the workflow's record of the package, and the file
    avatar,     \* avatar_url, or "none"
    objects,    \* avatars in the object store
    uploads,    \* replace_avatar calls between their put and their transaction
    queue,      \* identity_object_cleanup: operations that are not completed
    orphans,    \* objects whose upload crashed: nothing refers to them
    docs,       \* lifecycle of the personal documents
    finalizing, \* the finalisation's transaction is open
    swept,      \* the cleanup operations it completes when it commits
    losses

accountVars == <<status, archive, avatar, objects, uploads, queue, orphans, docs, finalizing, swept, losses>>

\* recorded: archive_completed_at_utc; file: none, the recorded one, or another;
\* whole: it holds every avatar and file the account had when it was deleted
NoArchive == [recorded |-> FALSE, file |-> "none", whole |-> FALSE]
UserLocked == finalizing
AvatarStored == avatar = NoAvatar \/ avatar \in objects

-----------------------------------------------------------------------------
(* Avatars *)

\* replace_avatar, up to the object store
PutAvatar(k) ==
    /\ k \notin objects \cup uploads \cup orphans \cup queue \cup {avatar}
    /\ status = "active"
    /\ objects' = objects \cup {k}
    /\ uploads' = uploads \cup {k}
    /\ UNCHANGED <<status, archive, avatar, queue, orphans, docs, finalizing, swept, losses>>

\* replace_avatar's transaction: the old avatar is queued for its cleanup
Queued == {avatar} \ {NoAvatar}
CommitAvatar(k) ==
    /\ k \in uploads /\ ~UserLocked
    /\ status = "active"
    /\ queue' = queue \cup Queued
    /\ avatar' = k
    /\ uploads' = uploads \ {k}
    /\ UNCHANGED <<status, archive, objects, orphans, docs, finalizing, swept, losses>>

\* _delete_or_defer_uploaded_avatar, after the account has gone or the
\* transaction failed: the object is deleted at once, or its cleanup is queued
DiscardUpload(k) ==
    /\ k \in uploads
    /\ \/ objects' = objects \ {k} /\ UNCHANGED queue
       \/ queue' = queue \cup {k} /\ UNCHANGED objects
    /\ uploads' = uploads \ {k}
    /\ UNCHANGED <<status, archive, avatar, orphans, docs, finalizing, swept, losses>>

\* The process dies in between
CrashUpload(k) ==
    /\ k \in uploads
    /\ uploads' = uploads \ {k}
    /\ orphans' = orphans \cup {k}
    /\ UNCHANGED <<status, archive, avatar, objects, queue, docs, finalizing, swept, losses>>

\* finalize_object_cleanup, under its own lease: the object goes first, and a
\* failure in between leaves the operation to be repeated
CleanObject(k) ==
    /\ k \in queue /\ ~finalizing
    /\ objects' = objects \ {k}
    /\ queue' \in {queue, queue \ {k}}
    /\ UNCHANGED <<status, archive, avatar, uploads, orphans, docs, finalizing, swept, losses>>

-----------------------------------------------------------------------------
(* The deletion *)

\* delete_managed_user, reconcile_admin_roster: the workflow starts (its other
\* half, the sessions, is in Sessions)
RequestDeletion ==
    /\ status = "active"
    /\ status' = "pending"
    /\ UNCHANGED <<archive, avatar, objects, uploads, queue, orphans, docs, finalizing, swept, losses>>

\* purge_after_at_utc passes
RetentionElapses ==
    /\ status = "pending"
    /\ status' = "due"
    /\ UNCHANGED <<archive, avatar, objects, uploads, queue, orphans, docs, finalizing, swept, losses>>

\* A document its owner deletes, and the documents' own workers that complete
\* the deletion
DeleteOwnDocument(d) ==
    /\ status = "active" /\ docs[d] = "active"
    /\ docs' = [docs EXCEPT ![d] = "pending_delete"]
    /\ UNCHANGED <<status, archive, avatar, objects, uploads, queue, orphans, finalizing, swept, losses>>
CompleteDocument(d) ==
    /\ docs[d] = "pending_delete"
    /\ docs' = [docs EXCEPT ![d] = "deleted"]
    /\ UNCHANGED <<status, archive, avatar, objects, uploads, queue, orphans, finalizing, swept, losses>>

\* build_deletion_archive: a transaction of its own, that locks nothing.  The
\* file is replaced before the record commits, and may outlive its failure
BuildArchive ==
    /\ status \in {"pending", "due"} /\ ~archive.recorded /\ ~finalizing
    /\ \/ archive' = [recorded |-> TRUE, file |-> "recorded", whole |-> AvatarStored]
       \/ archive' = [archive EXCEPT !.file = "other"]
    /\ UNCHANGED <<status, avatar, objects, uploads, queue, orphans, docs, finalizing, swept, losses>>

\* A disk is lost, a file damaged
LoseArchive ==
    /\ losses < ArchiveLosses /\ archive.file # "none"
    /\ losses' = losses + 1
    /\ archive' = [archive EXCEPT !.file = "none"]
    /\ UNCHANGED <<status, avatar, objects, uploads, queue, orphans, docs, finalizing, swept>>

\* _finalize_pending_deletion_locked up to the final verification.  The gate
\* accepts the recorded package or builds another (no cleanup target can be
\* recorded as completed: they are written in this transaction); the personal
\* documents must be gone; queued objects and the avatar are deleted
MutantGate == archive.recorded      \* never builds another
Gate == archive.recorded /\ archive.file = "recorded"
Rebuilt == [recorded |-> TRUE, file |-> "new", whole |-> AvatarStored]
DocumentsGone == \A d \in PersonalDocs : docs[d] = "deleted"
Finalize ==
    /\ status = "due" /\ ~finalizing /\ archive.recorded
    /\ DocumentsGone
    /\ archive' = IF Gate THEN archive ELSE Rebuilt
    /\ objects' \in {objects \ queue, objects \ (queue \cup {avatar})}
    /\ finalizing' = TRUE
    /\ swept' = queue
    /\ UNCHANGED <<status, avatar, uploads, queue, orphans, docs, losses>>

\* delete_personal_documents_for_account asks for the deletion of each personal
\* document in the finalisation's transaction, which is then rolled back
\* because they are not deleted yet: only a rebuilt package remains
FinalizeBlocked ==
    /\ status = "due" /\ ~finalizing /\ archive.recorded
    /\ ~DocumentsGone
    /\ archive' = IF Gate THEN archive ELSE [Rebuilt EXCEPT !.file = "other"]
    /\ UNCHANGED <<status, avatar, objects, uploads, queue, orphans, docs, finalizing, swept, losses>>

\* The cleanup port, a cleanup target, the retirement, the lease or the final
\* verification of the package fails
FinalizeFails ==
    /\ finalizing
    /\ finalizing' = FALSE /\ swept' = {}
    /\ archive' = [archive EXCEPT !.file = IF @ = "new" THEN "other" ELSE @]
    /\ UNCHANGED <<status, avatar, objects, uploads, queue, orphans, docs, losses>>

\* The final verification holds, and the account becomes a tombstone
MutantVerified == TRUE              \* the gate's verdict is taken as final
Verified == archive.file \in {"recorded", "new"}
Tombstone ==
    /\ finalizing /\ Verified
    /\ avatar \notin objects
    /\ status' = "deleted"
    /\ avatar' = NoAvatar
    /\ queue' = queue \ swept
    /\ archive' = [archive EXCEPT !.file = IF @ = "new" THEN "recorded" ELSE @]
    /\ finalizing' = FALSE /\ swept' = {}
    /\ UNCHANGED <<objects, uploads, orphans, docs, losses>>

-----------------------------------------------------------------------------
AccountInit ==
    /\ status = "active" /\ archive = NoArchive /\ avatar = NoAvatar
    /\ objects = {} /\ uploads = {} /\ queue = {} /\ orphans = {}
    /\ docs \in [PersonalDocs -> {"active", "deleted"}]
    /\ finalizing = FALSE /\ swept = {} /\ losses = 0

AccountNext ==
    \/ \E k \in Avatars : PutAvatar(k) \/ CommitAvatar(k) \/ DiscardUpload(k)
                            \/ CrashUpload(k) \/ CleanObject(k)
    \/ \E d \in PersonalDocs : DeleteOwnDocument(d) \/ CompleteDocument(d)
    \/ RequestDeletion \/ RetentionElapses
    \/ BuildArchive \/ LoseArchive
    \/ Finalize \/ FinalizeBlocked \/ FinalizeFails \/ Tombstone

\* The scheduled worker (run_once): every pending archive, cleanup and due
\* workflow is tried again and again, and what it depends on does not fail
\* every time
AccountFairness ==
    /\ WF_accountVars(RetentionElapses)
    /\ \A d \in PersonalDocs : WF_accountVars(CompleteDocument(d))
    /\ WF_accountVars(BuildArchive /\ archive'.recorded)
    /\ SF_accountVars(Finalize /\ avatar \notin objects')
    /\ WF_accountVars(FinalizeBlocked)
    /\ WF_accountVars(FinalizeFails \/ Tombstone)
    /\ SF_accountVars(Tombstone)
    /\ \A k \in Avatars : /\ WF_accountVars(CleanObject(k) /\ k \notin queue')
                          /\ WF_accountVars(CommitAvatar(k) \/ DiscardUpload(k))

AccountSpec == AccountInit /\ [][AccountNext]_accountVars /\ AccountFairness

-----------------------------------------------------------------------------
(* Properties *)

AccountTypeOK ==
    /\ status \in {"active", "pending", "due", "deleted"}
    /\ archive \in
         [recorded : BOOLEAN, file : {"none", "recorded", "other", "new"}, whole : BOOLEAN]
    /\ avatar \in Avatars \cup {NoAvatar}
    /\ objects \cup uploads \cup queue \cup orphans \cup swept \subseteq Avatars
    /\ docs \in [PersonalDocs -> {"active", "pending_delete", "deleted"}]
    /\ finalizing \in BOOLEAN /\ losses \in 0..ArchiveLosses

\* An avatar in the store is the account's, is queued for its cleanup or belongs
\* to an upload: only a crash leaves one that nothing refers to
AvatarsAccounted == objects \subseteq ({avatar} \cup queue \cup uploads \cup orphans)

\* The two of them, over every crash between a file and its row
AccountsSafe == AccountTypeOK /\ AvatarsAccounted

\* The account becomes a tombstone after its retention period, with its package
\* on disk as it was recorded, its documents deleted and no avatar left to it
TombstoneIsLast == [][status # "deleted" /\ status' = "deleted" =>
    /\ status = "due"
    /\ archive'.recorded /\ archive'.file = "recorded"
    /\ DocumentsGone
    /\ objects' \subseteq uploads \cup orphans \cup queue']_accountVars

\* Once its documents are deleted or being deleted, a pending account becomes a
\* tombstone, and queued objects go
DeletionEnds ==
    /\ []<>(status \in {"pending", "due"} => \E d \in PersonalDocs : docs[d] = "active")
    /\ \A k \in Avatars : []<>(k \in queue => k \notin objects)

\* The docstring of delete_personal_documents_for_account: one deletion is
\* created per personal document, so every pending account becomes a tombstone
PendingEnds == status = "pending" ~> status = "deleted"

\* The comment on the gate: a package is rebuilt only while nothing has been
\* destroyed, so the tombstone's package holds what the account had
PackageIsWhole == status = "deleted" => archive.whole
===============================================================================

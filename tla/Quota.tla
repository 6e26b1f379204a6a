-------------------------------- MODULE Quota --------------------------------
(***************************************************************************)
(* The page quota of one user: the append-only ledger and its projection   *)
(* (QuotaService), the requests for more pages and their approval          *)
(* (QuotaRequestService), and the maintenance that cancels requests nobody *)
(* may approve any more (UsageMaintenanceWorker).                          *)
(*                                                                         *)
(* Each ledger operation is a database transaction.  A debit locks the     *)
(* projection row first and is then one step; the other entries insert     *)
(* their row, uncommitted and invisible, and wait for the projection       *)
(* afterwards, so that a rebuild may run in between.  A row another        *)
(* transaction has inserted under the same unique key is waited for.       *)
(***************************************************************************)
EXTENDS Integers, FiniteSets

CONSTANTS
    QuotaTxs,           \* database sessions
    QuotaPublications,  \* quota_operation_id of the publications that cost pages
    QuotaPages,         \* pages of a publication
    QuotaSources,       \* adjustment_source_id of reversals and supplements
    QuotaRequests,      \* bound: requests the user makes
    QuotaMonths         \* bound: business months that pass

ASSUME QuotaAssumption ==
    QuotaPages \in Nat \ {0} /\ QuotaRequests \in Nat /\ QuotaMonths \in Nat \ {0}

VARIABLES
    qmonth,     \* the current business month
    qactive,    \* identity_user.lifecycle_status = active
    qledger,    \* committed quota_debit rows
    qproj,      \* quota_projection: per month the pages used and granted
    qtx,        \* the transaction of each session: pc, entry to commit, month or request locked
    qrequest,   \* the quota_request rows
    qlisted     \* the candidates of the maintenance run under way

quotaVars == <<qmonth, qactive, qledger, qproj, qtx, qrequest, qlisted>>

Months == 1..QuotaMonths
NoEntry == [kind |-> "none", key |-> 0, period |-> 0, pages |-> 0, ref |-> 0]
NoTx    == [pc |-> "idle", entry |-> NoEntry, request |-> 0]
NoQuotaRequest == [status |-> "none", period |-> 0, pages |-> 0, granted |-> 0, reason |-> "none"]

Entry(kind, key, period, pages, ref) ==
    [kind |-> kind, key |-> key, period |-> period, pages |-> pages, ref |-> ref]

\* The pages of a set of entries, each of them counted
PageUnits(rows) == UNION {{entry} \X (1..entry.pages) : entry \in rows}
TotalPages(rows) == Cardinality(PageUnits(rows))

\* The locks that are held
ProjectionFree(period) ==
    \A t \in QuotaTxs : qtx[t].pc \in {"debit", "rebuild"} => qtx[t].entry.period # period
DebitRowFree(op) ==
    \A t \in QuotaTxs : ~(qtx[t].pc = "inserted" /\ qtx[t].entry.kind = "reversal"
                            /\ qtx[t].entry.ref = op)
RequestRowFree(r) == \A t \in QuotaTxs : qtx[t].request # r

\* _existing_entry: the unique keys
Committed(kind, key) == \E entry \in qledger : entry.kind = kind /\ entry.key = key
Inserted(kind, key) ==
    \E t \in QuotaTxs : qtx[t].pc = "inserted" /\ qtx[t].entry.kind = kind /\ qtx[t].entry.key = key
DebitOf(op) == CHOOSE entry \in qledger : entry.kind = "debit" /\ entry.key = op

\* A session opens, continues or ends its transaction; a rollback leaves no trace
OpenTx(t, pc, entry, request) ==
    /\ qtx[t].pc = "idle"
    /\ qtx' = [qtx EXCEPT ![t] = [pc |-> pc, entry |-> entry, request |-> request]]
EndTx(t) == qtx' = [qtx EXCEPT ![t] = NoTx]
RollbackTx(t) ==
    /\ qtx[t].pc # "idle"
    /\ EndTx(t)
    /\ UNCHANGED <<qmonth, qactive, qledger, qproj, qrequest, qlisted>>

\* _update_projection_locked, with the entry committed in the same transaction
Apply(entry) ==
    /\ qledger' = qledger \cup {entry}
    /\ qproj' = [qproj EXCEPT ![entry.period] =
          [used  |-> @.used + (CASE entry.kind \in {"debit", "supplement"} -> entry.pages
                                 [] entry.kind = "reversal" -> -entry.pages
                                 [] OTHER -> 0),
           extra |-> @.extra + (IF entry.kind = "credit" THEN entry.pages ELSE 0)]]

-----------------------------------------------------------------------------
(* QuotaService *)

\* append_debit on the publication's transaction: the month is that of the
\* publication, the projection is locked before the row is inserted
OpenDebit(t, op) ==
    /\ ~Committed("debit", op)
    /\ ProjectionFree(qmonth)
    /\ OpenTx(t, "debit", Entry("debit", op, qmonth, QuotaPages, 0), 0)
    /\ UNCHANGED <<qmonth, qactive, qledger, qproj, qrequest, qlisted>>

\* A publication that is repeated while this one waited has booked the pages
CommitDebit(t) ==
    /\ qtx[t].pc = "debit"
    /\ IF Committed("debit", qtx[t].entry.key) THEN UNCHANGED <<qledger, qproj>>
       ELSE Apply(qtx[t].entry)
    /\ EndTx(t)
    /\ UNCHANGED <<qmonth, qactive, qrequest, qlisted>>

\* The reversals of a publication never exceed it; its row is locked while
\* they are summed
Reversals(op) == {entry \in qledger : entry.kind = "reversal" /\ entry.ref = op}
Reversed(op) == TotalPages(Reversals(op))
MutantReversePages(t, op, source, pages) ==      \* the referenced row is not locked
    /\ Committed("debit", op) /\ ~Committed("reversal", source) /\ ~Inserted("reversal", source)
    /\ Reversed(op) + pages <= DebitOf(op).pages
    /\ OpenTx(t, "inserted", Entry("reversal", source, DebitOf(op).period, pages, op), 0)
    /\ UNCHANGED <<qmonth, qactive, qledger, qproj, qrequest, qlisted>>
ReversePages(t, op, source, pages) ==
    /\ Committed("debit", op) /\ ~Committed("reversal", source) /\ ~Inserted("reversal", source)
    /\ DebitRowFree(op)
    /\ Reversed(op) + pages <= DebitOf(op).pages
    /\ OpenTx(t, "inserted", Entry("reversal", source, DebitOf(op).period, pages, op), 0)
    /\ UNCHANGED <<qmonth, qactive, qledger, qproj, qrequest, qlisted>>

\* A supplement inherits the month of the publication it corrects
Supplement(t, op, source, pages) ==
    /\ Committed("debit", op) /\ ~Committed("supplement", source) /\ ~Inserted("supplement", source)
    /\ OpenTx(t, "inserted", Entry("supplement", source, DebitOf(op).period, pages, op), 0)
    /\ UNCHANGED <<qmonth, qactive, qledger, qproj, qrequest, qlisted>>

\* The inserted row gets the projection and is committed; a credit approves
\* its request in the same transaction
CommitInserted(t) ==
    /\ qtx[t].pc = "inserted"
    /\ ProjectionFree(qtx[t].entry.period)
    /\ Apply(qtx[t].entry)
    /\ qrequest' = IF qtx[t].request = 0 THEN qrequest
                   ELSE [qrequest EXCEPT ![qtx[t].request].status = "approved",
                                         ![qtx[t].request].granted = qtx[t].entry.pages]
    /\ EndTx(t)
    /\ UNCHANGED <<qmonth, qactive, qlisted>>

\* rebuild_projection: lock the projection, then read the committed ledger
OpenRebuild(t, period) ==
    /\ ProjectionFree(period)
    /\ OpenTx(t, "rebuild", Entry("none", 0, period, 0, 0), 0)
    /\ UNCHANGED <<qmonth, qactive, qledger, qproj, qrequest, qlisted>>

Entries(period, kind) == {entry \in qledger : entry.kind = kind /\ entry.period = period}
Booked(period, kind) == TotalPages(Entries(period, kind))
UsedPages(period) ==
    Booked(period, "debit") + Booked(period, "supplement") - Booked(period, "reversal")
CommitRebuild(t) ==
    /\ qtx[t].pc = "rebuild"
    /\ LET period == qtx[t].entry.period
           used   == UsedPages(period)
       IN  qproj' = [qproj EXCEPT ![period] = [used  |-> IF used < 0 THEN 0 ELSE used,
                                               extra |-> Booked(period, "credit")]]
    /\ EndTx(t)
    /\ UNCHANGED <<qmonth, qactive, qledger, qrequest, qlisted>>

-----------------------------------------------------------------------------
(* QuotaRequestService *)

PendingRequest(r) == qrequest[r].status = "pending"
Cancelled(r, reason) == [qrequest[r] EXCEPT !.status = "cancelled", !.reason = reason]

\* create: the month is read once; the partial unique index allows one pending
\* request a month.  The account is not looked at: it may be frozen by now.
CreateRequest(r, pages) ==
    /\ qrequest[r].status = "none" /\ \A p \in 1..(r - 1) : qrequest[p].status # "none"
    /\ \A other \in 1..QuotaRequests : ~(PendingRequest(other) /\ qrequest[other].period = qmonth)
    /\ qrequest' = [qrequest EXCEPT ![r] =
                      [NoQuotaRequest EXCEPT !.status = "pending", !.period = qmonth, !.pages = pages]]
    /\ UNCHANGED <<qmonth, qactive, qledger, qproj, qtx, qlisted>>

\* _require_approvable, on the locked row: why the request cannot be decided
NotApprovable(r) ==
    IF ~qactive THEN "applicant_inactive"
    ELSE IF qrequest[r].period # qmonth THEN "period_closed" ELSE "none"

\* approve: the credit is inserted while the row is held
Approve(t, r, pages) ==
    /\ RequestRowFree(r) /\ PendingRequest(r)
    /\ NotApprovable(r) = "none"
    /\ pages <= qrequest[r].pages
    /\ OpenTx(t, "inserted", Entry("credit", r, qrequest[r].period, pages, 0), r)
    /\ UNCHANGED <<qmonth, qactive, qledger, qproj, qrequest, qlisted>>

\* approve or reject of a request that can no longer be decided cancels it and
\* answers 409
CancelOnReview(r) ==
    /\ RequestRowFree(r) /\ PendingRequest(r)
    /\ NotApprovable(r) # "none"
    /\ qrequest' = [qrequest EXCEPT ![r] = Cancelled(r, NotApprovable(r))]
    /\ UNCHANGED <<qmonth, qactive, qledger, qproj, qtx, qlisted>>

Reject(r) ==
    /\ RequestRowFree(r) /\ PendingRequest(r)
    /\ NotApprovable(r) = "none"
    /\ qrequest' = [qrequest EXCEPT ![r].status = "rejected"]
    /\ UNCHANGED <<qmonth, qactive, qledger, qproj, qtx, qlisted>>

\* cancel_for_account, in the transaction that freezes the account; it waits
\* for an approval under way
Freeze ==
    /\ qactive
    /\ \A r \in 1..QuotaRequests : PendingRequest(r) => RequestRowFree(r)
    /\ qactive' = FALSE
    /\ qrequest' = [r \in DOMAIN qrequest |->
                      IF PendingRequest(r) THEN Cancelled(r, "applicant_inactive") ELSE qrequest[r]]
    /\ UNCHANGED <<qmonth, qledger, qproj, qtx, qlisted>>

Unfreeze ==
    /\ ~qactive
    /\ qactive' = TRUE
    /\ UNCHANGED <<qmonth, qledger, qproj, qtx, qrequest, qlisted>>

-----------------------------------------------------------------------------
(* UsageMaintenanceWorker *)

\* list_cancel_candidates: what is due in one transaction ...
Candidates ==
    {[request |-> r, reason |-> "period_closed"] :
        r \in {p \in 1..QuotaRequests : PendingRequest(p) /\ qrequest[p].period < qmonth}} \cup
    {[request |-> r, reason |-> "applicant_inactive"] :
        r \in {p \in 1..QuotaRequests : PendingRequest(p) /\ qrequest[p].period = qmonth /\ ~qactive}}
ListCandidates ==
    /\ qlisted = {} /\ Candidates # {}
    /\ qlisted' = Candidates
    /\ UNCHANGED <<qmonth, qactive, qledger, qproj, qtx, qrequest>>

\* ... or everything pending, when a deployment is revoked ...
RevokeAll ==
    /\ qlisted = {}
    /\ \E r \in 1..QuotaRequests : PendingRequest(r)
    /\ qlisted' = {[request |-> r, reason |-> "revoked"] :
                      r \in {p \in 1..QuotaRequests : PendingRequest(p)}}
    /\ UNCHANGED <<qmonth, qactive, qledger, qproj, qtx, qrequest>>

\* ... and each is cancelled by a transaction of its own if it still is pending
\* (_cancel_transition)
CancelListed(candidate) ==
    /\ candidate \in qlisted
    /\ RequestRowFree(candidate.request)
    /\ qrequest' = IF PendingRequest(candidate.request)
                   THEN [qrequest EXCEPT ![candidate.request] =
                           Cancelled(candidate.request, candidate.reason)]
                   ELSE qrequest
    /\ qlisted' = qlisted \ {candidate}
    /\ UNCHANGED <<qmonth, qactive, qledger, qproj, qtx>>

NextMonth ==
    /\ qmonth < QuotaMonths
    /\ qmonth' = qmonth + 1
    /\ UNCHANGED <<qactive, qledger, qproj, qtx, qrequest, qlisted>>

QuotaInit ==
    /\ qmonth = 1 /\ qactive = TRUE /\ qledger = {} /\ qlisted = {}
    /\ qproj = [period \in Months |-> [used |-> 0, extra |-> 0]]
    /\ qtx = [t \in QuotaTxs |-> NoTx]
    /\ qrequest = [r \in 1..QuotaRequests |-> NoQuotaRequest]

Transact(t) ==
    \/ CommitDebit(t) \/ CommitInserted(t) \/ CommitRebuild(t) \/ RollbackTx(t)
    \/ \E op \in QuotaPublications : OpenDebit(t, op)
    \/ \E op \in QuotaPublications, source \in QuotaSources, pages \in 1..QuotaPages :
          ReversePages(t, op, source, pages) \/ Supplement(t, op, source, pages)
    \/ \E period \in Months : OpenRebuild(t, period)
    \/ \E r \in 1..QuotaRequests, pages \in 1..QuotaPages : Approve(t, r, pages)

Maintain == ListCandidates \/ \E candidate \in qlisted : CancelListed(candidate)

QuotaNext ==
    \/ \E t \in QuotaTxs : Transact(t)
    \/ \E r \in 1..QuotaRequests :
          CancelOnReview(r) \/ Reject(r) \/ \E pages \in 1..QuotaPages : CreateRequest(r, pages)
    \/ Freeze \/ Unfreeze \/ RevokeAll \/ Maintain \/ NextMonth

\* The maintenance command is run again and again; a transaction ends
QuotaFairness ==
    /\ WF_quotaVars(Maintain)
    /\ \A t \in QuotaTxs : WF_quotaVars(qtx[t].pc # "idle" /\ Transact(t))

QuotaSpec == QuotaInit /\ [][QuotaNext]_quotaVars /\ QuotaFairness

-----------------------------------------------------------------------------
(* Properties *)

EntryRow == [kind : {"debit", "reversal", "supplement", "credit"},
             key : QuotaPublications \cup QuotaSources \cup (1..QuotaRequests),
             period : Months, pages : 1..QuotaPages, ref : QuotaPublications \cup {0}]

QuotaTypeOK ==
    /\ qmonth \in Months /\ qactive \in BOOLEAN
    /\ qledger \subseteq EntryRow /\ IsFiniteSet(qledger)
    /\ qproj \in [Months -> [used : Int, extra : Int]]
    /\ qtx \in [QuotaTxs -> [pc : {"idle", "debit", "inserted", "rebuild"},
                             entry : EntryRow \cup {Entry("none", 0, period, 0, 0) : period \in {0} \cup Months},
                             request : 0..QuotaRequests]]
    /\ qrequest \in [1..QuotaRequests ->
                        [status : {"none", "pending", "approved", "rejected", "cancelled"},
                         period : {0} \cup Months, pages : 0..QuotaPages, granted : 0..QuotaPages,
                         reason : {"none", "applicant_inactive", "period_closed", "revoked"}]]
    /\ qlisted \subseteq [request : 1..QuotaRequests,
                          reason : {"applicant_inactive", "period_closed", "revoked"}]

\* The projection is the sum of the committed ledger, month by month, whatever
\* debits, corrections, approvals and rebuilds overlap (quota.py:1170), no key
\* is booked twice, and the reversals of a publication never exceed it.
QuotaBooks ==
    /\ \A period \in Months : qproj[period] = [used  |-> UsedPages(period),
                                               extra |-> Booked(period, "credit")]
    /\ \A one, two \in qledger : one.kind = two.kind /\ one.key = two.key => one = two
    /\ \A op \in QuotaPublications :
          Committed("debit", op) => Reversed(op) <= DebitOf(op).pages

\* A request is approved together with the one credit it is the source of, for
\* no more than was asked; a cancelled or rejected one never granted anything.
QuotaApprovals ==
    \A r \in 1..QuotaRequests :
        LET credits == {entry \in qledger : entry.kind = "credit" /\ entry.key = r}
        IN  IF qrequest[r].status = "approved"
            THEN \E credit \in credits : /\ credits = {credit}
                                         /\ credit.period = qrequest[r].period
                                         /\ credit.pages = qrequest[r].granted
                                         /\ credit.pages <= qrequest[r].pages
            ELSE credits = {}
QuotaSafe == QuotaTypeOK /\ QuotaBooks /\ QuotaApprovals

\* A request nobody may approve, of a closed month or a frozen account, does
\* not stay pending: neither the one that was created while its account was
\* being frozen, nor one an approval held when the maintenance came by.
QuotaRequestsEnd ==
    \A r \in 1..QuotaRequests :
        []<>(~PendingRequest(r) \/ NotApprovable(r) = "none")

=============================================================================

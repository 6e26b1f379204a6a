------------------------------- MODULE Sessions -------------------------------
(***************************************************************************)
(* Login, refresh and revocation of the sessions of one account            *)
(* (IdentityService).  Every transaction that ends sessions locks the      *)
(* account's row first and is one step.  Two are not: a login reads its    *)
(* throttle before it waits for the account, and a refresh reads token and *)
(* account in the statement that then waits for the session's row, so that *)
(* it decides on a fresh session and on what the others were before.       *)
(***************************************************************************)
EXTENDS Integers, FiniteSets

CONSTANTS
    SessionClients,     \* requests that may be under way together
    SessionIds,         \* bound: logins that succeed
    MaxRotations,       \* bound: refresh tokens of each session
    MaxTransitions,     \* bound: transition_version of the account
    LoginMaxAttempts    \* login_max_attempts

ASSUME SessionsAssumption ==
    /\ SessionIds \subseteq Nat \ {0}
    /\ MaxRotations \in [SessionIds -> Nat \ {0}]
    /\ MaxTransitions \in Nat \ {0}
    /\ LoginMaxAttempts \in Nat \ {0}

VARIABLES
    account,    \* identity_user; cutoffs counts the changes that must end all sessions
    sessions,   \* auth_session; born is what cutoffs was at login
    tokens,     \* auth_refresh_token of each session, by sequence
    held,       \* the refresh tokens that reached the browser
    throttle,   \* identity_login_throttle of the user name
    commands,   \* identity_revocation_command: sessions, or 0 for the account
    calls       \* requests under way

sessionVars == <<account, sessions, tokens, held, throttle, commands, calls>>

Rotations(s) == 1..MaxRotations[s]
WholeAccount == 0
\* what a token is: replay while its successor may be replayed, spent afterwards
TokenStates == {"none", "current", "replay", "spent"}
Consumed == {"replay", "spent"}
NoSession == [live |-> FALSE, current |-> 0, version |-> 0, revoked |-> "no", born |-> 0]
NoCall == [at |-> "idle", s |-> 0, n |-> 0, token |-> "none", version |-> 0, active |-> TRUE]
NoThrottle == [attempts |-> 0, locked |-> FALSE, holder |-> "none"]

Live == {s \in SessionIds : sessions[s].live /\ sessions[s].revoked = "no"}
\* authenticate_access_token, authenticate_refresh_session
Usable(s) == /\ s \in Live
             /\ account.status = "active"
             /\ sessions[s].version = account.version

Answer(r, what) == calls' = [calls EXCEPT ![r] = [NoCall EXCEPT !.at = what]]
Quiet(r) == calls[r].at \notin {"login", "refresh"}

-----------------------------------------------------------------------------
(* Login *)

\* login: locks the throttle's row when there is one, until the login ends
LoginBegin(r) ==
    /\ Quiet(r)
    /\ throttle.holder = "none"
    /\ IF throttle.locked THEN Answer(r, "idle") /\ UNCHANGED throttle
       ELSE /\ calls' = [calls EXCEPT ![r] = [NoCall EXCEPT !.at = "login"]]
            /\ throttle' = [throttle EXCEPT !.holder = IF throttle.attempts = 0 THEN "none" ELSE r]
    /\ UNCHANGED <<account, sessions, tokens, held, commands>>

\* _record_failed_login: reads the row again under its lock, and leaves a lock
\* that another attempt has set meanwhile as it is
RecordFailedLogin(r) ==
    /\ throttle.holder \in {"none", r}
    /\ throttle' = IF throttle.locked THEN throttle
                   ELSE [attempts |-> IF throttle.attempts < LoginMaxAttempts
                                      THEN throttle.attempts + 1 ELSE LoginMaxAttempts,
                         locked   |-> throttle.attempts + 1 >= LoginMaxAttempts,
                         holder   |-> "none"]
LoginFails(r) ==
    /\ calls[r].at = "login"
    /\ RecordFailedLogin(r)
    /\ Answer(r, "idle")
    /\ UNCHANGED <<account, sessions, tokens, held, commands>>

\* The right password of an active account: the throttle's row is deleted and a
\* session of the account's version begins
NewSession(s) == [NoSession EXCEPT !.live = TRUE, !.current = 1, !.version = account.version,
                                   !.born = account.cutoffs]
LoginSucceeds(r, s) ==
    /\ calls[r].at = "login"
    /\ account.status = "active"
    /\ throttle.holder \in {"none", r}
    /\ ~sessions[s].live /\ \A earlier \in 1..(s - 1) : sessions[earlier].live
    /\ throttle' = NoThrottle
    /\ sessions' = [sessions EXCEPT ![s] = NewSession(s)]
    /\ tokens' = [tokens EXCEPT ![s][1] = "current"]
    /\ held' = [held EXCEPT ![s] = {1}]
    /\ Answer(r, "idle")
    /\ UNCHANGED <<account, commands>>

\* locked_until_utc passes; the count stays
ThrottleExpires ==
    /\ throttle.locked
    /\ throttle' = [throttle EXCEPT !.locked = FALSE]
    /\ UNCHANGED <<account, sessions, tokens, held, commands, calls>>

-----------------------------------------------------------------------------
(* Refresh *)

\* The statement's snapshot of token and account, before the session's row is locked
RefreshRead(r, s, n) ==
    /\ Quiet(r)
    /\ n \in held[s]
    /\ calls' = [calls EXCEPT ![r] = [at |-> "refresh", s |-> s, n |-> n,
                                      token |-> tokens[s][n], version |-> account.version,
                                      active |-> account.status = "active"]]
    /\ UNCHANGED <<account, sessions, tokens, held, throttle, commands>>

\* With the row's lock: may the session be refreshed at all
Refreshable(r) == LET s == calls[r].s IN
    /\ s \in Live
    /\ calls[r].active
    /\ sessions[s].version = calls[r].version

RefreshRefused(r) == LET s == calls[r].s  n == calls[r].n  current == sessions[calls[r].s].current IN
    /\ calls[r].at = "refresh"
    /\ \/ ~Refreshable(r)
       \/ calls[r].token \in Consumed /\ n = current - 1 /\ calls[r].token = "spent"
       \/ calls[r].token = "current" /\ n # current
    /\ Answer(r, "invalid_refresh")
    /\ UNCHANGED <<account, sessions, tokens, held, throttle, commands>>

\* The predecessor within its grace gets the successor once more; the answer may be lost
Replay(r) == LET s == calls[r].s  n == calls[r].n IN
    /\ calls[r].at = "refresh" /\ Refreshable(r)
    /\ calls[r].token = "replay" /\ n = sessions[s].current - 1
    /\ \E arrives \in BOOLEAN : held' = [held EXCEPT ![s] = IF arrives THEN @ \cup {n + 1} ELSE @]
    /\ Answer(r, "idle")
    /\ UNCHANGED <<account, sessions, tokens, throttle, commands>>

\* _revoke_session_in_transaction: only a session that is not revoked yet, with
\* the command that stops its generations in the same transaction
RevokeOne(s, reason) ==
    /\ sessions' = [sessions EXCEPT ![s].revoked = reason]
    /\ commands' = commands \cup {s}

\* An older token: the family is revoked
ReuseDetected(r) == LET s == calls[r].s  n == calls[r].n IN
    /\ calls[r].at = "refresh" /\ Refreshable(r)
    /\ calls[r].token \in Consumed /\ n # sessions[s].current - 1
    /\ tokens' = [tokens EXCEPT ![s][n] = "spent"]
    /\ RevokeOne(s, "reuse")
    /\ Answer(r, "idle")
    /\ UNCHANGED <<account, held, throttle>>

\* The current token is consumed, no older one can be replayed any more and the
\* successor is current; the answer may be lost
MutantRotates(r) == calls[r].token = "current"      \* neither check of the stale row
Rotates(r) == LET s == calls[r].s  n == calls[r].n IN
    /\ calls[r].token = "current"
    /\ n = sessions[s].current
    /\ tokens[s][n] = "current"
Rotate(r) == LET s == calls[r].s  n == calls[r].n  next == sessions[calls[r].s].current + 1 IN
    /\ calls[r].at = "refresh" /\ Refreshable(r)
    /\ Rotates(r)
    /\ next <= MaxRotations[s]
    /\ tokens' = [tokens EXCEPT ![s] = [k \in Rotations(s) |->
                    CASE k = n    -> "replay"
                      [] k = next -> "current"
                      [] OTHER    -> IF @[k] = "replay" THEN "spent" ELSE @[k]]]
    /\ sessions' = [sessions EXCEPT ![s].current = next]
    /\ \E arrives \in BOOLEAN : held' = [held EXCEPT ![s] = IF arrives THEN @ \cup {next} ELSE @]
    /\ Answer(r, "idle")
    /\ UNCHANGED <<account, throttle, commands>>

\* replay_expires_at_utc passes; a family that expires only refuses and is left out
GraceEnds(s) == \E n \in Rotations(s) :
    /\ tokens[s][n] = "replay"
    /\ tokens' = [tokens EXCEPT ![s][n] = "spent"]
    /\ UNCHANGED <<account, sessions, held, throttle, commands, calls>>

-----------------------------------------------------------------------------
(* Revocation *)

\* _revoke_account_sessions_in_transaction, with the command for the account
RevokeAccountSessions(reason, version) ==
    /\ sessions' = [s \in SessionIds |-> IF s \in Live
                        THEN [sessions[s] EXCEPT !.revoked = reason, !.version = version]
                        ELSE sessions[s]]
    /\ commands' = commands \cup {WholeAccount}

\* The account's row moves on to its next version.
Transition(status, reason) ==
    /\ account.version < MaxTransitions
    /\ account' = [status |-> status, version |-> account.version + 1, cutoffs |-> account.cutoffs + 1]
    /\ RevokeAccountSessions(reason, account.version + 1)
    /\ UNCHANGED <<tokens, held, throttle, calls>>

\* change_password: by its user, whose session may have gone meanwhile
ChangePassword == account.status = "active" /\ Transition("active", "password_changed")

\* update_managed_user: a new role or department; nothing else moves the version
ChangeAuthority == account.status = "active" /\ Transition("active", "authority_changed")

\* delete_managed_user
DeleteAccount == account.status = "active" /\ Transition("pending_delete", "account_deleted")

\* revoke_all_sessions (revoke_all_sessions_for_action with a session that
\* lives): without a live session nothing changes, not even the version
RevokeAll == account.status = "active" /\ Live # {} /\ Transition("active", "all_devices_revoked")

\* revoke_session, revoke_session_for_action: logout, or one device of the list
RevokeSession(s) ==
    /\ s \in Live
    /\ RevokeOne(s, "logout")
    /\ UNCHANGED <<account, tokens, held, throttle, calls>>

-----------------------------------------------------------------------------
SessionInit ==
    /\ account = [status |-> "active", version |-> 1, cutoffs |-> 0]
    /\ sessions = [s \in SessionIds |-> NoSession]
    /\ tokens = [s \in SessionIds |-> [n \in Rotations(s) |-> "none"]]
    /\ held = [s \in SessionIds |-> {}]
    /\ throttle = NoThrottle
    /\ commands = {}
    /\ calls = [r \in SessionClients |-> NoCall]

SessionNext ==
    \/ \E r \in SessionClients :
          \/ LoginBegin(r) \/ LoginFails(r) \/ \E s \in SessionIds : LoginSucceeds(r, s)
          \/ \E s \in SessionIds : \E n \in Rotations(s) : RefreshRead(r, s, n)
          \/ RefreshRefused(r) \/ Replay(r) \/ ReuseDetected(r) \/ Rotate(r)
    \/ \E s \in SessionIds : GraceEnds(s) \/ RevokeSession(s)
    \/ ThrottleExpires
    \/ ChangePassword \/ ChangeAuthority \/ DeleteAccount \/ RevokeAll

SessionSpec == SessionInit /\ [][SessionNext]_sessionVars

-----------------------------------------------------------------------------
(* Properties *)

SessionTypeOK ==
    /\ account.status \in {"active", "pending_delete"} /\ account.version \in 1..MaxTransitions
    /\ DOMAIN tokens = SessionIds
    /\ \A s \in SessionIds : /\ tokens[s] \in [Rotations(s) -> TokenStates]
                            /\ sessions[s].current \in 0..MaxRotations[s]
                            /\ held[s] \subseteq Rotations(s)
    /\ throttle.attempts \in 0..LoginMaxAttempts
    /\ commands \subseteq SessionIds \cup {WholeAccount}

\* One token of a session is unused and it is the session's current one; only
\* the one before it can be replayed; every token handed out was issued
TokenChain == \A s \in SessionIds : sessions[s].live =>
    /\ {n \in Rotations(s) : tokens[s][n] = "current"} = {sessions[s].current}
    /\ \A n \in Rotations(s) : tokens[s][n] = "replay" => n = sessions[s].current - 1
    /\ \A n \in held[s] : n <= sessions[s].current /\ tokens[s][n] # "none"

\* No session from before a password change, a change of role or department, a
\* deletion or a revocation of all devices authenticates a request or can still
\* be refreshed, whatever refreshes and logins were under way
CutOff == \A s \in SessionIds :
    /\ Usable(s) => sessions[s].born = account.cutoffs
    /\ \A r \in SessionClients : calls[r].at = "refresh" /\ calls[r].s = s /\ Refreshable(r)
            => sessions[s].born = account.cutoffs

\* Whatever ends a session leaves the command that ends its generations
EndsGenerations == \A s \in SessionIds : sessions[s].live /\ sessions[s].revoked # "no" =>
    IF sessions[s].revoked \in {"reuse", "logout"} THEN s \in commands ELSE WholeAccount \in commands

\* All of it, over every interleaving of logins, refreshes and revocations
SessionsSafe == SessionTypeOK /\ TokenChain /\ CutOff /\ EndsGenerations

\* A token that was read as consumed and is older than the current one's
\* predecessor revokes its session, and a refused refresh changes nothing
ReuseRevokes == [][\A r \in SessionClients :
    calls[r].at = "refresh" /\ calls'[r] # calls[r] =>
        /\ (Refreshable(r) /\ calls[r].token \in Consumed /\ calls[r].n < sessions[calls[r].s].current - 1)
              => sessions'[calls[r].s].revoked = "reuse"
        /\ calls'[r].at = "invalid_refresh" => UNCHANGED <<sessions, tokens, held, commands>>]_sessionVars

\* The grace of the predecessor: as long as it can be replayed and its session
\* lives, a refresh that presents it is not refused
GraceHonoured == [][\A r \in SessionClients :
    (calls[r].at = "refresh" /\ calls'[r].at = "invalid_refresh" /\ Usable(calls[r].s))
        => tokens[calls[r].s][calls[r].n] # "replay"]_sessionVars
===============================================================================

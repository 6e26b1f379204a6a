--------------------------- MODULE SessionsProofs ---------------------------
(***************************************************************************)
(* Theorems about Sessions for any clients, sessions, rotations, changes   *)
(* of the account and login attempts.                                      *)
(***************************************************************************)
EXTENDS Sessions, TLAPS

-----------------------------------------------------------------------------
(* Types *)

Reasons == {"password_changed", "authority_changed", "account_deleted", "all_devices_revoked"}

AccountRow == [status : {"active", "pending_delete"}, version : Nat, cutoffs : Nat]
SessionRow == [live : BOOLEAN, current : Nat, version : Nat,
               revoked : {"no", "reuse", "logout"} \cup Reasons, born : Nat]
AtRest     == [at : {"idle", "login", "invalid_refresh"}, s : {0}, n : {0}, token : {"none"},
               version : {0}, active : {TRUE}]
AtRefresh  == [at : {"refresh"}, s : SessionIds, n : Nat, token : TokenStates,
               version : Nat, active : BOOLEAN]
ThrottleRow   == [attempts : 0..LoginMaxAttempts, locked : BOOLEAN,
               holder : {"none"} \cup SessionClients]

RowsTyped ==
    /\ account \in AccountRow /\ account.version \in 1..MaxTransitions
    /\ sessions \in [SessionIds -> SessionRow]
    /\ tokens = [s \in SessionIds |-> tokens[s]] /\ held \in [SessionIds -> SUBSET Nat]
    /\ commands \subseteq SessionIds \cup {WholeAccount}
    /\ calls \in [SessionClients -> AtRest \cup AtRefresh]
    /\ throttle \in ThrottleRow

-----------------------------------------------------------------------------
(* What is kept of a session *)

\* the tokens of a session: none before it begins, then the current one, its
\* predecessor and those spent
Chain(s) ==
    /\ tokens[s] \in [Rotations(s) -> TokenStates] /\ held[s] \subseteq Rotations(s)
    /\ sessions[s].current \in 0..MaxRotations[s]
    /\ \A n \in Rotations(s) :
          /\ tokens[s][n] = "current" <=> sessions[s].live /\ n = sessions[s].current
          /\ tokens[s][n] = "replay" => n = sessions[s].current - 1
          /\ tokens[s][n] = "none" <=> n > sessions[s].current
          /\ n \in held[s] => n <= sessions[s].current
    /\ ~sessions[s].live => sessions[s].current = 0 /\ sessions[s].revoked = "no"
    /\ sessions[s].live => sessions[s].current > 0

\* a session that lives is of the account's version: whatever moves the version
\* revokes the sessions that live
OfVersion(s) ==
    s \in Live => sessions[s].born = account.cutoffs /\ sessions[s].version = account.version

Commanded(s) ==
    /\ sessions[s].revoked \in {"reuse", "logout"} => s \in commands
    /\ sessions[s].revoked \in Reasons => WholeAccount \in commands

\* a refresh was read when its session had begun, and a token it saw consumed is
\* still consumed
ReadBefore(r) ==
    calls[r].at = "refresh" =>
        /\ calls[r].n \in Rotations(calls[r].s)
        /\ tokens[calls[r].s][calls[r].n] # "none"
        /\ calls[r].token # "none"
        /\ calls[r].token \in Consumed => tokens[calls[r].s][calls[r].n] \in Consumed

SessionInv ==
    /\ RowsTyped
    /\ \A s \in SessionIds : Chain(s) /\ OfVersion(s) /\ Commanded(s)
    /\ \A r \in SessionClients : ReadBefore(r)

LEMMA InitSession == SessionInit => SessionInv
<1> SUFFICES ASSUME SessionInit PROVE SessionInv OBVIOUS
<1>1. RowsTyped
  BY SessionsAssumption
     DEF SessionInit, RowsTyped, AccountRow, SessionRow, NoSession, AtRest, NoCall, ThrottleRow,
         NoThrottle
<1>2. ASSUME NEW s \in SessionIds PROVE Chain(s) /\ OfVersion(s) /\ Commanded(s)
  BY <1>2, SessionsAssumption
     DEF SessionInit, Chain, OfVersion, Commanded, Live, NoSession, Rotations, TokenStates, Reasons
<1>3. ASSUME NEW r \in SessionClients PROVE ReadBefore(r) BY DEF SessionInit, ReadBefore, NoCall
<1> QED BY <1>1, <1>2, <1>3 DEF SessionInv

\* a call that ends, and the fields of one that refreshes
LEMMA CallKinds ==
    ASSUME SessionInv, NEW r \in SessionClients
    PROVE  /\ calls[r] \in AtRest \cup AtRefresh
           /\ calls[r].at = "refresh" => calls[r] \in AtRefresh /\ calls[r].s \in SessionIds
           /\ \A what \in {"idle", "login", "invalid_refresh"} :
                 [NoCall EXCEPT !.at = what] \in AtRest
BY DEF SessionInv, RowsTyped, AtRest, AtRefresh, NoCall

\* the calls of the others are as before, one call changes
LEMMA CallsKept ==
    ASSUME SessionInv, NEW r \in SessionClients, NEW c, calls' = [calls EXCEPT ![r] = c]
    PROVE  \A q \in SessionClients : calls'[q] = IF q = r THEN c ELSE calls[q]
BY DEF SessionInv, RowsTyped

\* the answer to a call
LEMMA Answering ==
    ASSUME SessionInv, NEW r \in SessionClients, NEW what \in {"idle", "login", "invalid_refresh"},
           Answer(r, what)
    PROVE  /\ calls' \in [SessionClients -> AtRest \cup AtRefresh]
           /\ calls'[r].at = what
           /\ \A q \in SessionClients : calls'[q].at = "refresh" => q # r /\ calls'[q] = calls[q]
<1>1. \A q \in SessionClients : calls'[q] = IF q = r THEN [NoCall EXCEPT !.at = what] ELSE calls[q]
  BY CallsKept DEF Answer
<1>2. [NoCall EXCEPT !.at = what] \in AtRest BY CallKinds
<1>3. [NoCall EXCEPT !.at = what].at = what BY DEF NoCall
<1> QED BY <1>1, <1>2, <1>3 DEF Answer, SessionInv, RowsTyped

\* what stays of a read when its session goes on
LEMMA ReadKept ==
    ASSUME SessionInv, NEW r \in SessionClients, calls'[r].at = "refresh" => calls'[r] = calls[r],
           \A s \in SessionIds : \A n \in Rotations(s) :
               /\ tokens[s][n] # "none" => tokens'[s][n] # "none"
               /\ tokens[s][n] \in Consumed => tokens'[s][n] \in Consumed
    PROVE  ReadBefore(r)'
BY CallKinds DEF SessionInv, ReadBefore, Rotations

-----------------------------------------------------------------------------
(* The steps *)

\* requests that read and are refused, and the throttle
QuietStep ==
    \/ \E r \in SessionClients : LoginBegin(r) \/ LoginFails(r) \/ RefreshRefused(r)
    \/ \E r \in SessionClients, s \in SessionIds : \E n \in Rotations(s) : RefreshRead(r, s, n)
    \/ ThrottleExpires

LEMMA QuietSession == ASSUME SessionInv, QuietStep PROVE SessionInv'
<1>1. UNCHANGED <<account, sessions, tokens, held, commands>>
  BY DEF QuietStep, LoginBegin, LoginFails, RefreshRefused, RefreshRead, ThrottleExpires
<1>2. \A s \in SessionIds : Chain(s)' /\ OfVersion(s)' /\ Commanded(s)'
  BY <1>1 DEF SessionInv, Chain, OfVersion, Commanded, Live
<1>3. throttle' \in ThrottleRow
  <2>1. throttle \in ThrottleRow BY DEF SessionInv, RowsTyped
  <2>2. ASSUME NEW r \in SessionClients, LoginBegin(r) PROVE throttle' \in ThrottleRow
    BY <2>1, <2>2 DEF LoginBegin, ThrottleRow
  <2>3. ASSUME NEW r \in SessionClients, LoginFails(r) PROVE throttle' \in ThrottleRow
    BY <2>1, <2>3, SessionsAssumption DEF LoginFails, RecordFailedLogin, ThrottleRow
  <2>4. CASE ThrottleExpires BY <2>1, <2>4 DEF ThrottleExpires, ThrottleRow
  <2> QED BY <2>1, <2>2, <2>3, <2>4 DEF QuietStep, RefreshRefused, RefreshRead
<1>4. /\ calls' \in [SessionClients -> AtRest \cup AtRefresh]
      /\ \A q \in SessionClients : ReadBefore(q)'
  <2>1. ASSUME NEW r \in SessionClients, NEW what \in {"idle", "login", "invalid_refresh"},
               Answer(r, what)
        PROVE  /\ calls' \in [SessionClients -> AtRest \cup AtRefresh]
               /\ \A q \in SessionClients : ReadBefore(q)'
    BY <1>1, <2>1, Answering, ReadKept
  <2>2. ASSUME NEW r \in SessionClients, LoginBegin(r) \/ LoginFails(r) \/ RefreshRefused(r)
        PROVE  \E what \in {"idle", "login", "invalid_refresh"} : Answer(r, what)
    BY <2>2 DEF LoginBegin, LoginFails, RefreshRefused, Answer
  <2>3. ASSUME NEW r \in SessionClients, NEW s \in SessionIds, NEW n \in Rotations(s),
               RefreshRead(r, s, n)
        PROVE  /\ calls' \in [SessionClients -> AtRest \cup AtRefresh]
               /\ \A q \in SessionClients : ReadBefore(q)'
    <3> DEFINE c == [at |-> "refresh", s |-> s, n |-> n, token |-> tokens[s][n],
                     version |-> account.version, active |-> account.status = "active"]
    <3>1. \A q \in SessionClients : calls'[q] = IF q = r THEN c ELSE calls[q]
      BY <2>3, CallsKept DEF RefreshRead
    <3>2. Chain(s) /\ n \in held[s] BY <2>3 DEF SessionInv, RefreshRead
    <3>3. tokens[s][n] # "none" /\ tokens[s][n] \in TokenStates /\ n \in Nat
      BY <3>2, SessionsAssumption DEF Chain, Rotations
    <3>4. c \in AtRefresh BY <3>3 DEF AtRefresh, SessionInv, RowsTyped, AccountRow
    <3>5. ReadBefore(r)' BY <1>1, <3>1, <3>2, <3>3 DEF ReadBefore
    <3>6. \A q \in SessionClients \ {r} : ReadBefore(q)' BY <1>1, <3>1, ReadKept
    <3> HIDE DEF c
    <3>7. calls' \in [SessionClients -> AtRest \cup AtRefresh]
      BY <2>3, <3>1, <3>4 DEF RefreshRead, SessionInv, RowsTyped
    <3> QED BY <3>5, <3>6, <3>7
  <2>4. CASE ThrottleExpires BY <1>1, <2>4, ReadKept DEF ThrottleExpires, SessionInv, RowsTyped
  <2> QED BY <2>1, <2>2, <2>3, <2>4 DEF QuietStep
<1> QED BY <1>1, <1>2, <1>3, <1>4 DEF SessionInv, RowsTyped

LEMMA LoginSession ==
    ASSUME SessionInv, NEW r \in SessionClients, NEW s \in SessionIds, LoginSucceeds(r, s)
    PROVE  SessionInv'
<1>1. RowsTyped /\ Chain(s) /\ ~sessions[s].live /\ NoSession.revoked = "no"
  BY DEF SessionInv, LoginSucceeds, NoSession
<1>2. /\ NewSession(s).live /\ NewSession(s).current = 1 /\ NewSession(s).revoked = "no"
      /\ NewSession(s).version = account.version /\ NewSession(s).born = account.cutoffs
      /\ NewSession(s) \in SessionRow
  <2>1. NoSession \in SessionRow BY DEF NoSession, SessionRow
  <2>2. account.version \in Nat /\ account.cutoffs \in Nat BY <1>1 DEF RowsTyped, AccountRow
  <2> QED BY <1>1, <2>1, <2>2 DEF NewSession, SessionRow
<1>3. /\ \A x \in SessionIds : sessions'[x] = IF x = s THEN NewSession(s) ELSE sessions[x]
      /\ \A x \in SessionIds \ {s} : tokens'[x] = tokens[x] /\ held'[x] = held[x]
      /\ tokens'[s] = [tokens[s] EXCEPT ![1] = "current"] /\ held'[s] = {1}
      /\ UNCHANGED <<account, commands>>
  BY <1>1 DEF LoginSucceeds, RowsTyped
<1>4. tokens' = [x \in SessionIds |-> tokens'[x]] BY <1>1 DEF LoginSucceeds, RowsTyped
<1>5. sessions' \in [SessionIds -> SessionRow] BY <1>1, <1>2 DEF LoginSucceeds, RowsTyped
<1>6. held' \in [SessionIds -> SUBSET Nat] BY <1>1 DEF LoginSucceeds, RowsTyped
<1>7. throttle' \in ThrottleRow BY SessionsAssumption DEF LoginSucceeds, NoThrottle, ThrottleRow
<1>8. 1 \in Rotations(s) /\ MaxRotations[s] \in Nat BY SessionsAssumption DEF Rotations
<1>9. Chain(s)'
  BY <1>1, <1>2, <1>3, <1>8 DEF Chain, Rotations, TokenStates
<1>10. \A x \in SessionIds : Chain(x)' BY <1>3, <1>9 DEF SessionInv, Chain
<1>11. \A x \in SessionIds : OfVersion(x)' /\ Commanded(x)'
  BY <1>2, <1>3 DEF SessionInv, OfVersion, Commanded, Live, Reasons
<1>12. calls' \in [SessionClients -> AtRest \cup AtRefresh] /\ \A q \in SessionClients : ReadBefore(q)'
  <2>1. \A x \in SessionIds : \A n \in Rotations(x) :
           /\ tokens[x][n] # "none" => tokens'[x][n] # "none"
           /\ tokens[x][n] \in Consumed => tokens'[x][n] \in Consumed
    BY <1>1, <1>3, <1>8 DEF Chain, Consumed, Rotations
  <2>2. Answer(r, "idle") BY DEF LoginSucceeds
  <2> QED BY <2>1, <2>2, Answering, ReadKept
<1> QED BY <1>1, <1>3, <1>4, <1>5, <1>6, <1>7, <1>10, <1>11, <1>12 DEF SessionInv, RowsTyped

\* the session and the token of a refresh
LEMMA Refreshing ==
    ASSUME SessionInv, NEW r \in SessionClients, calls[r].at = "refresh",
           NEW s, s = calls[r].s, NEW n, n = calls[r].n
    PROVE  /\ s \in SessionIds /\ Chain(s) /\ n \in Rotations(s) /\ n \in Nat \ {0}
           /\ MaxRotations[s] \in Nat /\ sessions[s].current \in Nat /\ RowsTyped
<1>1. s \in SessionIds BY CallKinds
<1>2. Chain(s) /\ RowsTyped BY <1>1 DEF SessionInv
<1>3. n \in Rotations(s) BY DEF SessionInv, ReadBefore
<1>4. MaxRotations[s] \in Nat BY <1>1, SessionsAssumption
<1> QED BY <1>1, <1>2, <1>3, <1>4 DEF Chain, Rotations

LEMMA ReplaySession ==
    ASSUME SessionInv, NEW r \in SessionClients, Replay(r),
           NEW s, s = calls[r].s, NEW n, n = calls[r].n
    PROVE  SessionInv'
<1>1. /\ s \in SessionIds /\ Chain(s) /\ n \in Rotations(s) /\ n \in Nat \ {0}
      /\ MaxRotations[s] \in Nat /\ sessions[s].current \in Nat /\ RowsTyped
      /\ n = sessions[s].current - 1
  BY Refreshing DEF Replay
<1>2. n + 1 \in Rotations(s) /\ n + 1 <= sessions[s].current
  BY <1>1 DEF Chain, Rotations
<1>3. PICK arrives \in BOOLEAN :
          held' = [held EXCEPT ![s] = IF arrives THEN held[s] \cup {n + 1} ELSE held[s]]
  BY <1>1 DEF Replay, RowsTyped
<1>4. /\ \A x \in SessionIds \ {s} : held'[x] = held[x]
      /\ held'[s] \subseteq held[s] \cup {n + 1}
      /\ held' \in [SessionIds -> SUBSET Nat]
  BY <1>1, <1>2, <1>3 DEF RowsTyped, Rotations
<1>5. UNCHANGED <<account, sessions, tokens, throttle, commands>> BY DEF Replay
<1>6. Chain(s)' BY <1>1, <1>2, <1>4, <1>5 DEF Chain
<1>7. \A x \in SessionIds : Chain(x)' BY <1>4, <1>5, <1>6 DEF SessionInv, Chain
<1>8. \A x \in SessionIds : OfVersion(x)' /\ Commanded(x)'
  BY <1>5 DEF SessionInv, OfVersion, Commanded, Live
<1>9. calls' \in [SessionClients -> AtRest \cup AtRefresh] /\ \A q \in SessionClients : ReadBefore(q)'
  <2>1. Answer(r, "idle") BY DEF Replay
  <2> QED BY <1>5, <2>1, Answering, ReadKept
<1> QED BY <1>4, <1>5, <1>7, <1>8, <1>9 DEF SessionInv, RowsTyped

\* the revocation of one session
LEMMA Revoking ==
    ASSUME SessionInv, NEW s \in Live, NEW reason \in {"reuse", "logout"}, RevokeOne(s, reason)
    PROVE  /\ \A x \in SessionIds :
                 /\ x # s => sessions'[x] = sessions[x]
                 /\ sessions'[x].live = sessions[x].live
                 /\ sessions'[x].current = sessions[x].current
                 /\ sessions'[x].version = sessions[x].version
                 /\ sessions'[x].born = sessions[x].born
           /\ sessions'[s].revoked = reason
           /\ sessions' \in [SessionIds -> SessionRow]
           /\ commands \subseteq commands' /\ s \in commands'
           /\ commands' \subseteq SessionIds \cup {WholeAccount}
<1>1. s \in SessionIds /\ sessions \in [SessionIds -> SessionRow]
  BY DEF Live, SessionInv, RowsTyped
<1>2. sessions' = [sessions EXCEPT ![s] = [sessions[s] EXCEPT !.revoked = reason]]
  BY <1>1 DEF RevokeOne
<1>3. /\ [sessions[s] EXCEPT !.revoked = reason] \in SessionRow
      /\ [sessions[s] EXCEPT !.revoked = reason].revoked = reason
      /\ [sessions[s] EXCEPT !.revoked = reason].live = sessions[s].live
      /\ [sessions[s] EXCEPT !.revoked = reason].current = sessions[s].current
      /\ [sessions[s] EXCEPT !.revoked = reason].version = sessions[s].version
      /\ [sessions[s] EXCEPT !.revoked = reason].born = sessions[s].born
  BY <1>1 DEF SessionRow
<1>4. commands' = commands \cup {s} /\ commands \subseteq SessionIds \cup {WholeAccount}
  BY DEF RevokeOne, SessionInv, RowsTyped
<1> QED BY <1>1, <1>2, <1>3, <1>4

\* what holds of the sessions after one has been revoked
LEMMA Revoked ==
    ASSUME SessionInv, NEW s \in Live, NEW reason \in {"reuse", "logout"}, RevokeOne(s, reason),
           UNCHANGED account, NEW x \in SessionIds
    PROVE  OfVersion(x)' /\ Commanded(x)' /\ (tokens'[x] = tokens[x] /\ UNCHANGED held => Chain(x)')
<1>1. Chain(x) /\ OfVersion(x) /\ Commanded(x) /\ s \in SessionIds BY DEF SessionInv, Live
<1>2. CASE x # s
  BY <1>1, <1>2, Revoking DEF OfVersion, Commanded, Chain, Live
<1>3. CASE x = s
  BY <1>1, <1>3, Revoking DEF OfVersion, Commanded, Chain, Live, Reasons
<1> QED BY <1>2, <1>3

LEMMA ReuseSession ==
    ASSUME SessionInv, NEW r \in SessionClients, ReuseDetected(r),
           NEW s, s = calls[r].s, NEW n, n = calls[r].n
    PROVE  SessionInv'
<1>1. /\ s \in SessionIds /\ Chain(s) /\ n \in Rotations(s) /\ n \in Nat \ {0}
      /\ MaxRotations[s] \in Nat /\ sessions[s].current \in Nat /\ RowsTyped
      /\ s \in Live /\ n # sessions[s].current - 1 /\ tokens[s][n] \in Consumed
  BY Refreshing DEF ReuseDetected, Refreshable, SessionInv, ReadBefore
<1>2. /\ RevokeOne(s, "reuse") /\ UNCHANGED <<account, held, throttle>>
      /\ tokens' = [tokens EXCEPT ![s] = [tokens[s] EXCEPT ![n] = "spent"]]
  BY <1>1 DEF ReuseDetected, RowsTyped
<1>3. /\ \A x \in SessionIds \ {s} : tokens'[x] = tokens[x]
      /\ tokens'[s] = [tokens[s] EXCEPT ![n] = "spent"]
      /\ tokens' = [x \in SessionIds |-> tokens'[x]]
  BY <1>1, <1>2 DEF RowsTyped
<1>4. /\ tokens'[s] \in [Rotations(s) -> TokenStates]
      /\ \A k \in Rotations(s) : tokens'[s][k] = IF k = n THEN "spent" ELSE tokens[s][k]
  BY <1>1, <1>3 DEF Chain, TokenStates
<1>5. /\ sessions'[s].live = sessions[s].live /\ sessions'[s].current = sessions[s].current
      /\ sessions[s].live
  BY <1>1, <1>2, Revoking DEF Live
<1>6. Chain(s)'
  <2>1. tokens[s][n] \notin {"current", "none"} BY <1>1 DEF Consumed
  <2>2. \A k \in Rotations(s) : (tokens'[s][k] = "current" <=> tokens[s][k] = "current")
                              /\ (tokens'[s][k] = "none" <=> tokens[s][k] = "none")
                              /\ (tokens'[s][k] = "replay" => tokens[s][k] = "replay")
    BY <1>4, <2>1
  <2>3. held'[s] = held[s] BY <1>2
  <2>4. \A k \in Rotations(s) :
           /\ tokens'[s][k] = "current" <=> sessions'[s].live /\ k = sessions'[s].current
           /\ tokens'[s][k] = "replay" => k = sessions'[s].current - 1
           /\ tokens'[s][k] = "none" <=> k > sessions'[s].current
           /\ k \in held'[s] => k <= sessions'[s].current
    <3>1. \A k \in Rotations(s) :
             /\ tokens[s][k] = "current" <=> sessions[s].live /\ k = sessions[s].current
             /\ tokens[s][k] = "replay" => k = sessions[s].current - 1
             /\ tokens[s][k] = "none" <=> k > sessions[s].current
             /\ k \in held[s] => k <= sessions[s].current
      BY <1>1 DEF Chain
    <3> QED BY <1>5, <2>2, <2>3, <3>1
  <2>5. /\ held'[s] \subseteq Rotations(s) /\ sessions'[s].current \in 0..MaxRotations[s]
        /\ sessions'[s].live /\ sessions'[s].current > 0
    BY <1>1, <1>5, <2>3 DEF Chain
  <2> QED BY <1>4, <2>4, <2>5 DEF Chain
<1>7. \A x \in SessionIds : Chain(x)' /\ OfVersion(x)' /\ Commanded(x)'
  BY <1>1, <1>2, <1>3, <1>6, Revoked
<1>8. calls' \in [SessionClients -> AtRest \cup AtRefresh] /\ \A q \in SessionClients : ReadBefore(q)'
  <2>1. \A x \in SessionIds : \A k \in Rotations(x) :
           /\ tokens[x][k] # "none" => tokens'[x][k] # "none"
           /\ tokens[x][k] \in Consumed => tokens'[x][k] \in Consumed
    BY <1>3, <1>4 DEF Consumed
  <2>2. Answer(r, "idle") BY DEF ReuseDetected
  <2> QED BY <2>1, <2>2, Answering, ReadKept
<1> QED BY <1>1, <1>2, <1>3, <1>7, <1>8, Revoking DEF SessionInv, RowsTyped

LEMMA RotateSession ==
    ASSUME SessionInv, NEW r \in SessionClients, Rotate(r),
           NEW s, s = calls[r].s, NEW n, n = calls[r].n
    PROVE  SessionInv'
<1>1. /\ s \in SessionIds /\ Chain(s) /\ n \in Rotations(s) /\ n \in Nat \ {0}
      /\ MaxRotations[s] \in Nat /\ sessions[s].current \in Nat /\ RowsTyped
      /\ s \in Live /\ n = sessions[s].current /\ n + 1 <= MaxRotations[s]
  BY Refreshing DEF Rotate, Refreshable, Rotates
<1>2. /\ tokens' = [tokens EXCEPT ![s] = [k \in Rotations(s) |->
                       CASE k = n     -> "replay"
                         [] k = n + 1 -> "current"
                         [] OTHER     -> IF tokens[s][k] = "replay" THEN "spent" ELSE tokens[s][k]]]
      /\ sessions' = [sessions EXCEPT ![s] = [sessions[s] EXCEPT !.current = n + 1]]
      /\ UNCHANGED <<account, throttle, commands>>
  BY <1>1 DEF Rotate, RowsTyped
<1>3. /\ \A x \in SessionIds \ {s} : tokens'[x] = tokens[x] /\ sessions'[x] = sessions[x]
      /\ tokens' = [x \in SessionIds |-> tokens'[x]]
      /\ sessions'[s] = [sessions[s] EXCEPT !.current = n + 1]
  BY <1>1, <1>2 DEF RowsTyped
<1>4. tokens'[s] = [k \in Rotations(s) |->
                       CASE k = n     -> "replay"
                         [] k = n + 1 -> "current"
                         [] OTHER     -> IF tokens[s][k] = "replay" THEN "spent" ELSE tokens[s][k]]
  BY <1>1, <1>2 DEF RowsTyped
<1>5. \A k \in Rotations(s) :
          tokens'[s][k] = IF k = n THEN "replay" ELSE IF k = n + 1 THEN "current"
                          ELSE IF tokens[s][k] = "replay" THEN "spent" ELSE tokens[s][k]
  BY <1>1, <1>4
<1>6. /\ sessions'[s].live = sessions[s].live /\ sessions'[s].current = n + 1
      /\ sessions'[s].version = sessions[s].version /\ sessions'[s].born = sessions[s].born
      /\ sessions'[s].revoked = sessions[s].revoked /\ sessions'[s] \in SessionRow
      /\ sessions[s].live
  BY <1>1, <1>3 DEF RowsTyped, SessionRow, Live
<1>7. sessions' \in [SessionIds -> SessionRow] BY <1>1, <1>2, <1>3, <1>6 DEF RowsTyped
<1>8. tokens'[s] \in [Rotations(s) -> TokenStates]
  <2>1. tokens[s] \in [Rotations(s) -> TokenStates] BY <1>1 DEF Chain
  <2>2. \A k \in Rotations(s) : tokens'[s][k] \in TokenStates BY <1>5, <2>1 DEF TokenStates
  <2>3. DOMAIN tokens'[s] = Rotations(s) /\ tokens'[s] = [k \in Rotations(s) |-> tokens'[s][k]]
    BY <1>4
  <2> QED BY <2>2, <2>3
<1>9. PICK arrives \in BOOLEAN :
          held' = [held EXCEPT ![s] = IF arrives THEN held[s] \cup {n + 1} ELSE held[s]]
  BY <1>1 DEF Rotate, RowsTyped
<1>10. /\ \A x \in SessionIds \ {s} : held'[x] = held[x]
       /\ held'[s] \subseteq held[s] \cup {n + 1}
       /\ held' \in [SessionIds -> SUBSET Nat]
  BY <1>1, <1>9 DEF RowsTyped
<1>11. Chain(s)'
  <2>1. n + 1 \in Rotations(s) BY <1>1 DEF Rotations
  <2>2. \A k \in Rotations(s) : k \in Nat BY DEF Rotations
  <2>3. \A k \in Rotations(s) :
           /\ tokens[s][k] = "current" <=> k = n
           /\ tokens[s][k] = "none" <=> k > n
           /\ k \in held[s] => k <= n
    BY <1>1, <1>6 DEF Chain
  <2>4. \A k \in Rotations(s) :
           /\ tokens'[s][k] = "current" <=> k = n + 1
           /\ tokens'[s][k] = "replay" => k = n
           /\ tokens'[s][k] = "none" <=> k > n + 1
           /\ k \in held'[s] => k <= n + 1
    <3> SUFFICES ASSUME NEW k \in Rotations(s)
                 PROVE  /\ tokens'[s][k] = "current" <=> k = n + 1
                        /\ tokens'[s][k] = "replay" => k = n
                        /\ tokens'[s][k] = "none" <=> k > n + 1
                        /\ k \in held'[s] => k <= n + 1
      OBVIOUS
    <3>1. k \in Nat /\ n \in Nat BY <1>1, <2>2
    <3>2. k \in held'[s] => k <= n + 1 BY <3>1, <1>10, <2>3
    <3>3. CASE k = n BY <3>1, <3>2, <3>3, <1>5
    <3>4. CASE k = n + 1 BY <3>1, <3>2, <3>4, <1>5
    <3>5. CASE k # n /\ k # n + 1
      <4>1. tokens'[s][k] = IF tokens[s][k] = "replay" THEN "spent" ELSE tokens[s][k]
        BY <3>5, <1>5
      <4>2. tokens[s][k] # "current" /\ (tokens[s][k] = "none" <=> k > n) BY <3>5, <2>3
      <4> QED BY <3>1, <3>2, <3>5, <4>1, <4>2
    <3> QED BY <3>3, <3>4, <3>5
  <2>5. held[s] \subseteq Rotations(s) BY <1>1 DEF Chain
  <2>6. held'[s] \subseteq Rotations(s) BY <1>10, <2>1, <2>5
  <2>7. n + 1 \in 0..MaxRotations[s] /\ n + 1 > 0
    BY <2>1, <1>1, SessionsAssumption DEF Rotations
  <2>8. sessions'[s].live /\ sessions'[s].current = n + 1 BY <1>6
  <2>9. (n + 1) - 1 = n BY <2>1, <1>1 DEF Rotations
  <2> QED BY <1>8, <2>4, <2>6, <2>7, <2>8, <2>9 DEF Chain
<1>12. \A x \in SessionIds : Chain(x)'
  <2>1. \A x \in SessionIds \ {s} : Chain(x)' BY <1>3, <1>10 DEF SessionInv, Chain
  <2> QED BY <1>11, <2>1
<1>13. \A x \in SessionIds : OfVersion(x)' /\ Commanded(x)'
  <2>1. ASSUME NEW x \in SessionIds
        PROVE  /\ sessions'[x].live = sessions[x].live /\ sessions'[x].revoked = sessions[x].revoked
               /\ sessions'[x].version = sessions[x].version /\ sessions'[x].born = sessions[x].born
    BY <1>3, <1>6
  <2> QED BY <1>2, <2>1 DEF SessionInv, OfVersion, Commanded, Live
<1>14. calls' \in [SessionClients -> AtRest \cup AtRefresh] /\ \A q \in SessionClients : ReadBefore(q)'
  <2>1. \A k \in Rotations(s) : tokens[s][k] \in Consumed => k # n + 1
    BY <1>1 DEF Chain, Rotations, Consumed
  <2>2. \A x \in SessionIds : \A k \in Rotations(x) :
           /\ tokens[x][k] # "none" => tokens'[x][k] # "none"
           /\ tokens[x][k] \in Consumed => tokens'[x][k] \in Consumed
    BY <1>3, <1>5, <2>1 DEF Consumed
  <2>3. Answer(r, "idle") BY DEF Rotate
  <2> QED BY <2>2, <2>3, Answering, ReadKept
<1> QED BY <1>1, <1>2, <1>3, <1>7, <1>10, <1>12, <1>13, <1>14 DEF SessionInv, RowsTyped

LEMMA GraceSession ==
    ASSUME SessionInv, NEW s \in SessionIds, GraceEnds(s) PROVE SessionInv'
<1>1. PICK n \in Rotations(s) : /\ tokens[s][n] = "replay"
                                /\ tokens' = [tokens EXCEPT ![s][n] = "spent"]
  BY DEF GraceEnds
<1>2. RowsTyped /\ Chain(s) /\ UNCHANGED <<account, sessions, held, throttle, commands, calls>>
  BY DEF SessionInv, GraceEnds
<1>3. tokens' = [tokens EXCEPT ![s] = [tokens[s] EXCEPT ![n] = "spent"]] BY <1>1, <1>2 DEF RowsTyped
<1>4. /\ \A x \in SessionIds \ {s} : tokens'[x] = tokens[x]
      /\ tokens'[s] = [tokens[s] EXCEPT ![n] = "spent"]
      /\ tokens' = [x \in SessionIds |-> tokens'[x]]
  BY <1>2, <1>3 DEF RowsTyped
<1>5. /\ tokens'[s] \in [Rotations(s) -> TokenStates]
      /\ \A k \in Rotations(s) : tokens'[s][k] = IF k = n THEN "spent" ELSE tokens[s][k]
  BY <1>2, <1>4 DEF Chain, TokenStates
<1>6. Chain(s)' BY <1>1, <1>2, <1>5 DEF Chain
<1>7. \A x \in SessionIds \ {s} : Chain(x)' BY <1>2, <1>4 DEF SessionInv, Chain
<1>8. \A x \in SessionIds : OfVersion(x)' /\ Commanded(x)'
  BY <1>2 DEF SessionInv, OfVersion, Commanded, Live
<1>9. \A q \in SessionClients : ReadBefore(q)'
  <2>1. \A x \in SessionIds : \A k \in Rotations(x) :
           /\ tokens[x][k] # "none" => tokens'[x][k] # "none"
           /\ tokens[x][k] \in Consumed => tokens'[x][k] \in Consumed
    BY <1>4, <1>5 DEF Consumed
  <2> QED BY <1>2, <2>1, ReadKept
<1> QED BY <1>2, <1>4, <1>6, <1>7, <1>8, <1>9 DEF SessionInv, RowsTyped

\* a change of the account revokes every session that lives
LEMMA TransitionSession ==
    ASSUME SessionInv, NEW status \in {"active", "pending_delete"}, NEW reason \in Reasons,
           Transition(status, reason)
    PROVE  SessionInv'
<1> DEFINE v == account.version + 1
<1>1. /\ RowsTyped /\ v \in Nat /\ v \in 1..MaxTransitions
      /\ UNCHANGED <<tokens, held, throttle, calls>>
  BY SessionsAssumption DEF SessionInv, Transition, RowsTyped, AccountRow
<1>2. /\ account' \in AccountRow /\ account'.version = v
      /\ commands' = commands \cup {WholeAccount}
  <2>1. /\ account' = [status |-> status, version |-> v, cutoffs |-> account.cutoffs + 1]
        /\ commands' = commands \cup {WholeAccount}
    BY DEF Transition, RevokeAccountSessions
  <2>2. account.cutoffs + 1 \in Nat BY <1>1 DEF RowsTyped, AccountRow
  <2> HIDE DEF v
  <2> QED BY <1>1, <2>1, <2>2 DEF AccountRow
<1>3. /\ sessions' = [s \in SessionIds |->
                         IF s \in Live THEN [sessions[s] EXCEPT !.revoked = reason, !.version = v]
                         ELSE sessions[s]]
  BY DEF Transition, RevokeAccountSessions
<1> HIDE DEF v
<1>4. ASSUME NEW s \in SessionIds
      PROVE  /\ sessions'[s] \in SessionRow
             /\ sessions'[s].live = sessions[s].live /\ sessions'[s].current = sessions[s].current
             /\ sessions'[s].revoked = IF s \in Live THEN reason ELSE sessions[s].revoked
  BY <1>1, <1>3 DEF RowsTyped, SessionRow
<1>5. reason # "no" BY DEF Reasons
<1>6. ASSUME NEW s \in SessionIds PROVE Chain(s)' /\ OfVersion(s)' /\ Commanded(s)'
  <2>1. Chain(s) /\ OfVersion(s) /\ Commanded(s) BY DEF SessionInv
  <2>2. Chain(s)' BY <1>1, <1>4, <2>1 DEF Chain, Live
  <2>3. OfVersion(s)' BY <1>4, <1>5 DEF OfVersion, Live
  <2>4. Commanded(s)' BY <1>2, <1>4, <2>1 DEF Commanded, Reasons
  <2> QED BY <2>2, <2>3, <2>4
<1>7. \A q \in SessionClients : ReadBefore(q)' BY <1>1, ReadKept
<1>8. sessions' \in [SessionIds -> SessionRow] BY <1>3, <1>4
<1> QED BY <1>1, <1>2, <1>6, <1>7, <1>8 DEF SessionInv, RowsTyped

LEMMA RevokeSessionKeeps ==
    ASSUME SessionInv, NEW s \in SessionIds, RevokeSession(s) PROVE SessionInv'
<1>1. /\ s \in Live /\ RevokeOne(s, "logout") /\ RowsTyped
      /\ UNCHANGED <<account, tokens, held, throttle, calls>>
  BY DEF RevokeSession, SessionInv
<1>2. \A x \in SessionIds : Chain(x)' /\ OfVersion(x)' /\ Commanded(x)' BY <1>1, Revoked
<1>3. \A q \in SessionClients : ReadBefore(q)' BY <1>1, ReadKept
<1> QED BY <1>1, <1>2, <1>3, Revoking DEF SessionInv, RowsTyped

\* the step relation by what its steps write
LEMMA SessionSteps ==
    ASSUME SessionNext
    PROVE  \/ QuietStep
           \/ \E r \in SessionClients, s \in SessionIds : LoginSucceeds(r, s)
           \/ \E r \in SessionClients : Replay(r) \/ ReuseDetected(r) \/ Rotate(r)
           \/ \E s \in SessionIds : GraceEnds(s) \/ RevokeSession(s)
           \/ \E status \in {"active", "pending_delete"}, reason \in Reasons :
                 Transition(status, reason)
BY DEF SessionNext, QuietStep, ChangePassword, ChangeAuthority, DeleteAccount, RevokeAll, Reasons

LEMMA SessionStep == SessionInv /\ [SessionNext]_sessionVars => SessionInv'
<1> SUFFICES ASSUME SessionInv, [SessionNext]_sessionVars PROVE SessionInv' OBVIOUS
<1>1. CASE UNCHANGED sessionVars
  BY <1>1 DEF sessionVars, SessionInv, RowsTyped, Chain, OfVersion, Commanded, ReadBefore, Live
<1>2. CASE SessionNext
  BY <1>2, SessionSteps, QuietSession, LoginSession, ReplaySession, ReuseSession, RotateSession,
     GraceSession, RevokeSessionKeeps, TransitionSession
<1> QED BY <1>1, <1>2

LEMMA SessionAlways == SessionSpec => []SessionInv
BY InitSession, SessionStep, PTL DEF SessionSpec

-----------------------------------------------------------------------------
(* Theorems *)

\* The refresh tokens of a session form one chain whose last one is current, a
\* session outlives no change that must end it whatever logins and refreshes were
\* under way, and what ended it left the command that ends its generations
\* (IdentityService: refresh, login, _revoke_session_in_transaction,
\* _revoke_account_sessions_in_transaction)
THEOREM Safe == SessionSpec => []SessionsSafe
<1>1. SessionInv => SessionsSafe
  <2> SUFFICES ASSUME SessionInv PROVE SessionsSafe OBVIOUS
  <2>1. SessionTypeOK
    BY DEF SessionInv, RowsTyped, AccountRow, ThrottleRow, Chain, SessionTypeOK
  <2>2. TokenChain
    <3> SUFFICES ASSUME NEW s \in SessionIds, sessions[s].live
                 PROVE  /\ {n \in Rotations(s) : tokens[s][n] = "current"} = {sessions[s].current}
                        /\ \A n \in Rotations(s) :
                              tokens[s][n] = "replay" => n = sessions[s].current - 1
                        /\ \A n \in held[s] : n <= sessions[s].current /\ tokens[s][n] # "none"
      BY DEF TokenChain
    <3>1. Chain(s) /\ MaxRotations[s] \in Nat BY SessionsAssumption DEF SessionInv
    <3>2. sessions[s].current \in Rotations(s) BY <3>1 DEF Chain, Rotations
    <3>3. \A n \in held[s] : n \in Rotations(s) /\ n \in Nat BY <3>1 DEF Chain, Rotations
    <3> QED BY <3>1, <3>2, <3>3 DEF Chain
  <2>3. CutOff BY DEF SessionInv, OfVersion, CutOff, Usable, Refreshable
  <2>4. EndsGenerations BY DEF SessionInv, RowsTyped, SessionRow, Commanded, EndsGenerations, Reasons
  <2> QED BY <2>1, <2>2, <2>3, <2>4 DEF SessionsSafe
<1> QED BY <1>1, SessionAlways, PTL

\* A refresh token older than the predecessor of the current one ends its
\* session when it is presented again, whatever was rotated between the read of
\* the token and the lock of the session, and a refused refresh changes nothing
\* (IdentityService.refresh)
THEOREM Reuse == SessionSpec => ReuseRevokes
<1>1. SessionInv /\ [SessionNext]_sessionVars =>
        [\A r \in SessionClients :
            calls[r].at = "refresh" /\ calls'[r] # calls[r] =>
              /\ (Refreshable(r) /\ calls[r].token \in Consumed
                    /\ calls[r].n < sessions[calls[r].s].current - 1)
                    => sessions'[calls[r].s].revoked = "reuse"
              /\ calls'[r].at = "invalid_refresh" =>
                    UNCHANGED <<sessions, tokens, held, commands>>]_sessionVars
  <2> SUFFICES ASSUME SessionInv, SessionNext, NEW r \in SessionClients,
                      calls[r].at = "refresh", calls'[r] # calls[r]
               PROVE  /\ (Refreshable(r) /\ calls[r].token \in Consumed
                            /\ calls[r].n < sessions[calls[r].s].current - 1)
                            => sessions'[calls[r].s].revoked = "reuse"
                      /\ calls'[r].at = "invalid_refresh" =>
                            UNCHANGED <<sessions, tokens, held, commands>>
    OBVIOUS
  <2>1. ASSUME NEW q \in SessionClients, q # r, NEW c PROVE calls' # [calls EXCEPT ![q] = c]
    BY <2>1, CallsKept
  <2>2. ~QuietStep \/ RefreshRefused(r)
    BY <2>1 DEF QuietStep, LoginBegin, LoginFails, RefreshRefused, RefreshRead, ThrottleExpires,
                Answer, Quiet
  <2>3. \A s \in SessionIds : ~(GraceEnds(s) \/ RevokeSession(s)) BY DEF GraceEnds, RevokeSession
  <2>4. \A status, reason : ~Transition(status, reason) BY DEF Transition
  <2>5. \A q \in SessionClients, s \in SessionIds : ~LoginSucceeds(q, s)
    BY <2>1 DEF LoginSucceeds, Answer
  <2>6. RefreshRefused(r) \/ Replay(r) \/ ReuseDetected(r) \/ Rotate(r)
    <3>1. \A q \in SessionClients :
             Replay(q) \/ ReuseDetected(q) \/ Rotate(q) => Answer(q, "idle")
      BY DEF Replay, ReuseDetected, Rotate
    <3>2. \A q \in SessionClients : Answer(q, "idle") => q = r BY <2>1 DEF Answer
    <3> QED BY <2>2, <2>3, <2>4, <2>5, <3>1, <3>2, SessionSteps
  <2>7. /\ calls[r].s \in SessionIds /\ sessions[calls[r].s].current \in Nat /\ calls[r].n \in Nat
      BY Refreshing
  <2>8. \A what \in {"idle", "login", "invalid_refresh"} : Answer(r, what) => calls'[r].at = what
    BY Answering
  <2>9. CASE RefreshRefused(r) BY <2>7, <2>9 DEF RefreshRefused, Consumed
  <2>10. CASE ReuseDetected(r)
    <3>1. calls[r].s \in Live /\ RevokeOne(calls[r].s, "reuse")
      BY <2>10 DEF ReuseDetected, Refreshable
    <3>2. sessions'[calls[r].s].revoked = "reuse" BY <3>1, Revoking
    <3> QED BY <2>8, <2>10, <3>2 DEF ReuseDetected
  <2>11. CASE Replay(r) BY <2>7, <2>8, <2>11 DEF Replay
  <2>12. CASE Rotate(r) BY <2>8, <2>12 DEF Rotate, Rotates, Consumed
  <2> QED BY <2>6, <2>9, <2>10, <2>11, <2>12
<1> QED BY <1>1, SessionAlways, PTL DEF SessionSpec, ReuseRevokes

=============================================================================

---------------------------- MODULE ChatRequests ----------------------------
(***************************************************************************)
(* The requests that create generations: asking in a conversation, asking  *)
(* with POST /chat (which creates its conversation), retrying a failed     *)
(* generation, and the permanent feedback on an answer (app/chat           *)
(* generation.py), with the deletion of a conversation (conversations.py). *)
(* An ask looks its key up, counts the running generations and reads its   *)
(* conversation without a lock, and writes later in the same transaction:  *)
(* it is two steps here, and so is a retry, which holds the row of the     *)
(* failed generation from the first to the second.  A generation's own     *)
(* life is the subject of ChatGeneration; here it ends as it likes.        *)
(***************************************************************************)
EXTENDS Naturals, Sequences, FiniteSets

CONSTANTS
    Clients,         \* the tabs of one user
    Conversations,   \* identities of conversations
    Keys, Bodies,    \* idempotency keys and request contents
    AutoTalk,        \* the target of a key given with POST /chat
    MaxGenerations,  \* bound: generations ever created
    RunningLimit,    \* max_running_per_user
    AskLimit,        \* ask_rate_limit_per_minute
    MaxProfile       \* bound: deployments of a retrieval profile

ASSUME RequestsAssumption == AutoTalk \notin Conversations

VARIABLES
    talks,     \* conversation -> "unused", "live" or "deleted"
    asked,     \* the generations, in the order of their creation
    answered,  \* the rows of chat_idempotency
    handling,  \* the transactions between their reads and their writes
    opinions,  \* the feedback rows: <<generation, vote>>
    deployed   \* the deployed retrieval profile

requestVars == <<talks, asked, answered, handling, opinions, deployed>>

Asked == DOMAIN asked
Alive(g) == g \in Asked /\ ~asked[g].gone
\* A requested stop leaves a generation running for these requests.
Running == {g \in Asked : Alive(g) /\ asked[g].status = "running"}
Recent == {g \in Asked : Alive(g) /\ asked[g].recent}
Retries(g) == {h \in Asked : Alive(h) /\ asked[h].parent = g}
Found(kind, target, key) ==
    {r \in answered : r.kind = kind /\ r.target = target /\ r.key = key}

\* The primary key of chat_idempotency: a second row for the same key fails,
\* and the transaction with it.
Recordable(kind, target, key) == Found(kind, target, key) = {}
Record(kind, target, key, body, response) ==
    answered' = answered \cup
        {[kind |-> kind, target |-> target, key |-> key, body |-> body, response |-> response]}

IdleTab(c) == \A r \in handling : r.by # c
\* The row of the failed generation is held until its retry has committed.
RetryHeld(g) == \E r \in handling : r.kind = "retry" /\ r.target = g

UnderLimits == Cardinality(Running) < RunningLimit

AskingInit ==
    /\ talks = [t \in Conversations |-> "unused"]
    /\ asked = << >>
    /\ answered = {}
    /\ handling = {}
    /\ opinions = {}
    /\ deployed = 1

-----------------------------------------------------------------------------
(* Asking *)

CreateConversation(t) ==
    /\ talks[t] = "unused"
    /\ talks' = [talks EXCEPT ![t] = "live"]
    /\ UNCHANGED <<asked, answered, handling, opinions, deployed>>

BeginAsk(c, target, key, body) ==
    /\ IdleTab(c)
    /\ target # AutoTalk => talks[target] = "live"
    /\ Recordable("ask", target, key)
    /\ Cardinality(Recent) < AskLimit
    /\ UnderLimits
    /\ handling' = handling \cup
           {[by |-> c, kind |-> "ask", target |-> target, key |-> key, body |-> body]}
    /\ UNCHANGED <<talks, asked, answered, opinions, deployed>>

\* A new question is its own root; a retry repeats its parent's question in
\* its parent's conversation, and draws no second pair for the same root.
Question(talk, body, pair) ==
    [talk |-> talk, parent |-> 0, root |-> Len(asked) + 1, attempt |-> 1, body |-> body,
     status |-> "running", pair |-> pair, profile |-> deployed, recent |-> TRUE, gone |-> FALSE]

Paired(root) == \E g \in Asked : asked[g].root = root /\ asked[g].pair # "none"
MutantMayPair(root) == TRUE
MayPair(root) == ~Paired(root)
Repeat(g, pair) ==
    [asked[g] EXCEPT !.parent = g, !.attempt = @ + 1, !.status = "running", !.pair = pair,
                     !.profile = deployed, !.recent = TRUE]

CreateGeneration(generation) ==
    /\ Len(asked) < MaxGenerations
    /\ asked' = Append(asked, generation)

\* The conversation of POST /chat is created with the generation; an existing
\* one may have been deleted since it was read, and the foreign key then fails.
CommitAsk(r) ==
    /\ r.kind = "ask"
    /\ Recordable("ask", r.target, r.key)
    /\ \E talk \in Conversations, pair \in {"none", "open"} :
           /\ IF r.target = AutoTalk
              THEN talks[talk] = "unused"
              ELSE talk = r.target /\ talks[talk] = "live"
           /\ talks' = [talks EXCEPT ![talk] = "live"]
           /\ CreateGeneration(Question(talk, r.body, pair))
    /\ Record("ask", r.target, r.key, r.body, Len(asked) + 1)
    /\ handling' = handling \ {r}
    /\ UNCHANGED <<opinions, deployed>>

\* A unique key, a foreign key or the connection fails: nothing is written.
RollBack(r) ==
    /\ handling' = handling \ {r}
    /\ UNCHANGED <<talks, asked, answered, opinions, deployed>>

-----------------------------------------------------------------------------
(* Retrying *)

Retryable(g) == Alive(g) /\ asked[g].status = "failed"
\* The retrieval profile of the failed attempt must still be the deployed one.
\* The refusal of a scope the user has lost changes nothing and is left out.
PreconditionsHold(g) == asked[g].profile = deployed

BeginRetry(c, g, key) ==
    /\ IdleTab(c)
    /\ Retryable(g)
    /\ ~RetryHeld(g)
    /\ Retries(g) = {}
    /\ Recordable("retry", g, key)
    /\ UnderLimits
    /\ PreconditionsHold(g)
    /\ handling' = handling \cup
           {[by |-> c, kind |-> "retry", target |-> g, key |-> key, body |-> asked[g].body]}
    /\ UNCHANGED <<talks, asked, answered, opinions, deployed>>

CommitRetry(r) ==
    /\ r.kind = "retry"
    /\ \E pair \in {"none", "open"} :
           /\ pair = "open" => MayPair(asked[r.target].root)
           /\ CreateGeneration(Repeat(r.target, pair))
    /\ Record("retry", r.target, r.key, r.body, Len(asked) + 1)
    /\ handling' = handling \ {r}
    /\ UNCHANGED <<talks, opinions, deployed>>

\* Another key for a generation that has its retry is given that retry.
RetryAgain(g, key) ==
    /\ Retryable(g)
    /\ ~RetryHeld(g)
    /\ Recordable("retry", g, key)
    /\ \E h \in Retries(g) : Record("retry", g, key, asked[g].body, h)
    /\ UNCHANGED <<talks, asked, handling, opinions, deployed>>

-----------------------------------------------------------------------------
(* Votes, feedback, deletion, and what goes on around the requests *)

Vote(g, choice) ==
    /\ Alive(g)
    /\ asked[g].status = "completed"
    /\ asked[g].pair = "open"
    /\ asked' = [asked EXCEPT ![g].pair = choice]
    /\ UNCHANGED <<talks, answered, handling, opinions, deployed>>

\* The two answers of a pair take feedback only after a vote for one of them.
TakesFeedback(g) == asked[g].pair \in {"none", "chosen"}

\* A second submission is replayed or refused by its key: it changes nothing.
SubmitFeedback(g, vote) ==
    /\ Alive(g)
    /\ TakesFeedback(g)
    /\ \A o \in opinions : o[1] # g
    /\ opinions' = opinions \cup {<<g, vote>>}
    /\ UNCHANGED <<talks, asked, answered, handling, deployed>>

\* The generations and their feedback go with the conversation; the rows of
\* chat_idempotency, which refer to nothing, stay.
DeleteConversation(t) ==
    /\ talks[t] = "live"
    /\ \A g \in Asked : asked[g].talk = t => ~RetryHeld(g)
    /\ talks' = [talks EXCEPT ![t] = "deleted"]
    /\ asked' = [g \in Asked |-> [asked[g] EXCEPT !.gone = @ \/ asked[g].talk = t]]
    /\ opinions' = {o \in opinions : asked[o[1]].talk # t}
    /\ UNCHANGED <<answered, handling, deployed>>

\* The worker ends the generation.
EndGeneration(g, status) ==
    /\ Alive(g)
    /\ asked[g].status = "running"
    /\ asked' = [asked EXCEPT ![g].status = status]
    /\ UNCHANGED <<talks, answered, handling, opinions, deployed>>

MinutePasses ==
    /\ Recent # {}
    /\ asked' = [g \in Asked |-> [asked[g] EXCEPT !.recent = FALSE]]
    /\ UNCHANGED <<talks, answered, handling, opinions, deployed>>

\* A deployment with another profile restarts the service.
Deploy ==
    /\ deployed < MaxProfile
    /\ deployed' = deployed + 1
    /\ handling' = {}
    /\ UNCHANGED <<talks, asked, answered, opinions>>

AskingNext ==
    \/ \E c \in Clients, t \in Conversations \cup {AutoTalk}, k \in Keys, b \in Bodies :
           BeginAsk(c, t, k, b)
    \/ \E c \in Clients, g \in Asked, k \in Keys : BeginRetry(c, g, k)
    \/ \E r \in handling : CommitAsk(r) \/ CommitRetry(r) \/ RollBack(r)
    \/ \E g \in Asked, k \in Keys : RetryAgain(g, k)
    \/ \E g \in Asked, choice \in {"chosen", "neither"} : Vote(g, choice)
    \/ \E g \in Asked, v \in Bodies : SubmitFeedback(g, v)
    \/ \E t \in Conversations : CreateConversation(t) \/ DeleteConversation(t)
    \/ \E g \in Asked, s \in {"completed", "failed"} : EndGeneration(g, s)
    \/ MinutePasses
    \/ Deploy

-----------------------------------------------------------------------------
(* Properties *)

GenerationRow ==
    [talk : Conversations, parent : Nat, root : Nat, attempt : Nat, body : Bodies,
     status : {"running", "completed", "failed"}, pair : {"none", "open", "chosen", "neither"},
     profile : Nat, recent : BOOLEAN, gone : BOOLEAN]

\* An ask has a conversation for its target, a retry a generation
Targeted(r) ==
    /\ r.kind \in {"ask", "retry"} /\ r.key \in Keys /\ r.body \in Bodies
    /\ r.kind = "ask" => r.target \in Conversations \cup {AutoTalk}
    /\ r.kind = "retry" => r.target \in Asked

RequestsTypeOK ==
    /\ talks \in [Conversations -> {"unused", "live", "deleted"}]
    /\ asked \in Seq(GenerationRow)
    /\ \A r \in answered : Targeted(r) /\ r.response \in Asked
    /\ \A r \in handling : Targeted(r) /\ r.by \in Clients
    /\ \A o \in opinions : o = <<o[1], o[2]>> /\ o[1] \in Asked /\ o[2] \in Bodies
    /\ deployed \in Nat

\* One request, one answer: the asks with one target and key have created one
\* generation, whatever the interleaving of the transactions that raced for it,
\* and a key leads to a generation of the body it was used with.
OneAnswerPerKey ==
    /\ \A r, s \in answered :
           /\ (r.kind = "ask" /\ s.kind = "ask" /\ r.response = s.response) => r = s
           /\ (r.kind = s.kind /\ r.target = s.target /\ r.key = s.key) => r = s
    /\ \A r \in answered : asked[r.response].body = r.body
    /\ \A g \in Asked : \E r \in answered : r.response = g

\* The attempts at one question form one line: a failed attempt has one direct
\* retry at most, every retry follows a failed attempt of the same question, in
\* the same conversation and under the same profile, and its key points at it.
AttemptsFormALine ==
    /\ \A g \in Asked : Cardinality({h \in Asked : asked[h].parent = g}) <= 1
    /\ \A g \in Asked : asked[g].parent # 0 =>
           LET p == asked[asked[g].parent] IN
           /\ p.status = "failed"
           /\ asked[g].root = p.root /\ asked[g].body = p.body
           /\ asked[g].talk = p.talk /\ asked[g].gone = p.gone
           /\ asked[g].attempt = p.attempt + 1
           /\ asked[g].profile = p.profile
    /\ \A r \in answered : r.kind = "retry" => asked[r.response].parent = r.target

\* A question is sampled for calibration once, however often it is retried.
OneSamplePerQuestion ==
    \A g, h \in Asked :
        g # h /\ asked[g].root = asked[h].root => "none" \in {asked[g].pair, asked[h].pair}

\* Feedback is given once to an answer, never to one whose pair was not decided
\* for an answer, and it does not outlive the conversation.
FeedbackIsEarned ==
    /\ \A o, p \in opinions : o[1] = p[1] => o = p
    /\ \A o \in opinions : Alive(o[1]) /\ TakesFeedback(o[1])

\* No generation is left without its conversation.
NoOrphans == \A g \in Asked : Alive(g) <=> talks[asked[g].talk] = "live"

\* What the rows of a conversation owe each other, whichever requests raced
RequestsSafe ==
    /\ RequestsTypeOK
    /\ OneAnswerPerKey
    /\ AttemptsFormALine
    /\ OneSamplePerQuestion
    /\ FeedbackIsEarned
    /\ NoOrphans

\* The number of running generations of a user stays within max_running_per_user.
WithinRunningLimit == Cardinality(Running) <= RunningLimit
=============================================================================

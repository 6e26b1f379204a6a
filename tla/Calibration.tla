------------------------------ MODULE Calibration ------------------------------
(***************************************************************************)
(* Calibration windows and the A/B pairs sampled in them.  Evaluation owns *)
(* the window, chat owns the pair: a question asked while a window is open *)
(* may be answered twice, its asker picks one answer, the vote is counted  *)
(* in the window, and enough votes let the space adopt a default.  The     *)
(* transactions meet on two row locks, the window's and the pair's, and    *)
(* each is one step; only opening a window reads before it writes.         *)
(***************************************************************************)
EXTENDS Integers, FiniteSets

CONSTANTS
    CalibrationWindows, \* bound: windows, numbered in the order they open
    AbPairs,            \* bound: questions that are sampled
    AbConfigs,          \* candidate configurations
    CalibrationOps,     \* operators
    MinVotes            \* MIN_EFFECTIVE_AB_VOTES_FOR_DEFAULT

ASSUME CalibrationAssumption ==
    /\ CalibrationWindows \subseteq Nat \ {0} /\ IsFiniteSet(CalibrationWindows)
    /\ AbPairs \subseteq Nat /\ IsFiniteSet(AbPairs)
    /\ MinVotes \in Nat

VARIABLES
    window,     \* calibration_window; due: close_deadline_at_utc has passed
    pair,       \* chat_ab_pair; late: its own expires_at_utc has passed; the choice of
                \* a pair that is deleted stays as a record of what was counted
    opening,    \* open_window between its reads and its insert
    ladder,     \* the configuration the last run would have adopted, or none
    default     \* evaluation_active_default

calibrationVars == <<window, pair, opening, ladder, default>>

Votable == {"open", "pending"}
AbChoices == {"0", "1", "neither"}
NoWindow == [status |-> "none", due |-> FALSE, collected |-> 0]
NoPair == [status |-> "none", window |-> 0, running |-> FALSE, late |-> FALSE, choice |-> "none"]
With(s) == {w \in CalibrationWindows : window[w].status = s}
PairsOf(w, S) == {p \in AbPairs : pair[p].window = w /\ pair[p].status \in S}
VotesCast(w) == {p \in AbPairs : pair[p].window = w /\ pair[p].choice # "none"}

-----------------------------------------------------------------------------
(* Windows *)

\* open_window reads that no window is open or closing, and asks Evaluation for the
\* actionable suggestion that a cold start and a sentinel need ...
CheckOpen(o, kind, suggested) ==
    /\ ~opening[o]
    /\ With("open") = {} /\ With("closing") = {}
    /\ kind \in {"cold_start", "sentinel"} => suggested
    /\ opening' = [opening EXCEPT ![o] = TRUE]
    /\ UNCHANGED <<window, pair, ladder, default>>

\* uq_calibration_window_single_open
SingleOpen == With("open") = {}

\* ... and inserts, under the unique index on the one open window
OpenWindow(o, w) ==
    /\ opening[o]
    /\ opening' = [opening EXCEPT ![o] = FALSE]
    /\ \A v \in CalibrationWindows : (window[v].status = "none") <=> (v >= w)
    /\ window' = IF SingleOpen THEN [window EXCEPT ![w].status = "open"] ELSE window
    /\ UNCHANGED <<pair, ladder, default>>

CloseWindow(w) ==
    /\ window[w].status = "open"
    /\ window' = [window EXCEPT ![w].status = "closing"]
    /\ UNCHANGED <<pair, opening, ladder, default>>

DeadlinePasses(w) ==
    /\ window[w].status = "closing" /\ ~window[w].due
    /\ window' = [window EXCEPT ![w].due = TRUE]
    /\ UNCHANGED <<pair, opening, ladder, default>>

\* CalibrationCloseWorker: past the deadline, or without a votable pair
CanFinalize(w) == window[w].due \/ PairsOf(w, Votable) = {}

\* get_closing_window: the newest closing one; expire_window_pairs, finalize_window
CloseTick ==
    LET w == CHOOSE v \in With("closing") : \A u \in With("closing") : u <= v IN
    /\ With("closing") # {}
    /\ CanFinalize(w)
    /\ window' = [window EXCEPT ![w].status = "closed"]
    /\ pair' = [p \in AbPairs |-> IF window[w].due /\ p \in PairsOf(w, Votable)
                                  THEN [pair[p] EXCEPT !.status = "expired"] ELSE pair[p]]
    /\ UNCHANGED <<opening, ladder, default>>

-----------------------------------------------------------------------------
(* Pairs *)

\* _create_generation: get_open_window locks the row until the pair is in
Sample(p, w) ==
    /\ \A q \in AbPairs : (pair[q].status = "none") <=> (q >= p)
    /\ window[w].status = "open"
    /\ pair' = [pair EXCEPT ![p] = [NoPair EXCEPT !.status = "pending", !.window = w, !.running = TRUE]]
    /\ UNCHANGED <<window, opening, ladder, default>>

TtlPasses(p) ==
    /\ pair[p].status \in Votable /\ ~pair[p].late
    /\ pair' = [pair EXCEPT ![p].late = TRUE]
    /\ UNCHANGED <<window, opening, ladder, default>>

\* _publish: two answers open the pair, whatever became of it since; near
\* duplicates and a single answer expire it
PublishPair(p, two) ==
    /\ pair[p].running
    /\ pair' = [pair EXCEPT ![p].running = FALSE, ![p].status = IF two THEN "open" ELSE "expired"]
    /\ UNCHANGED <<window, opening, ladder, default>>

\* _discard_unfinished_ab_pair of a generation that fails or stops
DiscardPair(p) ==
    /\ pair[p].running
    /\ pair' = [pair EXCEPT ![p].running = FALSE, ![p].status = "expired"]
    /\ UNCHANGED <<window, opening, ladder, default>>

\* _expire_past_deadline_pairs; a late vote is refused, and its own update of
\* the pair is undone with the rest of its transaction
SweepPair(p) ==
    /\ pair[p].status = "open" /\ pair[p].late
    /\ pair' = [pair EXCEPT ![p].status = "expired"]
    /\ UNCHANGED <<window, opening, ladder, default>>

\* delete_conversation: the pair goes with its generation, ON DELETE CASCADE, and
\* its vote with the pair; neither its window nor the default hears of it
DeletePair(p) ==
    /\ pair[p].status \notin {"none", "deleted"}
    /\ pair' = [pair EXCEPT ![p].status = "deleted", ![p].running = FALSE, ![p].late = FALSE]
    /\ UNCHANGED <<window, opening, ladder, default>>

\* count_effective_ab_votes
EffectiveVotes(ps) == {p \in AbPairs : ps[p].status = "voted" /\ ps[p].choice \in {"0", "1"}}

\* maybe_adopt_active_default
Adopted(ps) ==
    IF Cardinality(EffectiveVotes(ps)) >= MinVotes /\ ladder # "none" THEN ladder ELSE default

\* submit_ab_vote, under the pair's row lock; increment_pairs_collected
Vote(p, c) ==
    /\ pair[p].status = "open" /\ ~pair[p].late
    /\ pair' = [pair EXCEPT ![p].status = "voted", ![p].choice = c]
    /\ window' = [window EXCEPT ![pair[p].window].collected = @ + 1]
    /\ default' = IF c \in {"0", "1"} THEN Adopted(pair') ELSE default
    /\ UNCHANGED <<opening, ladder>>

\* what Evaluation tells: a run succeeded, with or without an eligible best
RunSucceeds(c) ==
    /\ ladder # c
    /\ ladder' = c
    /\ UNCHANGED <<window, pair, opening, default>>

-----------------------------------------------------------------------------
CalibrationInit ==
    /\ window = [w \in CalibrationWindows |-> NoWindow]
    /\ pair = [p \in AbPairs |-> NoPair]
    /\ opening = [o \in CalibrationOps |-> FALSE]
    /\ ladder = "none" /\ default = "none"

CalibrationNext ==
    \/ \E o \in CalibrationOps :
        \/ \E kind \in {"cold_start", "sentinel", "manual"}, suggested \in BOOLEAN :
              CheckOpen(o, kind, suggested)
        \/ \E w \in CalibrationWindows : OpenWindow(o, w)
    \/ \E w \in CalibrationWindows : CloseWindow(w) \/ DeadlinePasses(w)
    \/ CloseTick
    \/ \E p \in AbPairs :
        \/ \E w \in CalibrationWindows : Sample(p, w)
        \/ \E two \in BOOLEAN : PublishPair(p, two)
        \/ TtlPasses(p) \/ DiscardPair(p) \/ SweepPair(p) \/ DeletePair(p)
        \/ \E c \in AbChoices : Vote(p, c)
    \/ \E c \in AbConfigs \cup {"none"} : RunSucceeds(c)

\* A tick of ragqs-evaluation-maintenance closes windows; deadlines pass.
\* Nothing says that a generation ends or that anybody votes.
CalibrationFairness ==
    /\ WF_calibrationVars(CloseTick)
    /\ \A w \in CalibrationWindows : WF_calibrationVars(DeadlinePasses(w))

CalibrationSpec == CalibrationInit /\ [][CalibrationNext]_calibrationVars /\ CalibrationFairness

-----------------------------------------------------------------------------
CalibrationTypeOK ==
    /\ window \in [CalibrationWindows ->
         [status : {"none", "open", "closing", "closed"}, due : BOOLEAN,
          collected : 0..Cardinality(AbPairs)]]
    /\ pair \in [AbPairs ->
         [status : Votable \cup {"none", "voted", "expired", "deleted"}, window : CalibrationWindows \cup {0},
          running : BOOLEAN, late : BOOLEAN, choice : AbChoices \cup {"none"}]]
    /\ opening \in [CalibrationOps -> BOOLEAN]
    /\ ladder \in AbConfigs \cup {"none"} /\ default \in AbConfigs \cup {"none"}

\* At most one window is open (docs/operations.md 6.11), though two requests
\* may both have read that none is.
OneOpenWindow == Cardinality(With("open")) <= 1

\* A window has counted each vote on one of its pairs once, also when the vote
\* came while it closed; the deletion of a conversation takes the vote and not
\* its count.
VotesCounted == \A w \in CalibrationWindows : window[w].collected = Cardinality(VotesCast(w))

\* No question is sampled into a window that is not open: a pair still waiting
\* for its answers has not outlived its window.
ClosedTakesNoSample == \A w \in With("closed") : PairsOf(w, {"pending"}) = {}

\* The default changes only once MinVotes asked users preferred an answer; it
\* outlives their conversations.
Preferences == {p \in AbPairs : pair[p].choice \in {"0", "1"}}
DefaultIsEarned == default # "none" => Cardinality(Preferences) >= MinVotes

CalibrationSafe ==
    CalibrationTypeOK /\ OneOpenWindow /\ VotesCounted /\ ClosedTakesNoSample /\ DefaultIsEarned

\* A window that an operator closed does close, though a pair's generation may
\* never end and nobody may vote.
WindowsClose ==
    \A w \in CalibrationWindows : []<>(window[w].status # "closing")

\* At close, open pairs expire at the earlier of pair TTL and window deadline
\* (docs/operations.md 6.11): a closed window has no pair left to vote on.
ClosedIsSettled == \A w \in With("closed") : PairsOf(w, {"open"}) = {}
=============================================================================

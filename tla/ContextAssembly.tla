--------------------------- MODULE ContextAssembly ---------------------------
(***************************************************************************)
(* How a retrieval answer is put together from the ranked hits             *)
(* (RetrievalService._search_with_lease, after the threshold): a first     *)
(* pass in rank order under a quota of items per space, then the deferred  *)
(* hits fill the places left.  A hit enters with the text of its parent    *)
(* block, or with its own when the parent does not fit; tokens are counted *)
(* per space and in total, and a parent block enters once.  One hit is one *)
(* step.                                                                   *)
(***************************************************************************)
EXTENDS Integers, Sequences, FiniteSets, Functions

CONSTANTS
    Chunks,         \* records [space, parent, tokens, parentTokens]; parent "none" when it has none
    ScopeSpaces,    \* the spaces searched
    MaxHits,        \* bound: hits after the threshold
    TopK,           \* top_k
    ItemsPerSpace,  \* retrieval_context_items_per_space
    TokensPerSpace, \* retrieval_context_tokens_per_space
    TokensCap       \* retrieval_context_tokens_cap

ASSUME AssemblyAssumption ==
    /\ \A hit \in Chunks :
          hit.space \in ScopeSpaces /\ hit.tokens \in Nat /\ hit.parentTokens \in Nat
    /\ TopK \in Nat /\ ItemsPerSpace \in Nat /\ TokensPerSpace \in Nat /\ TokensCap \in Nat
    /\ MaxHits \in Nat

VARIABLES
    ranked,     \* hits not looked at yet
    deferred,   \* hits over their space's quota of items
    budgeted,   \* the hits taken, with the tokens each was charged
    counted,    \* selected_per_space, used_by_space and used_total
    breaches,   \* hard_gate_breaches
    pass        \* "first", "backfill", "done"

assemblyVars == <<ranked, deferred, budgeted, counted, breaches, pass>>

Fits(space, tokens) ==
    /\ counted.tokens[space] + tokens <= TokensPerSpace
    /\ counted.total + tokens <= TokensCap

\* parent_unit, folded
HasParent(hit) == hit.parent # "none"
AcceptedParents == {budgeted[i].hit.parent : i \in {j \in DOMAIN budgeted : budgeted[j].whole}}
Folded(hit) == HasParent(hit) /\ hit.parent \in AcceptedParents

\* include: what the hit is charged, or that it does not fit at all
Whole(hit) == HasParent(hit) /\ Fits(hit.space, hit.parentTokens)
Charge(hit) == IF Whole(hit) THEN hit.parentTokens ELSE hit.tokens
Included(hit) == Fits(hit.space, Charge(hit))
Take(hit, items) ==
    /\ budgeted' = Append(budgeted, [hit |-> hit, whole |-> Whole(hit),
                                   tokens |-> IF Whole(hit) THEN hit.parentTokens ELSE hit.tokens])
    /\ counted' = [items  |-> [counted.items EXCEPT ![hit.space] = @ + items],
                   tokens |-> [counted.tokens EXCEPT ![hit.space] = @ + Charge(hit)],
                   total  |-> counted.total + Charge(hit)]
    /\ UNCHANGED breaches
Drop(hit) ==
    /\ breaches' = breaches + (IF counted.total + Charge(hit) > TokensCap THEN 1 ELSE 0)
    /\ UNCHANGED <<budgeted, counted>>
Include(hit, items) == IF Included(hit) THEN Take(hit, items) ELSE Drop(hit)

\* The first pass
FirstPass ==
    /\ pass = "first" /\ ranked # << >>
    /\ LET hit == Head(ranked) IN
       \/ Folded(hit) /\ UNCHANGED <<deferred, budgeted, counted, breaches>>
       \/ /\ ~Folded(hit) /\ counted.items[hit.space] >= ItemsPerSpace
          /\ deferred' = Append(deferred, hit)
          /\ UNCHANGED <<budgeted, counted, breaches>>
       \/ /\ ~Folded(hit) /\ counted.items[hit.space] < ItemsPerSpace
          /\ Include(hit, 1)
          /\ UNCHANGED deferred
    /\ ranked' = Tail(ranked)
    /\ UNCHANGED pass

\* Only while some space of the scope has fewer items than its quota
PlacesLeft == \E s \in ScopeSpaces : counted.items[s] < ItemsPerSpace
EndFirstPass ==
    /\ pass = "first" /\ ranked = << >>
    /\ pass' = IF PlacesLeft THEN "backfill" ELSE "done"
    /\ UNCHANGED <<ranked, deferred, budgeted, counted, breaches>>

Backfill ==
    /\ pass = "backfill"
    /\ IF deferred = << >> \/ Len(budgeted) >= TopK
       THEN pass' = "done" /\ UNCHANGED <<deferred, budgeted, counted, breaches>>
       ELSE /\ LET hit == Head(deferred) IN
               IF Folded(hit) THEN UNCHANGED <<budgeted, counted, breaches>> ELSE Include(hit, 0)
            /\ deferred' = Tail(deferred)
            /\ UNCHANGED pass
    /\ UNCHANGED ranked

\* The answer is cut to top_k
ContextAnswer == SubSeq(budgeted, 1, IF Len(budgeted) < TopK THEN Len(budgeted) ELSE TopK)

AssemblyInit ==
    /\ ranked \in {h \in UNION {[1..n -> Chunks] : n \in 1..MaxHits} : IsInjective(h)}
    /\ deferred = << >> /\ budgeted = << >>
    /\ counted = [items |-> [s \in ScopeSpaces |-> 0], tokens |-> [s \in ScopeSpaces |-> 0], total |-> 0]
    /\ breaches = 0 /\ pass = "first"

AssemblyNext == FirstPass \/ EndFirstPass \/ Backfill

AssemblySpec == AssemblyInit /\ [][AssemblyNext]_assemblyVars

-----------------------------------------------------------------------------
(* Properties *)

AssemblyTypeOK ==
    /\ ranked \in Seq(Chunks) /\ deferred \in Seq(Chunks)
    /\ budgeted \in Seq([hit : Chunks, whole : BOOLEAN, tokens : Nat])
    /\ counted \in [items : [ScopeSpaces -> Nat], tokens : [ScopeSpaces -> Nat], total : Nat]
    /\ breaches \in Nat /\ pass \in {"first", "backfill", "done"}

\* The tokens of the texts at some places of the context, each of them counted
TextUnits(texts, places) == UNION {{i} \X (1..texts[i].tokens) : i \in places}
TokensOf(places) == Cardinality(TextUnits(budgeted, places))
In(space) == {i \in DOMAIN budgeted : budgeted[i].hit.space = space}

\* The prompt never exceeds what the generation was budgeted for: whatever
\* mixture of parent blocks, chunks that fell back to their own text, folded
\* siblings and backfilled hits, the texts in the answer stay within the cap
\* and each space within its share.
WithinBudget ==
    /\ TokensOf(DOMAIN budgeted) <= TokensCap
    /\ \A s \in ScopeSpaces : TokensOf(In(s)) <= TokensPerSpace
    /\ Len(ContextAnswer) <= TopK

\* A parent block is in the context once; no sibling repeats its text after it.
ParentsOnce ==
    \A i, j \in DOMAIN budgeted :
        budgeted[i].whole /\ i < j => budgeted[j].hit.parent # budgeted[i].hit.parent

\* A space goes over its quota of items only to fill a place another space
\* left, and not beyond top_k.
QuotaPerSpace ==
    (\E s \in ScopeSpaces : Cardinality(In(s)) > ItemsPerSpace) =>
        (\E s \in ScopeSpaces : counted.items[s] < ItemsPerSpace) /\ Len(budgeted) <= TopK

AssemblySafe == AssemblyTypeOK /\ WithinBudget /\ ParentsOnce /\ QuotaPerSpace

=============================================================================

----------------------------- MODULE MCAnswering -----------------------------
(* The answer to a question, for TLC: the session that asks it (Sessions),    *)
(* the generation that produces it (ChatGeneration), the budget it spends     *)
(* (Budget) and the prices its calls are charged at (Price), checked side by  *)
(* side: a behaviour moves one of the parts, the others stand.                *)
EXTENDS MCChatGeneration, Budget, Price, Sessions

VARIABLE part

MaxRag       == <<1, 3>>
MaxTokens    == <<3, 6>>
MaxCost      == <<3, 5>>
BudgetRounds == <<1, 2>>
\* Two sessions, refreshed twice and once
SessionRotations == <<3, 2>>

AnsweringInit ==
    /\ part \in {"generation", "budget", "prices", "sessions"}
    /\ Init /\ BudgetInit /\ PriceInit /\ SessionInit
    /\ part # "budget" => bgen.effort = 1

AnsweringNext ==
    /\ UNCHANGED part
    /\ \/ part = "generation" /\ Next /\ UNCHANGED <<budgetVars, priceVars, sessionVars>>
       \/ part = "budget" /\ BudgetNext /\ UNCHANGED <<vars, priceVars, sessionVars>>
       \/ part = "prices" /\ PriceNext /\ UNCHANGED <<vars, budgetVars, sessionVars>>
       \/ part = "sessions" /\ SessionNext /\ UNCHANGED <<vars, budgetVars, priceVars>>

AnsweringSpec ==
    AnsweringInit /\ [][AnsweringNext]_<<part, vars, budgetVars, priceVars, sessionVars>>

AnsweringSymmetry == Permutations(Workers) \cup Permutations(SessionClients)

-----------------------------------------------------------------------------
(* Properties of the parts, stated in their modules *)

\* What is spent stays within the budget (meters and reservations agree), and a
\* call is charged at the price in force when it was dispatched
SpendingKept ==
    /\ BudgetSafe
    /\ part = "prices" => PriceSafe

\* What was closed stays so: an exhausted budget admits nothing more, and a
\* refresh token used a second time ends its session
ClosedStaysClosed == BudgetStaysClosed /\ ReuseRevokes

=============================================================================

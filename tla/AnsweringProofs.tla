--------------------------- MODULE AnsweringProofs ---------------------------
(***************************************************************************)
(* Theorems about Budget for any efforts, limits, estimates and            *)
(* executions, about Price for any calls, meters and versions, and about   *)
(* what a question sets going together: its generation, its budget, the    *)
(* prices of its calls and the session that asks it.                       *)
(***************************************************************************)
EXTENDS MCAnswering, SessionsProofs, ChatGenerationProofs, FiniteSetTheorems, SequenceTheorems

-----------------------------------------------------------------------------
(* Budget: the invariant *)

BudgetRow == [effort : Efforts, late : BOOLEAN, started : 0..BudgetExecutions,
              status : {"running", "reconciling", "completed", "failed"},
              cause : {"none", "budget", "conflict", "recovery", "search", "provider"},
              index : Nat, rounds : Nat]
MeterRow  == [effort : Efforts, status : {"active", "exhausted"}, rag : Int, used : Int,
              reserved : Int, settledCost : Int, reservedCost : Int, upgrades : {0, 1}]
HeldRow   == [status : {"reserved", "settled", "released"}, tokens : Nat, actual : Nat]
Places    == {"new", "plan", "planning", "round", "searching", "answer", "calling", "again",
              "rewriting", "upgrading", "upgradingRound", "raised", "gone"}
MemoryRow == [pc : Places, effort : Efforts, index : Nat, rounds : Nat, upgraded : BOOLEAN,
              estimate : Nat, consumed : Nat, holding : Nat, costHeld : Nat,
              maxTokens : Nat, maxCost : Nat]

\* an execution that is at work, one that has raised the meter and not yet the
\* generation, one whose call is with the provider
Working(x)   == x.pc \notin {"new", "gone", "raised"}
Upgrading(x) == x.pc \in {"upgrading", "upgradingRound"}
Calling(x)   == x.pc \in {"planning", "calling"}

\* what holds of an execution with row x while the generation has the effort g,
\* the meter is m and ids are reserved
Accords(e, x, g, m, ids) ==
    /\ x \in MemoryRow
    /\ Working(x) => m # NoMeter /\ x.effort <= g
    /\ Upgrading(x) => m.upgrades = 1 /\ m.effort = x.effort + 1
    /\ Calling(x) => x.holding = x.estimate /\ x.costHeld = Cost(x.estimate)
    /\ Working(x) /\ ~Calling(x) => x.holding = 0 /\ x.costHeld = 0
    /\ x.pc = "searching" => RoundId(x.index) \in ids
    /\ x.pc = "rewriting" => RewriteId(x.rounds) \in ids
    /\ x.pc = "planning" => PlanId(e) \in ids
    /\ x.pc = "calling" => AnswerId(e) \in ids
RunInv(e) == Accords(e, bexec[e], bgen.effort, bmeter, DOMAIN bresv)

RowsInv ==
    /\ bgen \in BudgetRow
    /\ bmeter \in MeterRow \cup {NoMeter}
    /\ \A id \in DOMAIN bresv : bresv[id] \in HeldRow
    /\ bmeter = NoMeter => DOMAIN bresv = {}
    /\ DOMAIN bexec = Executions

\* the meter, once there, is one upgrade ahead of the generation at most
AheadInv == bmeter # NoMeter => bgen.effort \in {bmeter.effort - bmeter.upgrades, bmeter.effort}

BudgetInv == RowsInv /\ AheadInv /\ BudgetWithin /\ \A e \in Executions : RunInv(e)

LEMMA Prices == \A amount \in Nat : Cost(amount) \in Nat
BY BudgetAssumption DEF Cost

LEMMA NoMeterIs == NoMeter \notin MeterRow /\ NoMeter.status = "none"
BY DEF NoMeter, MeterRow

LEMMA NewMemory == NewExec \in MemoryRow
<1>1. 1 \in Efforts /\ 0 \in Nat BY BudgetAssumption DEF Efforts
<1> QED BY <1>1 DEF NewExec, MemoryRow, Places

LEMMA InitBudget == BudgetInit => BudgetInv
<1> SUFFICES ASSUME BudgetInit PROVE BudgetInv OBVIOUS
<1>1. DOMAIN bresv = {} BY DEF BudgetInit
<1>3. RowsInv
  BY <1>1, BudgetAssumption DEF BudgetInit, RowsInv, BudgetRow
<1>4. AheadInv /\ BudgetWithin BY NoMeterIs DEF BudgetInit, AheadInv, BudgetWithin
<1>5. NewExec \in MemoryRow BY NewMemory
<1>6. NewExec.pc = "new" BY DEF NewExec
<1>7. ASSUME NEW e \in Executions PROVE RunInv(e)
  <2>1. bexec[e] = NewExec BY DEF BudgetInit
  <2> QED BY <1>5, <1>6, <2>1 DEF RunInv, Accords, Working, Upgrading, Calling
<1> QED BY <1>3, <1>4, <1>7 DEF BudgetInv

-----------------------------------------------------------------------------
(* Budget: what a step does to the meter and its reservations *)

Reserves(id, amount) == id \notin DOMAIN bresv /\ Admits(id, amount) /\ Reserve(id, amount)

\* one method of BudgetMeterService, or none; an upgrade apart
MeterMoves ==
    \/ UNCHANGED <<bmeter, bresv>>
    \/ bmeter = NoMeter /\ EnsureMeter(bgen.effort) /\ UNCHANGED bresv
    \/ /\ bmeter \in MeterRow
       /\ \/ \E id : \E amount \in Nat : Reserves(id, amount)
          \/ \E id \in DOMAIN bresv : MarkUnknown(id) \/ \E actual \in Nat : Settle(id, actual)
MeterUpgrades ==
    /\ bmeter \in MeterRow
    /\ \E estimate \in Nat : CanUpgrade(estimate)
    /\ UpgradeMeter /\ UNCHANGED bresv
MeterStep == MeterMoves \/ MeterUpgrades

\* what every such step leaves of the meter, for whoever relies on it
MeterGrows ==
    /\ bmeter # NoMeter => bmeter' # NoMeter
    /\ bmeter.upgrades = 1 => bmeter'.upgrades = 1 /\ bmeter'.effort = bmeter.effort
    /\ DOMAIN bresv \subseteq DOMAIN bresv'

\* what it makes of them
MeterRows ==
    /\ bmeter' \in MeterRow \cup {NoMeter}
    /\ \A id \in DOMAIN bresv' : bresv'[id] \in HeldRow
    /\ bmeter' = NoMeter => DOMAIN bresv' = {}

MeterCloses ==
    bmeter.status = "exhausted" => bmeter'.status = "exhausted" /\ DOMAIN bresv' = DOMAIN bresv

MeterStepGoal == MeterRows /\ MeterGrows /\ MeterCloses /\ BudgetWithin'

LEMMA MeterWith ==
    ASSUME NEW m \in MeterRow, NEW rag \in Int, NEW reserved \in Int, NEW reservedCost \in Int
    PROVE  [m EXCEPT !.rag = rag, !.reserved = reserved, !.reservedCost = reservedCost] \in MeterRow
BY DEF MeterRow

LEMMA MeterUsed ==
    ASSUME NEW m \in MeterRow, NEW used \in Int, NEW settledCost \in Int,
           NEW status \in {"active", "exhausted"}
    PROVE  [m EXCEPT !.used = used, !.settledCost = settledCost, !.status = status] \in MeterRow
BY DEF MeterRow

LEMMA GivingBack ==
    ASSUME bmeter \in MeterRow, NEW id, bresv[id] \in HeldRow, Cost(bresv[id].tokens) \in Nat
    PROVE  GiveBack(bmeter, id) \in MeterRow
<1>1. /\ bmeter.reserved - bresv[id].tokens \in Int
      /\ bmeter.reservedCost - Cost(bresv[id].tokens) \in Int
  BY DEF MeterRow, HeldRow
<1> QED BY <1>1 DEF GiveBack, MeterRow

LEMMA Reserving ==
    ASSUME RowsInv, BudgetWithin, bmeter \in MeterRow,
           NEW id, NEW amount \in Nat, Reserves(id, amount)
    PROVE  MeterStepGoal /\ bmeter'.effort = bmeter.effort /\ bmeter'.upgrades = bmeter.upgrades
<1> DEFINE row == [status |-> "reserved", tokens |-> amount, actual |-> 0]
<1>1. /\ bresv' = [i \in DOMAIN bresv \cup {id} |-> IF i = id THEN row ELSE bresv[i]]
      /\ bmeter' = [bmeter EXCEPT !.rag = @ + (IF IsRag(id) THEN 1 ELSE 0),
                                  !.reserved = @ + amount,
                                  !.reservedCost = @ + Cost(amount)]
      /\ bmeter.status = "active" /\ BudgetFits(amount, IsRag(id))
  BY DEF Reserves, Reserve, Admits, Replays
<1>2. Cost(amount) \in Nat BY Prices
<1>3. bmeter' \in MeterRow
  <2>1. /\ bmeter.rag + (IF IsRag(id) THEN 1 ELSE 0) \in Int
        /\ bmeter.reserved + amount \in Int /\ bmeter.reservedCost + Cost(amount) \in Int
    BY <1>2 DEF MeterRow
  <2> QED BY <1>1, <2>1, MeterWith
<1>4. row \in HeldRow BY DEF HeldRow
<1>5. DOMAIN bresv \subseteq DOMAIN bresv' /\ \A i \in DOMAIN bresv' : bresv'[i] \in HeldRow
  BY <1>1, <1>4 DEF RowsInv
<1>6. /\ bmeter'.effort = bmeter.effort /\ bmeter'.upgrades = bmeter.upgrades
      /\ bmeter'.status = "active" /\ bmeter'.settledCost = bmeter.settledCost
      /\ bmeter'.rag = bmeter.rag + (IF IsRag(id) THEN 1 ELSE 0)
      /\ bmeter'.reservedCost = bmeter.reservedCost + Cost(amount)
  BY <1>1 DEF MeterRow
<1>7. BudgetWithin'
  <2>1. bmeter'.rag <= BudgetMaxRag[bmeter'.effort]
    <3>1. bmeter.rag \in Int /\ BudgetMaxRag[bmeter.effort] \in Nat
      BY BudgetAssumption DEF MeterRow, Efforts
    <3>2. bmeter.rag <= BudgetMaxRag[bmeter.effort] BY <1>1 DEF BudgetWithin
    <3>3. IsRag(id) => bmeter.rag < BudgetMaxRag[bmeter.effort] BY <1>1 DEF BudgetFits
    <3>4. bmeter'.rag <= BudgetMaxRag[bmeter.effort]
      <4>1. CASE IsRag(id) BY <1>6, <3>1, <3>3, <4>1
      <4>2. CASE ~IsRag(id) BY <1>6, <3>1, <3>2, <4>2
      <4> QED BY <4>1, <4>2
    <3> QED BY <1>6, <3>4
  <2>2. bmeter'.settledCost + bmeter'.reservedCost <= BudgetMaxCost[bmeter'.effort]
    BY <1>1, <1>2, <1>6, BudgetAssumption, SMTT(30) DEF BudgetFits, MeterRow, Efforts
  <2>3. ASSUME NEW i \in Rows("settled")' PROVE Cost(bresv'[i].actual) <= Cost(bresv'[i].tokens)
    <3>1. i \in DOMAIN bresv' /\ bresv'[i].status = "settled" BY DEF Rows
    <3>2. i # id /\ i \in DOMAIN bresv /\ bresv'[i] = bresv[i] BY <1>1, <3>1
    <3> QED BY <1>1, <3>1, <3>2 DEF Rows, BudgetWithin
  <2> QED BY <2>1, <2>2, <2>3 DEF BudgetWithin, Rows, Cost
<1> QED
  BY <1>1, <1>3, <1>5, <1>6, <1>7, NoMeterIs
  DEF MeterStepGoal, MeterRows, MeterGrows, MeterCloses

LEMMA MarkingUnknown ==
    ASSUME RowsInv, BudgetWithin, bmeter \in MeterRow,
           NEW id \in DOMAIN bresv, MarkUnknown(id)
    PROVE  MeterStepGoal /\ bmeter'.effort = bmeter.effort /\ bmeter'.upgrades = bmeter.upgrades
<1>1. bresv[id] \in HeldRow BY DEF RowsInv
<1>2. CASE bresv[id].status # "reserved"
  BY <1>2 DEF MarkUnknown, MeterStepGoal, MeterRows, MeterGrows, MeterCloses, RowsInv,
              BudgetWithin, Rows, Cost
<1>3. CASE bresv[id].status = "reserved"
  <2>1. /\ bresv' = [bresv EXCEPT ![id] = [bresv[id] EXCEPT !.status = "released"]]
        /\ bmeter' = [GiveBack(bmeter, id) EXCEPT !.status = "exhausted"]
    BY <1>3 DEF MarkUnknown
  <2>2. Cost(bresv[id].tokens) \in Nat BY <1>1, Prices DEF HeldRow
  <2>3. GiveBack(bmeter, id) \in MeterRow BY <1>1, <2>2, GivingBack
  <2>4. /\ GiveBack(bmeter, id).effort = bmeter.effort
        /\ GiveBack(bmeter, id).upgrades = bmeter.upgrades
    BY DEF GiveBack, MeterRow
  <2>5. /\ bmeter' \in MeterRow /\ bmeter'.effort = bmeter.effort
        /\ bmeter'.upgrades = bmeter.upgrades /\ bmeter'.status = "exhausted"
    BY <2>1, <2>3, <2>4 DEF MeterRow
  <2>6. /\ DOMAIN bresv' = DOMAIN bresv
        /\ \A i \in DOMAIN bresv' : bresv'[i] \in HeldRow
    BY <1>1, <2>1 DEF RowsInv, HeldRow
  <2> QED
    BY <2>5, <2>6, NoMeterIs
    DEF MeterStepGoal, MeterRows, MeterGrows, MeterCloses, BudgetWithin
<1> QED BY <1>2, <1>3

LEMMA Settling ==
    ASSUME RowsInv, BudgetWithin, bmeter \in MeterRow,
           NEW id \in DOMAIN bresv, NEW actual \in Nat, Settle(id, actual)
    PROVE  MeterStepGoal /\ bmeter'.effort = bmeter.effort /\ bmeter'.upgrades = bmeter.upgrades
<1>1. bresv[id] \in HeldRow BY DEF RowsInv
<1>2. CASE bresv[id].status = "settled"
  BY <1>2 DEF Settle, MeterStepGoal, MeterRows, MeterGrows, MeterCloses, RowsInv,
              BudgetWithin, Rows, Cost
<1>3. CASE bresv[id].status # "settled"
  <2> DEFINE over == \/ bmeter.used + actual > BudgetMaxTokens[bmeter.effort]
                     \/ bmeter.settledCost + Cost(actual) > BudgetMaxCost[bmeter.effort]
                     \/ Cost(actual) > Cost(bresv[id].tokens)
             back == GiveBack(bmeter, id)
             row == [bresv[id] EXCEPT !.status = "settled", !.actual = actual]
  <2>1. /\ bresv' = [bresv EXCEPT ![id].status = "settled", ![id].actual = actual]
        /\ bmeter' = [back EXCEPT !.used = bmeter.used + actual,
                                  !.settledCost = bmeter.settledCost + Cost(actual),
                                  !.status = IF over THEN "exhausted" ELSE @]
    BY <1>3 DEF Settle
  <2>2. bresv' = [bresv EXCEPT ![id] = row] BY <2>1
  <2>3. Cost(bresv[id].tokens) \in Nat /\ Cost(actual) \in Nat BY <1>1, Prices DEF HeldRow
  <2>4. back \in MeterRow BY <1>1, <2>3, GivingBack
  <2>5. /\ back.effort = bmeter.effort /\ back.upgrades = bmeter.upgrades
        /\ back.status = bmeter.status /\ back.rag = bmeter.rag
        /\ back.reservedCost = bmeter.reservedCost - Cost(bresv[id].tokens)
    BY DEF GiveBack, MeterRow
  <2>6. /\ bmeter'.effort = bmeter.effort /\ bmeter'.upgrades = bmeter.upgrades
        /\ bmeter'.status = (IF over THEN "exhausted" ELSE bmeter.status)
        /\ bmeter'.rag = bmeter.rag
        /\ bmeter'.reservedCost = bmeter.reservedCost - Cost(bresv[id].tokens)
        /\ bmeter'.settledCost = bmeter.settledCost + Cost(actual)
    BY <2>1, <2>4, <2>5 DEF MeterRow
  <2>7. bmeter' \in MeterRow
    <3>1. /\ bmeter.used + actual \in Int /\ bmeter.settledCost + Cost(actual) \in Int
          /\ (IF over THEN "exhausted" ELSE back.status) \in {"active", "exhausted"}
      BY <2>3, <2>5 DEF MeterRow
    <3> QED BY <2>1, <2>4, <3>1, MeterUsed
  <2>8. row \in HeldRow /\ row.actual = actual /\ row.tokens = bresv[id].tokens
    BY <1>1 DEF HeldRow
  <2>9. /\ DOMAIN bresv' = DOMAIN bresv
        /\ bresv'[id] = row
        /\ \A i \in DOMAIN bresv : i # id => bresv'[i] = bresv[i]
    BY <2>2
  <2>10. \A i \in DOMAIN bresv' : bresv'[i] \in HeldRow BY <2>8, <2>9 DEF RowsInv
  <2>11. BudgetWithin'
    <3> SUFFICES ASSUME bmeter'.status = "active" PROVE BudgetWithin'
      BY DEF BudgetWithin
    <3>1. ~over /\ bmeter.status = "active" BY <2>6 DEF MeterRow
    <3>2. bmeter'.rag <= BudgetMaxRag[bmeter'.effort] BY <2>6, <3>1 DEF BudgetWithin
    <3>3. bmeter'.settledCost + bmeter'.reservedCost <= BudgetMaxCost[bmeter'.effort]
      <4> DEFINE price == Cost(bresv[id].tokens)
                 cost == Cost(actual)
                 limit == BudgetMaxCost[bmeter.effort]
      <4>1. /\ bmeter.settledCost + bmeter.reservedCost <= limit
            /\ bmeter.settledCost \in Int /\ bmeter.reservedCost \in Int /\ limit \in Int
        BY <3>1, BudgetAssumption DEF BudgetWithin, MeterRow, Efforts
      <4>2. price \in Int /\ cost \in Int /\ cost <= price BY <2>3, <3>1
      <4>3. (bmeter.settledCost + cost) + (bmeter.reservedCost - price) <= limit
        <5> HIDE DEF price, cost, limit
        <5> QED BY <4>1, <4>2
      <4> QED BY <2>6, <4>3
    <3>4. ASSUME NEW i \in Rows("settled")' PROVE Cost(bresv'[i].actual) <= Cost(bresv'[i].tokens)
      <4>1. i \in DOMAIN bresv' /\ bresv'[i].status = "settled" BY DEF Rows
      <4>2. CASE i = id
        <5>1. bresv'[i].actual = actual /\ bresv'[i].tokens = bresv[id].tokens
          BY <2>8, <2>9, <4>2
        <5> QED BY <2>3, <3>1, <5>1
      <4>3. CASE i # id
        <5>1. bresv'[i] = bresv[i] /\ i \in Rows("settled") BY <2>9, <4>1, <4>3 DEF Rows
        <5> QED BY <3>1, <5>1 DEF BudgetWithin
      <4> QED BY <4>2, <4>3
    <3> QED BY <3>2, <3>3, <3>4 DEF BudgetWithin, Rows, Cost
  <2> QED
    BY <2>6, <2>7, <2>9, <2>10, <2>11, NoMeterIs
    DEF MeterStepGoal, MeterRows, MeterGrows, MeterCloses
<1> QED BY <1>2, <1>3

LEMMA Ensuring ==
    ASSUME RowsInv, BudgetWithin, bmeter = NoMeter, EnsureMeter(bgen.effort), UNCHANGED bresv
    PROVE  MeterStepGoal /\ bmeter' \in MeterRow /\ bmeter'.effort = bgen.effort
                         /\ bmeter'.upgrades = 0
<1>1. bgen.effort \in Efforts BY DEF RowsInv, BudgetRow
<1>2. bmeter' = [NoMeter EXCEPT !.effort = bgen.effort, !.status = "active"] BY DEF EnsureMeter
<1>3. /\ bmeter' \in MeterRow /\ bmeter'.effort = bgen.effort /\ bmeter'.upgrades = 0
      /\ bmeter'.rag = 0 /\ bmeter'.settledCost = 0 /\ bmeter'.reservedCost = 0
  <2>1. bmeter' = [effort |-> bgen.effort, status |-> "active", rag |-> 0, used |-> 0,
                   reserved |-> 0, settledCost |-> 0, reservedCost |-> 0, upgrades |-> 0]
    BY <1>2 DEF NoMeter
  <2>2. 0 \in Int OBVIOUS
  <2> QED BY <1>1, <2>1, <2>2 DEF MeterRow
<1>4. DOMAIN bresv' = {} BY DEF RowsInv
<1>5. BudgetWithin'
  BY <1>1, <1>3, <1>4, BudgetAssumption DEF BudgetWithin, Efforts, Rows
<1>6. NoMeter.status # "exhausted" /\ NoMeter.upgrades = 0 BY DEF NoMeter
<1> QED
  BY <1>3, <1>4, <1>5, <1>6, NoMeterIs
  DEF MeterStepGoal, MeterRows, MeterGrows, MeterCloses

LEMMA UpgradingMeter ==
    ASSUME RowsInv, BudgetWithin, MeterUpgrades
    PROVE  /\ MeterStepGoal /\ bmeter \in MeterRow /\ bmeter.upgrades = 0
           /\ bmeter' \in MeterRow /\ bmeter'.effort = bmeter.effort + 1 /\ bmeter'.upgrades = 1
<1>1. PICK estimate \in Nat : CanUpgrade(estimate) BY DEF MeterUpgrades
<1>2. /\ bmeter \in MeterRow /\ bmeter.upgrades = 0 /\ bmeter.status = "active"
      /\ bmeter.effort + 1 \in Efforts
  <2>1. bmeter \in MeterRow BY DEF MeterUpgrades
  <2>2. bmeter.effort \in Efforts BY <2>1 DEF MeterRow
  <2>3. bmeter.upgrades = 0 /\ bmeter.status = "active" /\ bmeter.effort < BudgetEfforts
    BY <1>1 DEF CanUpgrade
  <2>4. BudgetEfforts \in Nat BY BudgetAssumption
  <2>5. bmeter.effort + 1 \in Efforts BY <2>2, <2>3, <2>4 DEF Efforts
  <2> QED BY <2>1, <2>3, <2>5
<1>3. /\ bmeter' = [bmeter EXCEPT !.effort = bmeter.effort + 1, !.upgrades = 1]
      /\ bresv' = bresv
  BY DEF MeterUpgrades, UpgradeMeter
<1>4. /\ bmeter' \in MeterRow /\ bmeter'.effort = bmeter.effort + 1 /\ bmeter'.upgrades = 1
      /\ bmeter'.status = "active" /\ bmeter'.rag = bmeter.rag
      /\ bmeter'.settledCost = bmeter.settledCost /\ bmeter'.reservedCost = bmeter.reservedCost
  BY <1>2, <1>3 DEF MeterRow
<1>5. BudgetWithin'
  <2>1. bmeter'.rag <= BudgetMaxRag[bmeter'.effort]
    <3>1. bmeter.rag < BudgetMaxRag[bmeter.effort + 1] BY <1>1 DEF CanUpgrade
    <3>2. bmeter.rag \in Int /\ BudgetMaxRag[bmeter.effort + 1] \in Int
      BY <1>2, BudgetAssumption DEF MeterRow, Efforts
    <3> QED BY <1>4, <3>1, <3>2
  <2>2. Cost(estimate) \in Nat BY Prices
  <2>3. bmeter'.settledCost + bmeter'.reservedCost <= BudgetMaxCost[bmeter'.effort]
    <3>1. bmeter.settledCost + bmeter.reservedCost + Cost(estimate)
              <= BudgetMaxCost[bmeter.effort + 1]
      BY <1>1 DEF CanUpgrade
    <3>2. /\ bmeter.settledCost \in Int /\ bmeter.reservedCost \in Int
          /\ BudgetMaxCost[bmeter.effort + 1] \in Int
      BY <1>2, BudgetAssumption DEF MeterRow, Efforts
    <3> QED BY <1>4, <2>2, <3>1, <3>2
  <2> QED BY <1>2, <1>3, <2>1, <2>3 DEF BudgetWithin, Rows, Cost
<1> QED
  BY <1>2, <1>3, <1>4, <1>5, NoMeterIs
  DEF MeterStepGoal, MeterRows, MeterGrows, MeterCloses, RowsInv

LEMMA Standing ==
    ASSUME RowsInv, BudgetWithin, UNCHANGED <<bmeter, bresv>>
    PROVE  MeterStepGoal
BY DEF MeterStepGoal, MeterRows, MeterGrows, MeterCloses, RowsInv, BudgetWithin, Rows, Cost

LEMMA MeterStepDoes ==
    ASSUME RowsInv, AheadInv, BudgetWithin, MeterStep
    PROVE  /\ MeterStepGoal
           /\ MeterMoves /\ bgen'.effort = bgen.effort => AheadInv'
<1>1. CASE UNCHANGED <<bmeter, bresv>> BY <1>1, Standing DEF AheadInv
<1>2. CASE bmeter = NoMeter /\ EnsureMeter(bgen.effort) /\ UNCHANGED bresv
  <2>1. bgen.effort \in Efforts BY DEF RowsInv, BudgetRow
  <2> QED BY <1>2, <2>1, Ensuring DEF AheadInv, Efforts
<1>3. ASSUME bmeter \in MeterRow, NEW id, NEW amount \in Nat, Reserves(id, amount)
      PROVE  MeterStepGoal /\ (bgen'.effort = bgen.effort => AheadInv')
  BY <1>3, Reserving, NoMeterIs DEF AheadInv
<1>4. ASSUME bmeter \in MeterRow, NEW id \in DOMAIN bresv, MarkUnknown(id)
      PROVE  MeterStepGoal /\ (bgen'.effort = bgen.effort => AheadInv')
  BY <1>4, MarkingUnknown, NoMeterIs DEF AheadInv
<1>5. ASSUME bmeter \in MeterRow, NEW id \in DOMAIN bresv, NEW actual \in Nat, Settle(id, actual)
      PROVE  MeterStepGoal /\ (bgen'.effort = bgen.effort => AheadInv')
  BY <1>5, Settling, NoMeterIs DEF AheadInv
<1>6. CASE MeterUpgrades /\ ~MeterMoves BY <1>6, UpgradingMeter
<1> QED BY <1>1, <1>2, <1>3, <1>4, <1>5, <1>6 DEF MeterStep, MeterMoves

-----------------------------------------------------------------------------
(* Budget: what a step does to its execution *)

\* execution e goes on to row x
Goes(e, x) ==
    /\ MeterStep
    /\ bexec' = [bexec EXCEPT ![e] = x]
    /\ bgen' \in BudgetRow /\ bgen'.effort >= bgen.effort
    /\ AheadInv'
    /\ Accords(e, x, bgen'.effort, bmeter', DOMAIN bresv')

LEMMA StillAccords ==
    ASSUME NEW e, NEW x, NEW g \in Efforts, NEW h \in Efforts, g <= h, MeterGrows,
           Accords(e, x, g, bmeter, DOMAIN bresv)
    PROVE  Accords(e, x, h, bmeter', DOMAIN bresv')
<1>1. x \in MemoryRow BY DEF Accords
<1>2. x.effort \in Int /\ g \in Int /\ h \in Int BY <1>1 DEF MemoryRow, Efforts
<1>3. x.effort <= g => x.effort <= h BY <1>2
<1> QED BY <1>1, <1>3 DEF Accords, MeterGrows

LEMMA Going ==
    ASSUME BudgetInv, NEW e \in Executions, NEW x, Goes(e, x)
    PROVE  BudgetInv'
<1>1. MeterRows /\ MeterGrows /\ BudgetWithin'
  BY MeterStepDoes DEF BudgetInv, Goes, MeterStepGoal
<1>2. bgen.effort \in Efforts /\ bgen'.effort \in Efforts /\ bgen.effort <= bgen'.effort
  BY DEF BudgetInv, RowsInv, BudgetRow, Goes, Efforts
<1>3. DOMAIN bexec = Executions BY DEF BudgetInv, RowsInv
<1>4. RowsInv' BY <1>1, <1>3 DEF RowsInv, MeterRows, Goes
<1>5. ASSUME NEW d \in Executions PROVE RunInv(d)'
  <2>1. CASE d = e
    <3>1. bexec'[d] = x BY <1>3, <2>1 DEF Goes
    <3> QED BY <2>1, <3>1 DEF Goes, RunInv
  <2>2. CASE d # e
    <3>1. bexec'[d] = bexec[d] BY <1>3, <2>2 DEF Goes
    <3>2. Accords(d, bexec[d], bgen.effort, bmeter, DOMAIN bresv) BY DEF BudgetInv, RunInv
    <3>3. Accords(d, bexec[d], bgen'.effort, bmeter', DOMAIN bresv')
      BY <1>1, <1>2, <3>2, StillAccords
    <3> QED BY <3>1, <3>3 DEF RunInv
  <2> QED BY <2>1, <2>2
<1>6. AheadInv' BY DEF Goes
<1> QED BY <1>1, <1>4, <1>5, <1>6 DEF BudgetInv

-----------------------------------------------------------------------------
(* Budget: the actions *)

GenKeeps == bgen' \in BudgetRow /\ bgen'.effort = bgen.effort
Well == BudgetInv' /\ MeterStep

LEMMA GenStands == RowsInv /\ UNCHANGED bgen => GenKeeps
BY DEF RowsInv, GenKeeps

LEMMA Finishing ==
    ASSUME RowsInv, NEW e,
           NEW s \in {"reconciling", "completed", "failed"},
           NEW c \in {"none", "budget", "conflict", "recovery", "search", "provider"},
           Finish(e, s, c)
    PROVE  GenKeeps
<1>1. CASE Owns(e)
  <2>1. bgen' = [bgen EXCEPT !.status = s, !.cause = c] BY <1>1 DEF Finish
  <2> QED BY <2>1 DEF RowsInv, GenKeeps, BudgetRow
<1>2. CASE ~Owns(e) BY <1>2 DEF Finish, RowsInv, GenKeeps
<1> QED BY <1>1, <1>2

LEMMA Checkpointing ==
    ASSUME RowsInv, NEW e, NEW index \in Nat, NEW rounds \in Nat, BudgetCheckpoint(e, index, rounds)
    PROVE  GenKeeps
<1>1. CASE Owns(e)
  <2>1. bgen' = [bgen EXCEPT !.index = index, !.rounds = rounds] BY <1>1 DEF BudgetCheckpoint
  <2> QED BY <2>1 DEF RowsInv, GenKeeps, BudgetRow
<1>2. CASE ~Owns(e) BY <1>2 DEF BudgetCheckpoint, RowsInv, GenKeeps
<1> QED BY <1>1, <1>2

LEMMA AtWork ==
    ASSUME BudgetInv, NEW e \in Executions, Working(bexec[e])
    PROVE  /\ bmeter \in MeterRow /\ bexec[e] \in MemoryRow
           /\ bgen.effort \in Efforts /\ bexec[e].effort <= bgen.effort
           /\ ~Calling(bexec[e]) => bexec[e].holding = 0 /\ bexec[e].costHeld = 0
           /\ Calling(bexec[e]) => /\ bexec[e].holding = bexec[e].estimate
                                   /\ bexec[e].costHeld = Cost(bexec[e].estimate)
BY DEF BudgetInv, RowsInv, BudgetRow, RunInv, Accords

LEMMA MemoryAt ==
    ASSUME NEW x \in MemoryRow, NEW pc \in Places
    PROVE  /\ [x EXCEPT !.pc = pc] \in MemoryRow
           /\ [x EXCEPT !.pc = pc].pc = pc
           /\ [x EXCEPT !.pc = pc].effort = x.effort
           /\ [x EXCEPT !.pc = pc].index = x.index
           /\ [x EXCEPT !.pc = pc].rounds = x.rounds
           /\ [x EXCEPT !.pc = pc].holding = x.holding
           /\ [x EXCEPT !.pc = pc].costHeld = x.costHeld
           /\ [x EXCEPT !.pc = pc].estimate = x.estimate
BY DEF MemoryRow

LEMMA Makes ==
    ASSUME BudgetInv, NEW e \in Executions, NEW x, MeterMoves, GenKeeps,
           bexec' = [bexec EXCEPT ![e] = x],
           Accords(e, x, bgen.effort, bmeter', DOMAIN bresv')
    PROVE  Well
<1>1. AheadInv' BY MeterStepDoes DEF BudgetInv, MeterStep, GenKeeps
<1>2. bgen'.effort >= bgen.effort
  BY DEF GenKeeps, BudgetInv, RowsInv, BudgetRow, Efforts
<1>3. Goes(e, x) BY <1>1, <1>2 DEF Goes, MeterStep, GenKeeps
<1> QED BY <1>3, Going DEF Well, MeterStep

\* it goes on at a place where nothing is with the provider ...
LEMMA GoesOn ==
    ASSUME BudgetInv, NEW e \in Executions, NEW x \in MemoryRow,
           NEW pc \in {"plan", "round", "searching", "answer", "again", "rewriting"},
           MeterMoves, GenKeeps, BudgetGoto(e, x, pc),
           bmeter' # NoMeter, x.effort <= bgen.effort, x.holding = 0, x.costHeld = 0,
           pc = "searching" => RoundId(x.index) \in DOMAIN bresv',
           pc = "rewriting" => RewriteId(x.rounds) \in DOMAIN bresv'
    PROVE  Well
<1> DEFINE y == [x EXCEPT !.pc = pc]
<1>1. /\ y \in MemoryRow /\ y.pc = pc /\ y.effort = x.effort /\ y.index = x.index
      /\ y.rounds = x.rounds /\ y.holding = 0 /\ y.costHeld = 0
  <2>1. pc \in Places BY DEF Places
  <2> QED BY <2>1, MemoryAt
<1>2. Accords(e, y, bgen.effort, bmeter', DOMAIN bresv')
  BY <1>1 DEF Accords, Working, Upgrading, Calling
<1>3. bexec' = [bexec EXCEPT ![e] = y] BY DEF BudgetGoto
<1> QED BY <1>2, <1>3, Makes

\* ... or leaves
LEMMA Leaves ==
    ASSUME BudgetInv, NEW e \in Executions, NEW x \in MemoryRow, NEW pc \in {"gone", "raised"},
           MeterMoves, GenKeeps, BudgetGoto(e, x, pc)
    PROVE  Well
<1> DEFINE y == [x EXCEPT !.pc = pc]
<1>1. y \in MemoryRow /\ y.pc = pc
  <2>1. pc \in Places BY DEF Places
  <2> QED BY <2>1, MemoryAt
<1>2. Accords(e, y, bgen.effort, bmeter', DOMAIN bresv')
  BY <1>1 DEF Accords, Working, Upgrading, Calling
<1>3. bexec' = [bexec EXCEPT ![e] = y] BY DEF BudgetGoto
<1> QED BY <1>2, <1>3, Makes

LEMMA MeterStays ==
    ASSUME BudgetInv, bmeter \in MeterRow, MeterMoves
    PROVE  bmeter' \in MeterRow /\ bmeter' # NoMeter /\ DOMAIN bresv \subseteq DOMAIN bresv'
BY MeterStepDoes, NoMeterIs DEF BudgetInv, MeterStep, MeterStepGoal, MeterGrows, MeterRows

LEMMA Admitted ==
    ASSUME bmeter \in MeterRow, NEW id, NEW amount \in Nat, Admits(id, amount), Reserve(id, amount)
    PROVE  MeterMoves /\ id \in DOMAIN bresv'
<1>1. CASE id \in DOMAIN bresv BY <1>1 DEF Reserve, MeterMoves
<1>2. CASE id \notin DOMAIN bresv
  <2>1. Reserves(id, amount) BY <1>2 DEF Reserves
  <2>2. id \in DOMAIN bresv' BY <1>2 DEF Reserve
  <2> QED BY <2>1, <2>2 DEF MeterMoves
<1> QED BY <1>1, <1>2

LEMMA MeterUntouched == UNCHANGED <<bmeter, bresv>> => MeterMoves
BY DEF MeterMoves

LEMMA Claiming == ASSUME BudgetInv, NEW e \in Executions, BudgetClaim(e) PROVE Well
<1> DEFINE x == Policy([NewExec EXCEPT !.index = bgen.index, !.rounds = bgen.rounds], bgen.effort)
           pc == IF bgen.effort = BudgetEfforts THEN "plan" ELSE "round"
<1>1. bgen \in BudgetRow BY DEF BudgetInv, RowsInv
<1>2. bgen' = [bgen EXCEPT !.started = e] BY DEF BudgetClaim
<1>3. e \in 0..BudgetExecutions BY BudgetAssumption DEF Executions
<1>4. GenKeeps BY <1>1, <1>2, <1>3 DEF GenKeeps, BudgetRow
<1>5. MeterMoves BY DEF BudgetClaim, EnsureMeter, MeterMoves
<1>6. bmeter' \in MeterRow
  <2>1. CASE bmeter = NoMeter BY <2>1, Ensuring DEF BudgetInv, BudgetClaim
  <2>2. CASE bmeter # NoMeter BY <2>2 DEF BudgetInv, RowsInv, BudgetClaim, EnsureMeter
  <2> QED BY <2>1, <2>2
<1>7. /\ bgen.effort \in Efforts /\ bmeter'.effort \in Efforts
      /\ bgen.index \in Nat /\ bgen.rounds \in Nat
  BY <1>1, <1>6 DEF BudgetRow, MeterRow
<1>8. BudgetMaxTokens[bgen.effort] \in Nat /\ BudgetMaxCost[bmeter'.effort] \in Nat
  BY <1>7, BudgetAssumption DEF Efforts
<1> DEFINE z == [NewExec EXCEPT !.index = bgen.index, !.rounds = bgen.rounds]
<1>10. x \in MemoryRow /\ x.effort = bgen.effort /\ x.holding = 0 /\ x.costHeld = 0
  <2>1. NewExec \in MemoryRow /\ NewExec.holding = 0 /\ NewExec.costHeld = 0
    BY NewMemory DEF NewExec
  <2>2. z \in MemoryRow /\ z.holding = 0 /\ z.costHeld = 0 BY <1>7, <2>1 DEF MemoryRow
  <2>3. x = [z EXCEPT !.effort = bgen.effort, !.maxTokens = BudgetMaxTokens[bgen.effort],
                      !.maxCost = BudgetMaxCost[bmeter'.effort]]
    BY DEF Policy
  <2> HIDE DEF x, z
  <2> QED BY <1>7, <1>8, <2>2, <2>3 DEF MemoryRow
<1> HIDE DEF x
<1>11. x.effort <= bgen.effort BY <1>7, <1>10 DEF Efforts
<1>12. BudgetGoto(e, x, pc) BY DEF BudgetClaim, x
<1>13. CASE pc = "plan" BY <1>4, <1>5, <1>6, <1>10, <1>11, <1>12, <1>13, GoesOn, NoMeterIs
<1>14. CASE pc = "round" BY <1>4, <1>5, <1>6, <1>10, <1>11, <1>12, <1>14, GoesOn, NoMeterIs
<1> QED BY <1>13, <1>14

LEMMA Beginning == ASSUME BudgetInv, NEW e \in Executions, BeginRound(e) PROVE Well
<1> DEFINE x == bexec[e]
           id == RoundId(x.index)
<1>1. x.pc = "round" BY DEF BeginRound, At
<1>2. Working(x) /\ ~Calling(x) BY <1>1 DEF Working, Calling
<1>3. /\ bmeter \in MeterRow /\ x \in MemoryRow /\ x.effort <= bgen.effort
      /\ x.holding = 0 /\ x.costHeld = 0
  BY <1>2, AtWork
<1>4. CASE Admits(id, 0)
  <2>1. Reserve(id, 0) /\ BudgetGoto(e, x, "searching") /\ UNCHANGED bgen
    BY <1>4 DEF BeginRound
  <2>2. MeterMoves /\ id \in DOMAIN bresv' BY <1>3, <1>4, <2>1, Admitted
  <2>3. GenKeeps BY <2>1, GenStands DEF BudgetInv
  <2>4. bmeter' # NoMeter BY <1>3, <2>2, MeterStays
  <2> QED BY <1>3, <2>1, <2>2, <2>3, <2>4, GoesOn
<1>5. CASE ~Admits(id, 0)
  <2>1. Refuse /\ BudgetFails(e, "budget") BY <1>5 DEF BeginRound
  <2>2. MeterMoves BY <2>1, MeterUntouched DEF Refuse
  <2>3. GenKeeps BY <2>1, Finishing DEF BudgetFails, BudgetInv
  <2> QED BY <1>3, <2>1, <2>2, <2>3, Leaves DEF BudgetFails
<1> QED BY <1>4, <1>5

LEMMA Counting ==
    ASSUME NEW x \in MemoryRow
    PROVE  LET y == [x EXCEPT !.rounds = @ + 1]
               z == [y EXCEPT !.index = @ + 1]
           IN  /\ y \in MemoryRow /\ y.effort = x.effort /\ y.index = x.index
               /\ y.holding = x.holding /\ y.costHeld = x.costHeld
               /\ y.rounds = x.rounds + 1 /\ y.rounds \in Nat
               /\ z \in MemoryRow /\ z.effort = x.effort
               /\ z.holding = x.holding /\ z.costHeld = x.costHeld
<1> DEFINE y == [x EXCEPT !.rounds = @ + 1]
           z == [y EXCEPT !.index = @ + 1]
<1>1. x.rounds + 1 \in Nat /\ x.index + 1 \in Nat BY DEF MemoryRow
<1>2. /\ y \in MemoryRow /\ y.effort = x.effort /\ y.index = x.index
      /\ y.holding = x.holding /\ y.costHeld = x.costHeld /\ y.rounds = x.rounds + 1
  BY <1>1 DEF MemoryRow
<1>3. y.index + 1 \in Nat BY <1>1, <1>2
<1> HIDE DEF y
<1>4. /\ z \in MemoryRow /\ z.effort = y.effort
      /\ z.holding = y.holding /\ z.costHeld = y.costHeld
  BY <1>2, <1>3 DEF MemoryRow
<1> QED BY <1>1, <1>2, <1>4 DEF y

LEMMA Settled ==
    ASSUME bmeter \in MeterRow, NEW id \in DOMAIN bresv, NEW actual \in Nat, Settle(id, actual)
    PROVE  MeterMoves
BY DEF MeterMoves

LEMMA Ending == ASSUME BudgetInv, NEW e \in Executions, EndRound(e) PROVE Well
<1> DEFINE x == bexec[e]
           y == [x EXCEPT !.rounds = @ + 1]
           z == [y EXCEPT !.index = @ + 1]
<1>1. x.pc = "searching" BY DEF EndRound, At
<1>2. Working(x) /\ ~Calling(x) BY <1>1 DEF Working, Calling
<1>3. /\ bmeter \in MeterRow /\ x \in MemoryRow /\ x.effort <= bgen.effort
      /\ x.holding = 0 /\ x.costHeld = 0
  BY <1>2, AtWork
<1>4. RoundId(x.index) \in DOMAIN bresv BY <1>1 DEF BudgetInv, RunInv, Accords
<1>5. /\ y \in MemoryRow /\ y.effort = x.effort /\ y.holding = 0 /\ y.costHeld = 0
      /\ z \in MemoryRow /\ z.effort = x.effort /\ z.holding = 0 /\ z.costHeld = 0
      /\ x.rounds + 1 \in Nat /\ x.index \in Nat
  <2>1. x.index \in Nat BY <1>3 DEF MemoryRow
  <2> QED BY <1>3, <2>1, Counting
<1>6. CASE /\ Settle(RoundId(x.index), 0)
           /\ ~CanStartRound(x) /\ BudgetGoto(e, x, "raised") /\ UNCHANGED bgen
  BY <1>3, <1>4, <1>6, Settled, GenStands, Leaves DEF BudgetInv
<1>7. CASE /\ Settle(RoundId(x.index), 0)
           /\ BudgetGoto(e, y, "answer") /\ BudgetCheckpoint(e, x.index, x.rounds + 1)
  <2>1. MeterMoves BY <1>3, <1>4, <1>7, Settled
  <2>2. GenKeeps BY <1>5, <1>7, Checkpointing DEF BudgetInv
  <2>3. bmeter' # NoMeter BY <1>3, <2>1, MeterStays
  <2> HIDE DEF x, y
  <2> QED BY <1>3, <1>5, <1>7, <2>1, <2>2, <2>3, GoesOn
<1>8. CASE /\ Settle(RoundId(x.index), 0)
           /\ BudgetGoto(e, z, "round") /\ UNCHANGED bgen
  <2>1. MeterMoves BY <1>3, <1>4, <1>8, Settled
  <2>2. GenKeeps BY <1>8, GenStands DEF BudgetInv
  <2>3. bmeter' # NoMeter BY <1>3, <2>1, MeterStays
  <2> HIDE DEF x, y, z
  <2> QED BY <1>3, <1>5, <1>8, <2>1, <2>2, <2>3, GoesOn
<1>9. CASE BudgetFails(e, "search") /\ UNCHANGED <<bmeter, bresv>>
  BY <1>3, <1>9, MeterUntouched, Finishing, Leaves DEF BudgetFails, BudgetInv
<1> QED BY <1>6, <1>7, <1>8, <1>9 DEF EndRound

LEMMA Holding ==
    ASSUME NEW x \in MemoryRow, NEW estimate \in Nat, x.holding = 0, x.costHeld = 0
    PROVE  LET y == LogicalReserve(x, estimate)
           IN  /\ y \in MemoryRow /\ y.effort = x.effort /\ y.index = x.index
               /\ y.rounds = x.rounds
               /\ y.holding = estimate /\ y.costHeld = Cost(estimate) /\ y.estimate = estimate
<1>1. Cost(estimate) \in Nat BY Prices
<1>2. x.holding + estimate = estimate /\ x.costHeld + Cost(estimate) = Cost(estimate) BY <1>1
<1> QED BY <1>1, <1>2 DEF LogicalReserve, MemoryRow

LEMMA Releasing ==
    ASSUME NEW x \in MemoryRow, NEW actual \in Nat,
           x.holding = x.estimate, x.costHeld = Cost(x.estimate)
    PROVE  LET y == LogicalReconcile(x, actual)
           IN  /\ y \in MemoryRow /\ y.effort = x.effort
               /\ y.holding = 0 /\ y.costHeld = 0
<1>1. x.estimate \in Nat /\ x.consumed + actual \in Nat BY DEF MemoryRow
<1>2. Cost(x.estimate) \in Nat BY <1>1, Prices
<1>3. x.holding - x.estimate = 0 /\ x.costHeld - Cost(x.estimate) = 0 BY <1>1, <1>2
<1> DEFINE y == [x EXCEPT !.holding = 0, !.costHeld = 0, !.consumed = x.consumed + actual]
<1>4. LogicalReconcile(x, actual) = y BY <1>3 DEF LogicalReconcile
<1>5. y \in MemoryRow /\ y.effort = x.effort /\ y.holding = 0 /\ y.costHeld = 0
  BY <1>1 DEF MemoryRow
<1> QED BY <1>4, <1>5

LEMMA Dispatching ==
    ASSUME BudgetInv, NEW e \in Executions, NEW estimate \in Nat, BeginCall(e, estimate)
    PROVE  Well
<1> DEFINE x == bexec[e]
           plan == x.pc = "plan"
           id == IF plan THEN PlanId(e) ELSE AnswerId(e)
           y == LogicalReserve(x, estimate)
           pc == IF plan THEN "planning" ELSE "calling"
           Without(cause) ==
              IF plan THEN BudgetGoto(e, x, "round") /\ UNCHANGED bgen ELSE BudgetFails(e, cause)
<1>1. x.pc \in {"plan", "answer"} BY DEF BeginCall, At
<1>2. Working(x) /\ ~Calling(x) BY <1>1 DEF Working, Calling
<1>3. /\ bmeter \in MeterRow /\ x \in MemoryRow /\ x.effort <= bgen.effort
      /\ x.holding = 0 /\ x.costHeld = 0
  BY <1>2, AtWork
<1>4. ASSUME MeterMoves, NEW cause \in {"conflict", "budget"}, Without(cause) PROVE Well
  <2>1. CASE plan
    <3>1. GenKeeps BY <1>4, <2>1, GenStands DEF BudgetInv
    <3>2. bmeter' # NoMeter BY <1>3, <1>4, MeterStays
    <3> QED BY <1>3, <1>4, <2>1, <3>1, <3>2, GoesOn
  <2>2. CASE ~plan
    <3>1. GenKeeps BY <1>4, <2>2, Finishing DEF BudgetInv, BudgetFails
    <3> QED BY <1>3, <1>4, <2>2, <3>1, Leaves DEF BudgetFails
  <2> QED BY <2>1, <2>2
<1>5. CASE ~Admits(id, estimate)
  <2>1. Refuse /\ Without(IF Conflicts(id, estimate) THEN "conflict" ELSE "budget")
    BY <1>5 DEF BeginCall
  <2>2. MeterMoves BY <2>1, MeterUntouched DEF Refuse
  <2> QED BY <1>4, <2>1, <2>2
<1>6. CASE Admits(id, estimate)
  <2>1. Reserve(id, estimate) BY <1>6 DEF BeginCall
  <2>2. MeterMoves /\ id \in DOMAIN bresv' BY <1>3, <1>6, <2>1, Admitted
  <2>3. CASE LogicalGate(x, estimate)
    <3>1. BudgetGoto(e, y, pc) /\ UNCHANGED bgen BY <1>6, <2>3 DEF BeginCall
    <3>2. /\ y \in MemoryRow /\ y.effort = x.effort
          /\ y.holding = y.estimate /\ y.costHeld = Cost(y.estimate)
      BY <1>3, Holding
    <3> DEFINE w == [y EXCEPT !.pc = pc]
    <3>3. bexec' = [bexec EXCEPT ![e] = w] BY <3>1 DEF BudgetGoto
    <3>4. pc \in Places BY DEF Places
    <3> HIDE DEF y
    <3>5. /\ w \in MemoryRow /\ w.pc = pc /\ w.effort = x.effort
          /\ w.holding = w.estimate /\ w.costHeld = Cost(w.estimate)
      <4> HIDE DEF pc, w
      <4>1. w = [y EXCEPT !.pc = pc] BY DEF w
      <4> QED BY <3>2, <3>4, <4>1, MemoryAt
    <3> HIDE DEF w
    <3>6. bmeter' # NoMeter BY <1>3, <2>2, MeterStays
    <3>7. /\ w.pc = "planning" => PlanId(e) \in DOMAIN bresv'
          /\ w.pc = "calling" => AnswerId(e) \in DOMAIN bresv'
      BY <2>2, <3>5
    <3>8. Accords(e, w, bgen.effort, bmeter', DOMAIN bresv')
      BY <1>3, <3>5, <3>6, <3>7 DEF Accords, Working, Upgrading, Calling
    <3>9. GenKeeps BY <3>1, GenStands DEF BudgetInv
    <3> QED BY <2>2, <3>3, <3>8, <3>9, Makes
  <2>4. CASE ~LogicalGate(x, estimate)
    <3>1. Without("budget") BY <1>6, <2>4 DEF BeginCall
    <3> QED BY <1>4, <2>2, <3>1
  <2> QED BY <2>3, <2>4
<1> QED BY <1>5, <1>6

\* an answer or an error of the provider, of either call
LEMMA CallEnds ==
    ASSUME BudgetInv, NEW e \in Executions, InCall(e)
    PROVE  LET x == bexec[e]
           IN  /\ bmeter \in MeterRow /\ x \in MemoryRow /\ x.effort <= bgen.effort
               /\ x.holding = x.estimate /\ x.costHeld = Cost(x.estimate)
               /\ CallOf(e) \in DOMAIN bresv
<1> DEFINE x == bexec[e]
<1>1. x.pc \in {"planning", "calling"} BY DEF InCall, At
<1>2. Working(x) /\ Calling(x) BY <1>1 DEF Working, Calling
<1>3. CallOf(e) \in DOMAIN bresv
  BY <1>1 DEF BudgetInv, RunInv, Accords, CallOf, At
<1> QED BY <1>2, <1>3, AtWork

LEMMA AnswersCall ==
    ASSUME BudgetInv, NEW e \in Executions, NEW actual \in Nat, Answered(e, actual)
    PROVE  Well
<1> DEFINE x == LogicalReconcile(bexec[e], actual)
<1>1. InCall(e) /\ Settle(CallOf(e), actual) BY DEF Answered
<1>2. /\ bmeter \in MeterRow /\ bexec[e].effort <= bgen.effort
      /\ CallOf(e) \in DOMAIN bresv
  BY <1>1, CallEnds
<1>3. x \in MemoryRow /\ x.effort = bexec[e].effort /\ x.holding = 0 /\ x.costHeld = 0
  BY <1>1, CallEnds, Releasing
<1>4. MeterMoves BY <1>1, <1>2, Settled
<1>5. bmeter' # NoMeter BY <1>2, <1>4, MeterStays
<1>6. \/ BudgetGoto(e, x, "round") /\ UNCHANGED bgen
      \/ BudgetGoto(e, x, "gone") /\ Finish(e, "completed", "none")
      \/ BudgetGoto(e, x, "again") /\ UNCHANGED bgen
  BY DEF Answered
<1>7. GenKeeps BY <1>6, GenStands, Finishing DEF BudgetInv
<1> HIDE DEF x
<1>8. CASE BudgetGoto(e, x, "round") BY <1>2, <1>3, <1>4, <1>5, <1>7, <1>8, GoesOn
<1>9. CASE BudgetGoto(e, x, "again") BY <1>2, <1>3, <1>4, <1>5, <1>7, <1>9, GoesOn
<1>10. CASE BudgetGoto(e, x, "gone") BY <1>3, <1>4, <1>7, <1>10, Leaves
<1> QED BY <1>6, <1>8, <1>9, <1>10

LEMMA Raising == ASSUME BudgetInv, NEW e \in Executions, Raised(e) PROVE Well
<1> DEFINE x == LogicalReconcile(bexec[e], 0)
<1>1. InCall(e) /\ MarkUnknown(CallOf(e)) BY DEF Raised
<1>2. /\ bmeter \in MeterRow /\ bexec[e].effort <= bgen.effort
      /\ CallOf(e) \in DOMAIN bresv
  BY <1>1, CallEnds
<1>3. x \in MemoryRow /\ x.effort = bexec[e].effort /\ x.holding = 0 /\ x.costHeld = 0
  BY <1>1, CallEnds, Releasing
<1>4. MeterMoves BY <1>1, <1>2 DEF MeterMoves
<1>5. bmeter' # NoMeter BY <1>2, <1>4, MeterStays
<1>6. \/ BudgetGoto(e, x, "gone") /\ Finish(e, "reconciling", "none")
      \/ BudgetGoto(e, x, "round") /\ UNCHANGED bgen
      \/ BudgetGoto(e, x, "gone") /\ Finish(e, "failed", "provider")
  BY DEF Raised
<1>7. GenKeeps BY <1>6, GenStands, Finishing DEF BudgetInv
<1> HIDE DEF x
<1>8. CASE BudgetGoto(e, x, "round") BY <1>2, <1>3, <1>4, <1>5, <1>7, <1>8, GoesOn
<1>9. CASE BudgetGoto(e, x, "gone") BY <1>3, <1>4, <1>7, <1>9, Leaves
<1> QED BY <1>6, <1>8, <1>9

LEMMA Publishing ==
    ASSUME BudgetInv, NEW e \in Executions, bexec[e] \in MemoryRow, MeterMoves, Publishes(e)
    PROVE  Well
BY Finishing, Leaves DEF Publishes, BudgetInv

LEMMA TryingAgain ==
    ASSUME BudgetInv, NEW e \in Executions, NEW estimate, TryAgain(e, estimate) PROVE Well
<1> DEFINE x == bexec[e]
           id == RewriteId(x.rounds)
           late == bgen.late \/ x.consumed + x.holding + estimate > x.maxTokens
<1>1. x.pc = "again" BY DEF TryAgain, At
<1>2. Working(x) /\ ~Calling(x) BY <1>1 DEF Working, Calling
<1>3. /\ bmeter \in MeterRow /\ x \in MemoryRow /\ x.effort <= bgen.effort
      /\ x.holding = 0 /\ x.costHeld = 0
  BY <1>2, AtWork
<1>4. CASE late
  BY <1>3, <1>4, MeterUntouched, Publishing DEF TryAgain
<1>5. CASE ~late /\ Admits(id, 0)
  <2>1. Reserve(id, 0) /\ BudgetGoto(e, x, "rewriting") /\ UNCHANGED bgen
    BY <1>5 DEF TryAgain
  <2>2. MeterMoves /\ id \in DOMAIN bresv' BY <1>3, <1>5, <2>1, Admitted
  <2>3. GenKeeps BY <2>1, GenStands DEF BudgetInv
  <2>4. bmeter' # NoMeter BY <1>3, <2>2, MeterStays
  <2> QED BY <1>3, <2>1, <2>2, <2>3, <2>4, GoesOn
<1>6. CASE ~late /\ ~Admits(id, 0)
  <2>1. Refuse /\ BudgetFails(e, "budget") BY <1>6 DEF TryAgain
  <2>2. MeterMoves BY <2>1, MeterUntouched DEF Refuse
  <2>3. GenKeeps BY <2>1, Finishing DEF BudgetFails, BudgetInv
  <2> QED BY <1>3, <2>1, <2>2, <2>3, Leaves DEF BudgetFails
<1> QED BY <1>4, <1>5, <1>6

LEMMA Rewriting ==
    ASSUME BudgetInv, NEW e \in Executions, NEW estimate, Rewritten(e, estimate) PROVE Well
<1> DEFINE x == bexec[e]
           y == [x EXCEPT !.rounds = @ + 1]
<1>1. x.pc = "rewriting" BY DEF Rewritten, At
<1>2. Working(x) /\ ~Calling(x) BY <1>1 DEF Working, Calling
<1>3. /\ bmeter \in MeterRow /\ x \in MemoryRow /\ x.effort <= bgen.effort
      /\ x.holding = 0 /\ x.costHeld = 0
  BY <1>2, AtWork
<1>4. RewriteId(x.rounds) \in DOMAIN bresv BY <1>1 DEF BudgetInv, RunInv, Accords
<1>5. /\ y \in MemoryRow /\ y.effort = x.effort /\ y.holding = 0 /\ y.costHeld = 0
      /\ y.rounds \in Nat
  BY <1>3, Counting
<1>6. CASE /\ Settle(RewriteId(x.rounds), 0)
           /\ BudgetGoto(e, y, "answer") /\ BudgetCheckpoint(e, y.rounds, y.rounds)
  <2>1. MeterMoves BY <1>3, <1>4, <1>6, Settled
  <2>2. GenKeeps BY <1>5, <1>6, Checkpointing DEF BudgetInv
  <2>3. bmeter' # NoMeter BY <1>3, <2>1, MeterStays
  <2> HIDE DEF x, y
  <2> QED BY <1>3, <1>5, <1>6, <2>1, <2>2, <2>3, GoesOn
<1>7. CASE Settle(RewriteId(x.rounds), 0) /\ Publishes(e)
  BY <1>3, <1>4, <1>7, Settled, Publishing
<1>8. CASE BudgetFails(e, "search") /\ UNCHANGED <<bmeter, bresv>>
  BY <1>3, <1>8, MeterUntouched, Finishing, Leaves DEF BudgetFails, BudgetInv
<1> QED BY <1>6, <1>7, <1>8 DEF Rewritten

LEMMA UpgradingStep ==
    ASSUME BudgetInv, NEW e \in Executions, NEW estimate \in Nat, Upgrade(e, estimate)
    PROVE  Well
<1> DEFINE x == bexec[e]
           raises == x.effort < BudgetEfforts /\ CanUpgrade(estimate) /\ bmeter.effort = x.effort
           pc == IF x.pc = "again" THEN "upgrading" ELSE "upgradingRound"
           y == [x EXCEPT !.pc = pc]
<1>1. x.pc \in {"again", "round"} /\ UNCHANGED bresv BY DEF Upgrade, At
<1>2. Working(x) /\ ~Calling(x) BY <1>1 DEF Working, Calling
<1>3. /\ bmeter \in MeterRow /\ x \in MemoryRow /\ x.effort <= bgen.effort
      /\ x.holding = 0 /\ x.costHeld = 0 /\ bgen.effort \in Efforts
  BY <1>2, AtWork
<1>4. CASE ~raises
  <2>1. MeterMoves BY <1>1, <1>4, MeterUntouched DEF Upgrade
  <2>2. CASE Publishes(e) BY <1>3, <2>1, <2>2, Publishing
  <2>3. CASE BudgetGoto(e, x, "answer") /\ UNCHANGED bgen
    <3>1. GenKeeps BY <2>3, GenStands DEF BudgetInv
    <3>2. bmeter' # NoMeter BY <1>3, <2>1, MeterStays
    <3> QED BY <1>3, <2>1, <2>3, <3>1, <3>2, GoesOn
  <2> QED BY <1>4, <2>2, <2>3 DEF Upgrade
<1>5. CASE raises
  <2>1. UpgradeMeter /\ BudgetGoto(e, x, pc) /\ bgen' = bgen BY <1>5 DEF Upgrade
  <2>2. MeterUpgrades BY <1>1, <1>3, <1>5, <2>1 DEF MeterUpgrades
  <2>3. /\ bmeter.upgrades = 0 /\ bmeter' \in MeterRow
        /\ bmeter'.effort = bmeter.effort + 1 /\ bmeter'.upgrades = 1
    BY <2>2, UpgradingMeter DEF BudgetInv
  <2>4. bmeter.effort \in Efforts /\ bmeter.effort = x.effort BY <1>3, <1>5 DEF MeterRow
  <2>5. bgen.effort = bmeter.effort
    BY <1>3, <2>3, <2>4, NoMeterIs DEF BudgetInv, AheadInv, Efforts
  <2>6. AheadInv' BY <2>1, <2>3, <2>4, <2>5 DEF AheadInv, Efforts
  <2>7. pc \in {"upgrading", "upgradingRound"} OBVIOUS
  <2>8. pc \in Places BY <2>7 DEF Places
  <2>9. bexec' = [bexec EXCEPT ![e] = y] BY <2>1 DEF BudgetGoto
  <2> HIDE DEF pc
  <2>10. /\ y \in MemoryRow /\ y.pc = pc /\ y.effort = x.effort
         /\ y.holding = 0 /\ y.costHeld = 0
    BY <1>3, <2>8, MemoryAt
  <2> HIDE DEF x, y
  <2>11. Accords(e, y, bgen'.effort, bmeter', DOMAIN bresv')
    BY <1>3, <2>1, <2>3, <2>4, <2>7, <2>10, NoMeterIs DEF Accords, Working, Upgrading, Calling
  <2>12. bgen' \in BudgetRow /\ bgen'.effort >= bgen.effort
    BY <1>3, <2>1 DEF BudgetInv, RowsInv, Efforts
  <2>13. Goes(e, y) BY <2>2, <2>6, <2>9, <2>11, <2>12 DEF Goes, MeterStep
  <2> QED BY <2>13, Going DEF Well, Goes
<1> QED BY <1>4, <1>5

LEMMA PersistingUpgrade ==
    ASSUME BudgetInv, NEW e \in Executions, PersistUpgrade(e) PROVE Well
<1> DEFINE x == bexec[e]
           z == [x EXCEPT !.upgraded = TRUE]
           y == Policy(z, x.effort + 1)
           pc == IF At(e, "upgrading") THEN "again" ELSE "round"
           w == [y EXCEPT !.pc = pc]
<1>1. x.pc \in {"upgrading", "upgradingRound"} /\ UNCHANGED <<bmeter, bresv>>
  BY DEF PersistUpgrade, At
<1>2. Working(x) /\ ~Calling(x) /\ Upgrading(x) BY <1>1 DEF Working, Calling, Upgrading
<1>3. /\ bmeter \in MeterRow /\ x \in MemoryRow /\ x.effort <= bgen.effort
      /\ x.holding = 0 /\ x.costHeld = 0 /\ bgen.effort \in Efforts
  BY <1>2, AtWork
<1>4. bmeter.upgrades = 1 /\ bmeter.effort = x.effort + 1
  BY <1>2 DEF BudgetInv, RunInv, Accords
<1>5. MeterMoves BY <1>1, MeterUntouched
<1>6. CASE ~Owns(e)
  <2>1. BudgetGoto(e, x, "gone") /\ UNCHANGED bgen BY <1>6 DEF PersistUpgrade
  <2> QED BY <1>3, <1>5, <2>1, GenStands, Leaves DEF BudgetInv
<1>7. CASE Owns(e)
  <2>1. /\ bgen' = [bgen EXCEPT !.effort = x.effort + 1]
        /\ BudgetGoto(e, y, pc)
    BY <1>7 DEF PersistUpgrade
  <2>2. bgen \in BudgetRow /\ bmeter.effort \in Efforts BY <1>3 DEF BudgetInv, RowsInv, MeterRow
  <2>3. bgen' \in BudgetRow /\ bgen'.effort = bmeter.effort
    BY <1>4, <2>1, <2>2 DEF BudgetRow
  <2>4. bgen.effort \in {bmeter.effort - 1, bmeter.effort}
    BY <1>3, <1>4, NoMeterIs DEF BudgetInv, AheadInv
  <2>5. bgen'.effort >= bgen.effort BY <2>2, <2>3, <2>4 DEF Efforts
  <2>6. AheadInv' BY <1>1, <2>3 DEF AheadInv
  <2>7. z \in MemoryRow /\ z.holding = 0 /\ z.costHeld = 0 BY <1>3 DEF MemoryRow
  <2>8. BudgetMaxTokens[bmeter.effort] \in Nat /\ BudgetMaxCost[bmeter.effort] \in Nat
    BY <2>2, BudgetAssumption DEF Efforts
  <2>9. y = [z EXCEPT !.effort = bmeter.effort, !.maxTokens = BudgetMaxTokens[bmeter.effort],
                      !.maxCost = BudgetMaxCost[bmeter.effort]]
    BY <1>1, <1>4 DEF Policy
  <2> HIDE DEF z, y
  <2>10. /\ y \in MemoryRow /\ y.effort = bmeter.effort
         /\ y.holding = 0 /\ y.costHeld = 0
    BY <2>2, <2>7, <2>8, <2>9 DEF MemoryRow
  <2>11. bexec' = [bexec EXCEPT ![e] = w] BY <2>1 DEF BudgetGoto
  <2>12. pc \in {"again", "round"} OBVIOUS
  <2>13. pc \in Places BY <2>12 DEF Places
  <2> HIDE DEF pc
  <2>14. /\ w \in MemoryRow /\ w.pc = pc /\ w.effort = bmeter.effort
         /\ w.holding = 0 /\ w.costHeld = 0
    BY <2>10, <2>13, MemoryAt
  <2> HIDE DEF w
  <2>15. w.effort <= bgen'.effort BY <2>2, <2>3, <2>14 DEF Efforts
  <2>16. bmeter' # NoMeter BY <1>1, <1>3, NoMeterIs
  <2>17. Accords(e, w, bgen'.effort, bmeter', DOMAIN bresv')
    BY <2>12, <2>14, <2>15, <2>16 DEF Accords, Working, Upgrading, Calling
  <2>18. Goes(e, w) BY <1>5, <2>3, <2>5, <2>6, <2>11, <2>17 DEF Goes, MeterStep
  <2> QED BY <2>18, Going DEF Well, Goes
<1> QED BY <1>6, <1>7

LEMMA Crashing == ASSUME BudgetInv, NEW e \in Executions, BudgetCrash(e) PROVE Well
<1>1. Working(bexec[e]) BY DEF BudgetCrash, Working
<1>2. MeterMoves /\ GenKeeps
  BY MeterUntouched, GenStands DEF BudgetCrash, BudgetInv
<1> QED BY <1>1, <1>2, AtWork, Leaves DEF BudgetCrash

\* the steps of nobody's execution
LEMMA GenMoves ==
    ASSUME BudgetInv, BudgetReconcile \/ RecoveryExhausted \/ Late \/ UNCHANGED budgetVars
    PROVE  Well
<1>1. bgen \in BudgetRow BY DEF BudgetInv, RowsInv
<1>2. UNCHANGED <<bmeter, bresv, bexec>>
  BY DEF BudgetReconcile, RecoveryExhausted, Late, budgetVars
<1>3. bgen' \in BudgetRow /\ bgen'.effort = bgen.effort
  <2>1. CASE BudgetReconcile BY <1>1, <2>1 DEF BudgetReconcile, BudgetRow
  <2>2. CASE RecoveryExhausted BY <1>1, <2>2 DEF RecoveryExhausted, BudgetRow
  <2>3. CASE Late BY <1>1, <2>3 DEF Late, BudgetRow
  <2>4. CASE UNCHANGED budgetVars BY <1>1, <2>4 DEF budgetVars
  <2> QED BY <2>1, <2>2, <2>3, <2>4
<1>4. MeterStep BY <1>2, MeterUntouched DEF MeterStep
<1>5. RowsInv' /\ AheadInv' BY <1>2, <1>3 DEF BudgetInv, RowsInv, AheadInv
<1>6. BudgetWithin' BY <1>2, Standing DEF BudgetInv, MeterStepGoal
<1>7. \A e \in Executions : RunInv(e)' BY <1>2, <1>3 DEF BudgetInv, RunInv
<1> QED BY <1>4, <1>5, <1>6, <1>7 DEF Well, BudgetInv

LEMMA BudgetSteps == BudgetInv /\ [BudgetNext]_budgetVars => Well
<1> SUFFICES ASSUME BudgetInv, [BudgetNext]_budgetVars PROVE Well OBVIOUS
<1>1. BudgetEstimates \subseteq Nat /\ BudgetActual \subseteq Nat BY BudgetAssumption
<1>2. ASSUME NEW e \in Executions, BudgetStep(e) PROVE Well
  <2>1. CASE BudgetClaim(e) BY <2>1, Claiming
  <2>2. CASE BeginRound(e) BY <2>2, Beginning
  <2>3. CASE EndRound(e) BY <2>3, Ending
  <2>4. CASE Raised(e) BY <2>4, Raising
  <2>5. CASE PersistUpgrade(e) BY <2>5, PersistingUpgrade
  <2>6. CASE BudgetCrash(e) BY <2>6, Crashing
  <2>7. CASE \E actual \in BudgetActual : Answered(e, actual) BY <1>1, <2>7, AnswersCall
  <2>8. ASSUME NEW estimate \in BudgetEstimates,
               BeginCall(e, estimate) \/ TryAgain(e, estimate) \/ Rewritten(e, estimate)
                 \/ Upgrade(e, estimate)
        PROVE  Well
    <3>1. estimate \in Nat BY <1>1
    <3>2. CASE BeginCall(e, estimate) BY <3>1, <3>2, Dispatching
    <3>3. CASE TryAgain(e, estimate) BY <3>3, TryingAgain
    <3>4. CASE Rewritten(e, estimate) BY <3>4, Rewriting
    <3>5. CASE Upgrade(e, estimate) BY <3>1, <3>5, UpgradingStep
    <3> QED BY <2>8, <3>2, <3>3, <3>4, <3>5
  <2> QED BY <1>2, <2>1, <2>2, <2>3, <2>4, <2>5, <2>6, <2>7, <2>8 DEF BudgetStep
<1> QED BY <1>2, GenMoves DEF BudgetNext

LEMMA BudgetAlways == BudgetSpec => []BudgetInv
<1>1. BudgetInv /\ [BudgetNext]_budgetVars => BudgetInv' BY BudgetSteps DEF Well
<1> QED BY <1>1, InitBudget, PTL DEF BudgetSpec

-----------------------------------------------------------------------------
(* Budget: the books *)

\* a cost is linear in the tokens
LEMMA CostAdds ==
    ASSUME NEW a \in Int, NEW b \in Int
    PROVE  /\ Cost(a) \in Int /\ Cost(0) = 0
           /\ Cost(a + b) = Cost(a) + Cost(b) /\ Cost(a - b) = Cost(a) - Cost(b)
BY BudgetAssumption DEF Cost

\* the units of one reservation more, or of one less
LEMMA UnitsAdd ==
    ASSUME NEW ids, NEW id, id \notin ids, NEW amount, amount[id] \in Nat,
           IsFiniteSet(Units(ids, amount))
    PROVE  /\ IsFiniteSet(Units(ids \cup {id}, amount))
           /\ Cardinality(Units(ids \cup {id}, amount)) = Cardinality(Units(ids, amount)) + amount[id]
<1> DEFINE one == {id} \X (1..amount[id])
<1>1. Units(ids \cup {id}, amount) = Units(ids, amount) \cup one BY DEF Units
<1>2. Units(ids, amount) \cap one = {} BY DEF Units
<1>3. IsFiniteSet(1..amount[id]) /\ Cardinality(1..amount[id]) = amount[id]
  BY FS_Interval, 1 \in Int, amount[id] \in Int
<1>4. IsFiniteSet({id}) /\ Cardinality({id}) = 1 BY FS_Singleton
<1>5. IsFiniteSet(one) /\ Cardinality(one) = amount[id]
  <2>1. IsFiniteSet(one) /\ Cardinality(one) = Cardinality({id}) * Cardinality(1..amount[id])
    BY <1>3, <1>4, FS_Product
  <2> QED BY <1>3, <1>4, <2>1
<1> HIDE DEF one
<1>6. Cardinality({}) = 0 BY FS_EmptySet
<1>7. Cardinality(Units(ids, amount)) \in Nat BY FS_CardinalityType
<1>8. /\ IsFiniteSet(Units(ids, amount) \cup one)
      /\ Cardinality(Units(ids, amount) \cup one)
           = Cardinality(Units(ids, amount)) + Cardinality(one) - Cardinality(Units(ids, amount) \cap one)
  BY <1>5, FS_Union
<1>9. Cardinality(Units(ids, amount) \cup one) = Cardinality(Units(ids, amount)) + amount[id]
  <2>1. Cardinality(Units(ids, amount) \cap one) = 0 BY Zenon, <1>2, <1>6
  <2>2. Cardinality(one) = amount[id] BY <1>5
  <2> DEFINE both == Cardinality(Units(ids, amount) \cap one)
             sum == Cardinality(Units(ids, amount) \cup one)
             first == Cardinality(Units(ids, amount))
             second == Cardinality(one)
  <2>3. sum = first + second - both /\ both = 0 /\ second = amount[id] /\ first \in Nat
    BY <1>7, <1>8, <2>1, <2>2
  <2> HIDE DEF both, sum, first, second
  <2>4. sum = first + amount[id] BY <2>3
  <2> QED BY <2>4 DEF sum, first
<1> QED BY Zenon, <1>1, <1>8, <1>9

LEMMA UnitsRemove ==
    ASSUME NEW ids, NEW id \in ids, NEW amount, amount[id] \in Nat,
           IsFiniteSet(Units(ids, amount))
    PROVE  /\ IsFiniteSet(Units(ids \ {id}, amount))
           /\ Cardinality(Units(ids \ {id}, amount)) = Cardinality(Units(ids, amount)) - amount[id]
<1>1. Units(ids \ {id}, amount) \subseteq Units(ids, amount) BY DEF Units
<1>2. IsFiniteSet(Units(ids \ {id}, amount)) BY <1>1, FS_Subset
<1>3. Cardinality(Units(ids \ {id}, amount)) \in Nat BY <1>2, FS_CardinalityType
<1>4. (ids \ {id}) \cup {id} = ids OBVIOUS
<1>5. Cardinality(Units((ids \ {id}) \cup {id}, amount)) = Cardinality(Units(ids \ {id}, amount)) + amount[id]
  BY <1>2, UnitsAdd
<1>6. Cardinality(Units(ids, amount)) = Cardinality(Units(ids \ {id}, amount)) + amount[id]
  BY <1>4, <1>5
<1> QED BY <1>2, <1>3, <1>6

\* amounts that agree on the reservations counted
LEMMA UnitsAgree ==
    ASSUME NEW ids, NEW a, NEW b, \A id \in ids : a[id] = b[id]
    PROVE  Units(ids, a) = Units(ids, b)
BY DEF Units

Searches == {id \in DOMAIN bresv : IsRag(id)}
BooksInv ==
    /\ BudgetBooks
    /\ IsFiniteSet(Searches)
    /\ IsFiniteSet(Units(Rows("reserved"), Tokens)) /\ IsFiniteSet(Units(Rows("settled"), Actual))

LEMMA InitBooks == BudgetInit => BooksInv
<1> SUFFICES ASSUME BudgetInit PROVE BooksInv OBVIOUS
<1>1. DOMAIN bresv = {} /\ bmeter = NoMeter BY DEF BudgetInit
<1>2. /\ Searches = {} /\ Units(Rows("reserved"), Tokens) = {} /\ Units(Rows("settled"), Actual) = {}
  BY <1>1 DEF Searches, Units, Rows
<1>3. IsFiniteSet({}) /\ Cardinality({}) = 0 BY FS_EmptySet
<1>4. Cost(0) = 0 BY CostAdds
<1> QED BY <1>1, <1>2, <1>3, <1>4 DEF BooksInv, BudgetBooks, NoMeter, Searches

\* the books after a step, from what it makes of the meter and of each sum
LEMMA BooksStand ==
    ASSUME BooksInv, bmeter \in MeterRow \cup {NoMeter},
           UNCHANGED bresv, bmeter'.rag = bmeter.rag,
           bmeter'.reserved = bmeter.reserved, bmeter'.reservedCost = bmeter.reservedCost,
           bmeter'.used = bmeter.used, bmeter'.settledCost = bmeter.settledCost
    PROVE  BooksInv'
BY DEF BooksInv, BudgetBooks, Searches, Rows, Tokens, Actual, Units, Cost

LEMMA BooksReserve ==
    ASSUME RowsInv, BooksInv, bmeter \in MeterRow, NEW id, NEW amount \in Nat, Reserves(id, amount)
    PROVE  BooksInv'
<1> DEFINE row == [status |-> "reserved", tokens |-> amount, actual |-> 0]
<1>1. /\ bresv' = [i \in DOMAIN bresv \cup {id} |-> IF i = id THEN row ELSE bresv[i]]
      /\ bmeter' = [bmeter EXCEPT !.rag = @ + (IF IsRag(id) THEN 1 ELSE 0),
                                  !.reserved = @ + amount,
                                  !.reservedCost = @ + Cost(amount)]
      /\ id \notin DOMAIN bresv
  BY DEF Reserves, Reserve
<1>2. /\ bmeter'.rag = bmeter.rag + (IF IsRag(id) THEN 1 ELSE 0)
      /\ bmeter'.reserved = bmeter.reserved + amount
      /\ bmeter'.reservedCost = bmeter.reservedCost + Cost(amount)
      /\ bmeter'.used = bmeter.used /\ bmeter'.settledCost = bmeter.settledCost
      /\ bmeter.reserved \in Int
  BY <1>1 DEF MeterRow
<1>3. /\ DOMAIN bresv' = DOMAIN bresv \cup {id} /\ bresv'[id] = row
      /\ \A i \in DOMAIN bresv : bresv'[i] = bresv[i]
  BY <1>1
<1>4. /\ Rows("reserved")' = Rows("reserved") \cup {id} /\ id \notin Rows("reserved")
      /\ Rows("settled")' = Rows("settled")
  BY <1>1, <1>3 DEF Rows
<1>5. /\ \A i \in Rows("reserved") : Tokens'[i] = Tokens[i]
      /\ \A i \in Rows("settled") : Actual'[i] = Actual[i]
      /\ Tokens'[id] = amount
  BY <1>3 DEF Rows, Tokens, Actual
<1>6. Units(Rows("reserved"), Tokens') = Units(Rows("reserved"), Tokens) BY <1>5, UnitsAgree
<1>7. Units(Rows("settled"), Actual') = Units(Rows("settled"), Actual) BY <1>5, UnitsAgree
<1>8. /\ IsFiniteSet(Units(Rows("reserved") \cup {id}, Tokens'))
      /\ Cardinality(Units(Rows("reserved") \cup {id}, Tokens'))
           = Cardinality(Units(Rows("reserved"), Tokens)) + amount
  <2>1. IsFiniteSet(Units(Rows("reserved"), Tokens')) BY <1>6 DEF BooksInv
  <2> QED BY <1>4, <1>5, <1>6, <2>1, UnitsAdd
<1>9. /\ IsFiniteSet(Searches')
      /\ Cardinality(Searches') = Cardinality(Searches) + (IF IsRag(id) THEN 1 ELSE 0)
  <2>1. IsFiniteSet(Searches) /\ Cardinality(Searches) \in Nat BY FS_CardinalityType DEF BooksInv
  <2>2. CASE IsRag(id)
    <3>1. Searches' = Searches \cup {id} /\ id \notin Searches BY <1>1, <1>3, <2>2 DEF Searches
    <3> QED BY <2>1, <2>2, <3>1, FS_AddElement
  <2>3. CASE ~IsRag(id)
    <3>1. Searches' = Searches BY <1>3, <2>3 DEF Searches
    <3> QED BY <2>1, <2>3, <3>1
  <2> QED BY <2>2, <2>3
<1>10. Cost(bmeter'.reserved) = Cost(bmeter.reserved) + Cost(amount)
  <2>1. bmeter.reserved \in Int /\ amount \in Int BY <1>2
  <2>2. Cost(bmeter.reserved + amount) = Cost(bmeter.reserved) + Cost(amount) BY <2>1, CostAdds
  <2> QED BY <1>2, <2>2
<1> HIDE DEF row
<1>11. BudgetBooks'
  <2>1. bmeter'.rag = Cardinality(Searches') BY <1>2, <1>9 DEF BooksInv, BudgetBooks, Searches
  <2>2. bmeter'.reserved = Cardinality(Units(Rows("reserved")', Tokens'))
    BY <1>2, <1>4, <1>8 DEF BooksInv, BudgetBooks
  <2>3. bmeter'.used = Cardinality(Units(Rows("settled")', Actual'))
    BY <1>2, <1>4, <1>7 DEF BooksInv, BudgetBooks
  <2>4. bmeter'.reservedCost = Cost(bmeter'.reserved) /\ bmeter'.settledCost = Cost(bmeter'.used)
    BY <1>2, <1>10 DEF BooksInv, BudgetBooks
  <2> QED BY <2>1, <2>2, <2>3, <2>4 DEF BudgetBooks, Searches, Cost
<1> QED BY <1>4, <1>7, <1>8, <1>9, <1>11 DEF BooksInv

\* a reservation that is no longer held, and what it used if it was settled
LEMMA BooksGiveBack ==
    ASSUME RowsInv, BooksInv, bmeter \in MeterRow, NEW id \in DOMAIN bresv, bresv[id].status = "reserved",
           NEW status \in {"settled", "released"}, NEW actual \in Nat,
           bresv' = [bresv EXCEPT ![id] = [bresv[id] EXCEPT !.status = status, !.actual = actual]],
           bmeter'.rag = bmeter.rag, bmeter'.reserved = bmeter.reserved - bresv[id].tokens,
           bmeter'.reservedCost = bmeter.reservedCost - Cost(bresv[id].tokens),
           bmeter'.used = bmeter.used + (IF status = "settled" THEN actual ELSE 0),
           bmeter'.settledCost = bmeter.settledCost + (IF status = "settled" THEN Cost(actual) ELSE 0)
    PROVE  BooksInv'
<1> DEFINE row == [bresv[id] EXCEPT !.status = status, !.actual = actual]
<1>1. /\ row.status = status /\ row.actual = actual /\ row.tokens = bresv[id].tokens
      /\ bresv[id].tokens \in Nat
  BY DEF RowsInv, HeldRow
<1>2. /\ DOMAIN bresv' = DOMAIN bresv /\ bresv'[id] = row
      /\ \A i \in DOMAIN bresv : i # id => bresv'[i] = bresv[i]
  OBVIOUS
<1> HIDE DEF row
<1>3. /\ Rows("reserved")' = Rows("reserved") \ {id} /\ id \in Rows("reserved")
      /\ Rows("settled")' = IF status = "settled" THEN Rows("settled") \cup {id} ELSE Rows("settled")
      /\ id \notin Rows("settled")
  BY <1>1, <1>2 DEF Rows
<1>4. /\ Tokens' = Tokens /\ \A i \in Rows("settled") : Actual'[i] = Actual[i]
      /\ Actual'[id] = actual /\ Tokens[id] = bresv[id].tokens
  <2>1. \A i \in DOMAIN bresv : bresv'[i].tokens = bresv[i].tokens BY <1>1, <1>2
  <2>2. Tokens' = Tokens BY <1>2, <2>1 DEF Tokens
  <2> QED BY <1>1, <1>2, <1>3, <2>2 DEF Tokens, Actual, Rows
<1>5. /\ IsFiniteSet(Units(Rows("reserved")', Tokens'))
      /\ Cardinality(Units(Rows("reserved")', Tokens'))
           = Cardinality(Units(Rows("reserved"), Tokens)) - bresv[id].tokens
  <2>1. IsFiniteSet(Units(Rows("reserved"), Tokens)) /\ Tokens[id] \in Nat BY <1>1, <1>4 DEF BooksInv
  <2>2. /\ IsFiniteSet(Units(Rows("reserved") \ {id}, Tokens))
        /\ Cardinality(Units(Rows("reserved") \ {id}, Tokens))
             = Cardinality(Units(Rows("reserved"), Tokens)) - Tokens[id]
    BY <1>3, <2>1, UnitsRemove
  <2> QED BY <1>3, <1>4, <2>2
<1>6. /\ IsFiniteSet(Units(Rows("settled")', Actual'))
      /\ Cardinality(Units(Rows("settled")', Actual'))
           = Cardinality(Units(Rows("settled"), Actual)) + (IF status = "settled" THEN actual ELSE 0)
  <2>1. Units(Rows("settled"), Actual') = Units(Rows("settled"), Actual) BY <1>4, UnitsAgree
  <2>2. IsFiniteSet(Units(Rows("settled"), Actual')) BY <2>1 DEF BooksInv
  <2>3. CASE status = "settled"
    <3>1. /\ IsFiniteSet(Units(Rows("settled") \cup {id}, Actual'))
          /\ Cardinality(Units(Rows("settled") \cup {id}, Actual'))
               = Cardinality(Units(Rows("settled"), Actual')) + Actual'[id]
      <4>1. Actual'[id] \in Nat BY <1>4
      <4> QED BY <1>3, <2>2, <4>1, UnitsAdd
    <3> QED BY <1>3, <1>4, <2>1, <2>3, <3>1
  <2>4. CASE status # "settled"
    <3>1. Cardinality(Units(Rows("settled"), Actual)) \in Nat BY FS_CardinalityType DEF BooksInv
    <3> QED BY <1>3, <2>1, <2>2, <2>4, <3>1
  <2> QED BY <2>3, <2>4
<1>7. Searches' = Searches BY <1>2 DEF Searches
<1>8. /\ bmeter.reservedCost = Cost(bmeter.reserved) /\ bmeter.settledCost = Cost(bmeter.used)
      /\ bmeter.reserved \in Int /\ bmeter.used \in Int
  BY DEF BooksInv, BudgetBooks, MeterRow
<1>9. bmeter'.reservedCost = Cost(bmeter'.reserved)
  <2>1. bresv[id].tokens \in Int BY <1>1
  <2>2. Cost(bmeter.reserved - bresv[id].tokens) = Cost(bmeter.reserved) - Cost(bresv[id].tokens)
    BY <1>8, <2>1, CostAdds
  <2> QED BY <1>8, <2>2
<1>10. bmeter'.settledCost = Cost(bmeter'.used)
  <2>1. actual \in Int /\ Cost(bmeter.used) \in Int BY <1>8, CostAdds
  <2>2. Cost(bmeter.used + actual) = Cost(bmeter.used) + Cost(actual) BY <1>8, <2>1, CostAdds
  <2>3. CASE status = "settled" BY <1>8, <2>2, <2>3
  <2>4. CASE status # "settled" BY <1>8, <2>1, <2>4
  <2> QED BY <2>3, <2>4
<1>11. BudgetBooks'
  <2>1. bmeter'.rag = Cardinality(Searches') BY <1>7 DEF BooksInv, BudgetBooks, Searches
  <2>2. bmeter'.reserved = Cardinality(Units(Rows("reserved")', Tokens'))
    BY <1>5 DEF BooksInv, BudgetBooks
  <2>3. bmeter'.used = Cardinality(Units(Rows("settled")', Actual'))
    BY <1>6 DEF BooksInv, BudgetBooks
  <2> QED BY <1>9, <1>10, <2>1, <2>2, <2>3 DEF BudgetBooks, Searches, Cost
<1> QED BY <1>5, <1>6, <1>7, <1>11 DEF BooksInv

LEMMA BooksStep == BudgetInv /\ BooksInv /\ MeterStep => BooksInv'
<1> SUFFICES ASSUME BudgetInv, BooksInv, MeterStep PROVE BooksInv' OBVIOUS
<1>1. RowsInv /\ bmeter \in MeterRow \cup {NoMeter} BY DEF BudgetInv, RowsInv
<1>2. CASE UNCHANGED <<bmeter, bresv>> BY <1>1, <1>2, BooksStand
<1>3. CASE bmeter = NoMeter /\ EnsureMeter(bgen.effort) /\ UNCHANGED bresv
  <2>1. bmeter' = [NoMeter EXCEPT !.effort = bgen.effort, !.status = "active"] BY <1>3 DEF EnsureMeter
  <2>2. /\ bmeter'.rag = bmeter.rag /\ bmeter'.reserved = bmeter.reserved /\ bmeter'.used = bmeter.used
        /\ bmeter'.reservedCost = bmeter.reservedCost /\ bmeter'.settledCost = bmeter.settledCost
    BY <1>3, <2>1 DEF NoMeter
  <2> QED BY <1>1, <1>3, <2>2, BooksStand
<1>4. ASSUME bmeter \in MeterRow, NEW id, NEW amount \in Nat, Reserves(id, amount) PROVE BooksInv'
  BY <1>1, <1>4, BooksReserve
<1>5. ASSUME bmeter \in MeterRow, NEW id \in DOMAIN bresv, MarkUnknown(id) PROVE BooksInv'
  <2>1. CASE bresv[id].status # "reserved" BY <1>1, <1>5, <2>1, BooksStand DEF MarkUnknown
  <2>2. CASE bresv[id].status = "reserved"
    <3>1. bresv[id] \in HeldRow BY <1>1 DEF RowsInv
    <3>2. /\ bresv' = [bresv EXCEPT ![id] = [bresv[id] EXCEPT !.status = "released"]]
          /\ bmeter' = [GiveBack(bmeter, id) EXCEPT !.status = "exhausted"]
      BY <1>5, <2>2 DEF MarkUnknown
    <3>3. [bresv[id] EXCEPT !.status = "released"]
            = [bresv[id] EXCEPT !.status = "released", !.actual = bresv[id].actual]
      BY <3>1 DEF HeldRow
    <3>4. bresv' = [bresv EXCEPT ![id] = [bresv[id] EXCEPT !.status = "released", !.actual = bresv[id].actual]]
      BY <3>2, <3>3
    <3>5. /\ bmeter'.rag = bmeter.rag /\ bmeter'.reserved = bmeter.reserved - bresv[id].tokens
          /\ bmeter'.reservedCost = bmeter.reservedCost - Cost(bresv[id].tokens)
          /\ bmeter'.used = bmeter.used /\ bmeter'.settledCost = bmeter.settledCost
          /\ bmeter.used \in Int /\ bmeter.settledCost \in Int
      BY <1>5, <3>2 DEF GiveBack, MeterRow
    <3>6. bresv[id].actual \in Nat BY <3>1 DEF HeldRow
    <3>7. /\ bmeter'.used = bmeter.used + (IF "released" = "settled" THEN bresv[id].actual ELSE 0)
          /\ bmeter'.settledCost
               = bmeter.settledCost + (IF "released" = "settled" THEN Cost(bresv[id].actual) ELSE 0)
      BY <3>5
    <3> QED BY <1>1, <1>5, <2>2, <3>4, <3>5, <3>6, <3>7, BooksGiveBack
  <2> QED BY <2>1, <2>2
<1>6. ASSUME bmeter \in MeterRow, NEW id \in DOMAIN bresv, NEW actual \in Nat, Settle(id, actual)
      PROVE  BooksInv'
  <2>1. CASE bresv[id].status = "settled" BY <1>1, <1>6, <2>1, BooksStand DEF Settle
  <2>2. CASE bresv[id].status # "settled"
    <3> DEFINE over == \/ bmeter.used + actual > BudgetMaxTokens[bmeter.effort]
                       \/ bmeter.settledCost + Cost(actual) > BudgetMaxCost[bmeter.effort]
                       \/ Cost(actual) > Cost(bresv[id].tokens)
    <3>1. /\ bresv[id].status = "reserved"
          /\ bresv' = [bresv EXCEPT ![id].status = "settled", ![id].actual = actual]
          /\ bmeter' = [GiveBack(bmeter, id) EXCEPT
                           !.used = bmeter.used + actual, !.settledCost = bmeter.settledCost + Cost(actual),
                           !.status = IF over THEN "exhausted" ELSE @]
      BY <1>6, <2>2 DEF Settle
    <3>2. bresv' = [bresv EXCEPT ![id] = [bresv[id] EXCEPT !.status = "settled", !.actual = actual]]
      BY <3>1
    <3> HIDE DEF over
    <3>3. /\ bmeter'.rag = bmeter.rag /\ bmeter'.reserved = bmeter.reserved - bresv[id].tokens
          /\ bmeter'.reservedCost = bmeter.reservedCost - Cost(bresv[id].tokens)
          /\ bmeter'.used = bmeter.used + actual
          /\ bmeter'.settledCost = bmeter.settledCost + Cost(actual)
      BY <1>6, <3>1 DEF GiveBack, MeterRow
    <3> QED BY <1>1, <1>6, <3>1, <3>2, <3>3, BooksGiveBack
  <2> QED BY <2>1, <2>2
<1>7. CASE MeterUpgrades
  <2>1. bmeter \in MeterRow /\ bmeter' = [bmeter EXCEPT !.effort = bmeter.effort + 1, !.upgrades = 1]
        /\ UNCHANGED bresv
    BY <1>7 DEF MeterUpgrades, UpgradeMeter
  <2>2. /\ bmeter'.rag = bmeter.rag /\ bmeter'.reserved = bmeter.reserved /\ bmeter'.used = bmeter.used
        /\ bmeter'.reservedCost = bmeter.reservedCost /\ bmeter'.settledCost = bmeter.settledCost
    BY <2>1 DEF MeterRow
  <2> QED BY <1>1, <2>1, <2>2, BooksStand
<1> QED BY <1>2, <1>3, <1>4, <1>5, <1>6, <1>7 DEF MeterStep, MeterMoves

-----------------------------------------------------------------------------
(* Prices *)

VersionRow == [from : Nat \ {0}, to : Nat]
CallStages == {"prepared", "not_sent", "dispatching", "unknown", "completed"}
CallRow == [status : CallStages, sample : Nat, locks : SUBSET Nat, started : Nat, under : Nat,
            version : Nat, amount : Nat, cost : {"none", "unavailable", "complete", "partial"},
            used : [Meters -> Nat]]

PriceTypeOK ==
    /\ pnow \in Nat
    /\ pversions \in Seq(VersionRow)
    /\ pcalls \in [PriceCalls -> CallRow]

\* Not only neighbours: every version ends before every later one begins
Ordered ==
    \A v, w \in VersionIds : v < w => pversions[v].to # Open /\ pversions[v].to <= pversions[w].from

\* A call that was sent is bound to the version it was sent under
Bound(call) ==
    call.status \in {"dispatching", "unknown", "completed"} =>
        /\ call.under \in VersionIds /\ Covers(pversions[call.under], call.started)
        /\ call.status = "completed" => call.version = call.under
\* What a completed call is charged
Charged(call) ==
    call.status = "completed" /\ call.cost = "complete" =>
        /\ call.amount * PriceGranularity >= call.version * (call.used["input"] + call.used["output"])
        /\ (call.amount = 0) <=> (\A m \in Meters : call.used[m] = 0)

PriceInv ==
    /\ PriceTypeOK /\ PriceIntervals /\ Ordered
    /\ \A c \in PriceCalls : Bound(pcalls[c]) /\ Charged(pcalls[c])

\* an instant is in one version at most
LEMMA OneVersion ==
    ASSUME PriceTypeOK, Ordered, NEW at \in Nat, NEW v \in VersionIds, NEW w \in VersionIds,
           Covers(pversions[v], at), Covers(pversions[w], at)
    PROVE  v = w
<1>1. /\ pversions[v] \in VersionRow /\ pversions[w] \in VersionRow /\ v \in Int /\ w \in Int
  BY DEF PriceTypeOK, VersionIds
<1>2. ~(v < w) BY <1>1 DEF Ordered, Covers, VersionRow
<1>3. ~(w < v) BY <1>1 DEF Ordered, Covers, VersionRow
<1> QED BY <1>1, <1>2, <1>3

LEMMA SelectedIs ==
    ASSUME PriceTypeOK, Ordered, NEW at \in Nat, NEW v \in VersionIds, Covers(pversions[v], at)
    PROVE  Selected(at) = {v}
<1>1. v \in Nat BY DEF PriceTypeOK, VersionIds
<1>2. \A w \in VersionIds : Covers(pversions[w], at) => w = v BY OneVersion
<1>3. v <= v BY <1>1
<1> QED BY <1>2, <1>3 DEF Selected

LEMMA PriceBegins == PriceInit => PriceInv
<1> SUFFICES ASSUME PriceInit PROVE PriceInv OBVIOUS
<1>1. NewCall \in CallRow /\ NewCall.status = "prepared" BY DEF NewCall, CallRow, CallStages, Meters
<1> HIDE DEF NewCall
<1>2. pversions = << >> /\ VersionIds = {} BY DEF PriceInit, VersionIds
<1>3. PriceTypeOK BY <1>1, <1>2 DEF PriceInit, PriceTypeOK
<1>4. PriceIntervals /\ Ordered BY <1>2 DEF PriceIntervals, Ordered
<1>5. \A c \in PriceCalls : Bound(pcalls[c]) /\ Charged(pcalls[c])
  BY <1>1 DEF PriceInit, Bound, Charged
<1> QED BY <1>3, <1>4, <1>5 DEF PriceInv

\* a step of one call
LEMMA OneCall ==
    ASSUME PriceInv, NEW c \in PriceCalls, NEW call \in CallRow, Set(c, call), Bound(call), Charged(call),
           UNCHANGED <<pnow, pversions>>
    PROVE  PriceInv'
<1>1. pcalls' \in [PriceCalls -> CallRow] /\ \A d \in PriceCalls : pcalls'[d] \in {pcalls[d], call}
  BY DEF PriceInv, PriceTypeOK, Set
<1>2. PriceTypeOK' BY <1>1 DEF PriceInv, PriceTypeOK
<1>3. PriceIntervals' /\ Ordered' BY DEF PriceInv, PriceIntervals, Ordered, VersionIds
<1>4. \A d \in PriceCalls : Bound(pcalls[d]) /\ Charged(pcalls[d]) BY DEF PriceInv
<1>5. ASSUME NEW d \in PriceCalls PROVE Bound(pcalls[d])' /\ Charged(pcalls[d])'
  <2>1. CASE pcalls'[d] = call BY <2>1 DEF Bound, Charged, VersionIds, Covers
  <2>2. CASE pcalls'[d] = pcalls[d] BY <1>4, <2>2 DEF Bound, Charged, VersionIds, Covers
  <2> QED BY <1>1, <2>1, <2>2
<1> QED BY <1>2, <1>3, <1>5 DEF PriceInv

\* a call that is not sent, or loses its locks, owes nothing
LEMMA CallRests ==
    ASSUME PriceInv, NEW c \in PriceCalls, NEW status \in {"prepared", "not_sent"}, NEW locks \in SUBSET Nat,
           NEW sample \in Nat,
           Set(c, [pcalls[c] EXCEPT !.status = status, !.locks = locks, !.sample = sample]),
           UNCHANGED <<pnow, pversions>>
    PROVE  PriceInv'
<1> DEFINE call == [pcalls[c] EXCEPT !.status = status, !.locks = locks, !.sample = sample]
<1>1. call \in CallRow /\ call.status = status BY DEF PriceInv, PriceTypeOK, CallRow, CallStages
<1>2. Bound(call) /\ Charged(call) BY <1>1 DEF Bound, Charged
<1> HIDE DEF call
<1> QED BY <1>1, <1>2, OneCall DEF call

LEMMA Unsent ==
    ASSUME PriceInv, NEW c \in PriceCalls, NotSent(c), UNCHANGED <<pnow, pversions>> PROVE PriceInv'
<1>1. pcalls[c] \in CallRow BY DEF PriceInv, PriceTypeOK
<1>2. NotSent(c) => Set(c, [pcalls[c] EXCEPT !.status = "not_sent", !.locks = {}, !.sample = pcalls[c].sample])
  BY <1>1 DEF NotSent, CallRow, Set
<1>3. pcalls[c].sample \in Nat BY <1>1 DEF CallRow
<1> QED BY <1>2, <1>3, CallRests

LEMMA Locking ==
    ASSUME PriceInv, NEW c \in PriceCalls, LockPrice(c) \/ DispatchFails(c) PROVE PriceInv'
<1>1. /\ pcalls[c] \in CallRow /\ pnow \in Nat /\ VersionIds \subseteq Nat
      /\ UNCHANGED <<pnow, pversions>> /\ pcalls[c].status = "prepared"
  <2>1. pcalls[c] \in CallRow /\ pnow \in Nat BY DEF PriceInv, PriceTypeOK
  <2>2. VersionIds \subseteq Nat BY DEF PriceInv, PriceTypeOK, VersionIds
  <2> QED BY <2>1, <2>2 DEF LockPrice, DispatchFails
<1>2. CASE DispatchFails(c)
  <2>1. Set(c, [pcalls[c] EXCEPT !.status = "prepared", !.locks = {}, !.sample = pcalls[c].sample])
    BY <1>1, <1>2 DEF DispatchFails, CallRow, Set
  <2>2. pcalls[c].sample \in Nat BY <1>1 DEF CallRow
  <2> QED BY <1>1, <2>1, <2>2, CallRests
<1>3. CASE LockPrice(c)
  <2> DEFINE at == IF pcalls[c].locks = {} THEN pnow ELSE pcalls[c].sample
  <2>1. at \in Nat BY <1>1 DEF CallRow
  <2>2. \/ NotSent(c)
        \/ \E v \in Selected(at) : Set(c, [pcalls[c] EXCEPT !.locks = @ \cup {v}, !.sample = at])
    BY <1>3 DEF LockPrice
  <2>3. ASSUME NEW v \in Selected(at), Set(c, [pcalls[c] EXCEPT !.locks = @ \cup {v}, !.sample = at])
        PROVE  PriceInv'
    <3>1. v \in Nat BY <1>1 DEF Selected
    <3>2. pcalls[c].locks \cup {v} \in SUBSET Nat BY <1>1, <3>1 DEF CallRow
    <3>3. [pcalls[c] EXCEPT !.locks = @ \cup {v}, !.sample = at]
            = [pcalls[c] EXCEPT !.status = "prepared", !.locks = pcalls[c].locks \cup {v}, !.sample = at]
      BY <1>1 DEF CallRow
    <3>4. Set(c, [pcalls[c] EXCEPT !.status = "prepared", !.locks = pcalls[c].locks \cup {v}, !.sample = at])
      BY <2>3, <3>3
    <3> HIDE DEF at
    <3> QED BY <1>1, <2>1, <3>2, <3>4, CallRests
  <2> QED BY <1>1, <2>2, <2>3, Unsent
<1> QED BY <1>2, <1>3

\* mark_dispatching sends under the version that covers the time it is sent at
LEMMA Sending == ASSUME PriceInv, NEW c \in PriceCalls, Dispatch(c) PROVE PriceInv'
<1>1. /\ pcalls[c] \in CallRow /\ pnow \in Nat /\ VersionIds \subseteq Nat
      /\ UNCHANGED <<pnow, pversions>> /\ pcalls[c].status = "prepared"
  <2>1. pcalls[c] \in CallRow /\ pnow \in Nat BY DEF PriceInv, PriceTypeOK
  <2>2. VersionIds \subseteq Nat BY DEF PriceInv, PriceTypeOK, VersionIds
  <2> QED BY <2>1, <2>2 DEF Dispatch
<1> DEFINE good == {v \in pcalls[c].locks : v \in Selected(pcalls[c].sample) /\ Covers(pversions[v], pnow)}
<1>2. \/ NotSent(c)
      \/ \E v \in good : Set(c, [pcalls[c] EXCEPT !.status = "dispatching", !.locks = {},
                                                  !.started = pnow, !.under = v])
      \/ Set(c, [pcalls[c] EXCEPT !.sample = pnow])
  BY DEF Dispatch
<1>3. ASSUME NEW v \in good, Set(c, [pcalls[c] EXCEPT !.status = "dispatching", !.locks = {},
                                                      !.started = pnow, !.under = v])
      PROVE  PriceInv'
  <2> DEFINE call == [pcalls[c] EXCEPT !.status = "dispatching", !.locks = {}, !.started = pnow, !.under = v]
  <2>1. v \in VersionIds /\ Covers(pversions[v], pnow) BY DEF Selected
  <2>2. /\ call \in CallRow /\ call.status = "dispatching" /\ call.under = v /\ call.started = pnow
    BY <1>1, <2>1 DEF CallRow, CallStages
  <2> HIDE DEF call
  <2>3. Bound(call) /\ Charged(call) BY <2>1, <2>2 DEF Bound, Charged
  <2> QED BY <1>1, <1>3, <2>2, <2>3, OneCall DEF call
<1>4. ASSUME Set(c, [pcalls[c] EXCEPT !.sample = pnow]) PROVE PriceInv'
  <2>1. [pcalls[c] EXCEPT !.sample = pnow]
          = [pcalls[c] EXCEPT !.status = "prepared", !.locks = pcalls[c].locks, !.sample = pnow]
    BY <1>1 DEF CallRow
  <2>2. pcalls[c].locks \in SUBSET Nat BY <1>1 DEF CallRow
  <2> QED BY <1>1, <1>4, <2>1, <2>2, CallRests
<1> QED BY <1>1, <1>2, <1>3, <1>4, Unsent

\* blocks of the granularity, rounded up, are at least what they are for
LEMMA CeilingCovers ==
    ASSUME NEW n \in Nat
    PROVE  /\ Ceiling(n, PriceGranularity) \in Nat
           /\ Ceiling(n, PriceGranularity) * PriceGranularity >= n
           /\ n > 0 => Ceiling(n, PriceGranularity) >= 1
<1> DEFINE g == PriceGranularity
           a == n + g - 1
           q == a \div g
           r == a % g
<1>1. g \in Nat /\ g >= 1 BY PriceAssumption
<1>2. a \in Nat /\ a = n + g - 1 BY <1>1
<1> HIDE DEF a, g
<1>3. q \in Int /\ r \in 0..(g - 1) /\ a = g * q + r BY <1>1, <1>2
<1> HIDE DEF q, r
<1>4. g * q >= n BY <1>1, <1>2, <1>3
<1>5. g * q = q * g BY <1>1, <1>3
<1>6. q >= 0
  <2>1. SUFFICES ASSUME q < 0 PROVE FALSE BY <1>3
  <2>2. q <= 0 - 1 BY <1>3, <2>1
  <2>3. g * q <= g * (0 - 1) BY <1>1, <1>3, <2>2
  <2>4. g * (0 - 1) = 0 - g BY <1>1
  <2>5. g * q \in Int /\ g * q < 0 BY <1>1, <1>3, <2>3, <2>4
  <2> QED BY <1>4, <2>5
<1>7. n > 0 => q >= 1
  <2>1. SUFFICES ASSUME n > 0, q = 0 PROVE FALSE BY <1>3, <1>6
  <2>2. g * q = 0 BY <1>1, <2>1
  <2> QED BY <1>4, <2>1, <2>2
<1>8. q = Ceiling(n, PriceGranularity) BY DEF q, a, g, Ceiling
<1> QED BY <1>3, <1>4, <1>5, <1>6, <1>7, <1>8 DEF g

LEMMA LineCovers ==
    ASSUME NEW rate \in Nat \ {0}, NEW quantity \in Nat
    PROVE  /\ LineTotal(rate, quantity) \in Nat
           /\ LineTotal(rate, quantity) * PriceGranularity >= rate * quantity
           /\ (LineTotal(rate, quantity) = 0) <=> (quantity = 0)
<1>1. PriceGranularity \in Nat /\ PriceMinimum \in Nat BY PriceAssumption
<1>2. CASE quantity = 0
  <2>1. LineTotal(rate, quantity) = 0 BY <1>2 DEF LineTotal
  <2>2. 0 * PriceGranularity = 0 /\ rate * 0 = 0 BY <1>1
  <2> QED BY <1>2, <2>1, <2>2
<1>3. CASE quantity # 0
  <2> DEFINE billed == IF quantity < PriceMinimum THEN PriceMinimum ELSE quantity
             blocks == Ceiling(billed, PriceGranularity)
  <2>1. billed \in Nat /\ billed >= quantity /\ billed > 0 BY <1>1, <1>3
  <2>2. LineTotal(rate, quantity) = rate * blocks BY <1>3 DEF LineTotal
  <2> HIDE DEF billed
  <2>3. blocks \in Nat /\ blocks * PriceGranularity >= billed /\ blocks >= 1 BY <2>1, CeilingCovers
  <2> HIDE DEF blocks
  <2>4. blocks * PriceGranularity \in Nat /\ blocks * PriceGranularity >= quantity BY <1>1, <2>1, <2>3
  <2>5. rate * (blocks * PriceGranularity) >= rate * quantity
    <3> DEFINE x == blocks * PriceGranularity
    <3>1. x \in Nat /\ x >= quantity BY <2>4
    <3> HIDE DEF x
    <3>2. rate * x >= rate * quantity BY <3>1
    <3> QED BY <3>2 DEF x
  <2>6. (rate * blocks) * PriceGranularity = rate * (blocks * PriceGranularity) BY <1>1, <2>3
  <2>7. rate * blocks \in Nat /\ rate * blocks >= 1 BY <2>3
  <2> QED BY <1>3, <2>2, <2>5, <2>6, <2>7
<1> QED BY <1>2, <1>3

\* _complete_usage prices the call at the version of its send time, which is the
\* one it was sent under
LEMMA Completing ==
    ASSUME PriceInv, NEW c \in PriceCalls, NEW used \in [Meters -> PriceQuantities],
           NEW availability \in [Meters -> {"complete", "unavailable"}],
           CompleteUsage(c, used, availability)
    PROVE  PriceInv'
<1>1. /\ pcalls[c] \in CallRow /\ UNCHANGED <<pnow, pversions>>
      /\ pcalls[c].status \in {"dispatching", "unknown"} /\ Bound(pcalls[c])
      /\ pcalls[c].started \in Nat
  BY DEF PriceInv, PriceTypeOK, CompleteUsage, CallRow
<1> DEFINE amount(v) == EstimateCost(v, used, availability)
           status == CostStatusOf(availability)
           call(v) == [pcalls[c] EXCEPT !.status = "completed", !.version = v, !.used = used,
                                        !.amount = amount(v), !.cost = status]
<1>2. PICK v \in Selected(pcalls[c].started) : Set(c, call(v)) BY DEF CompleteUsage
<1>3. v = pcalls[c].under /\ v \in VersionIds /\ v \in Nat \ {0}
  BY <1>1, SelectedIs DEF PriceInv, PriceTypeOK, Bound, VersionIds
<1>4. used \in [Meters -> Nat] /\ used["input"] \in Nat /\ used["output"] \in Nat
  BY PriceAssumption DEF Meters
<1>5. status \in {"unavailable", "complete", "partial"}
      /\ (status = "complete" => \A m \in Meters : availability[m] = "complete")
  BY DEF CostStatusOf
<1>6. /\ amount(v) \in Nat
      /\ (\A m \in Meters : availability[m] = "complete")
            => amount(v) = LineTotal(v, used["input"]) + LineTotal(v, used["output"])
  <2>1. LineTotal(v, used["input"]) \in Nat /\ LineTotal(v, used["output"]) \in Nat
    BY <1>3, <1>4, LineCovers
  <2> QED BY <2>1 DEF EstimateCost, Meters
<1> HIDE DEF amount, status
<1>7. /\ call(v) \in CallRow /\ call(v).status = "completed" /\ call(v).version = v
      /\ call(v).under = pcalls[c].under /\ call(v).started = pcalls[c].started
      /\ call(v).used = used /\ call(v).amount = amount(v) /\ call(v).cost = status
  BY <1>1, <1>3, <1>4, <1>5, <1>6 DEF CallRow, CallStages
<1> HIDE DEF call
<1>8. Bound(call(v)) BY <1>1, <1>3, <1>7 DEF Bound
<1>9. Charged(call(v))
  <2> SUFFICES ASSUME status = "complete"
               PROVE  /\ amount(v) * PriceGranularity >= v * (used["input"] + used["output"])
                      /\ (amount(v) = 0) <=> (\A m \in Meters : used[m] = 0)
    BY <1>7 DEF Charged
  <2> DEFINE in == LineTotal(v, used["input"])
             out == LineTotal(v, used["output"])
  <2>1. amount(v) = in + out BY <1>5, <1>6
  <2>2. /\ in \in Nat /\ in * PriceGranularity >= v * used["input"]
        /\ (in = 0) <=> (used["input"] = 0)
    BY <1>3, <1>4, LineCovers
  <2>3. /\ out \in Nat /\ out * PriceGranularity >= v * used["output"]
        /\ (out = 0) <=> (used["output"] = 0)
    BY <1>3, <1>4, LineCovers
  <2> HIDE DEF in, out
  <2>4. (in + out) * PriceGranularity = in * PriceGranularity + out * PriceGranularity
    BY <2>2, <2>3, PriceAssumption
  <2>5. v * (used["input"] + used["output"]) = v * used["input"] + v * used["output"]
    BY <1>3, <1>4
  <2>6. in * PriceGranularity + out * PriceGranularity >= v * used["input"] + v * used["output"]
    BY <1>3, <1>4, <2>2, <2>3, PriceAssumption
  <2>7. (in + out = 0) <=> (used["input"] = 0 /\ used["output"] = 0) BY <2>2, <2>3
  <2> QED BY <2>1, <2>4, <2>5, <2>6, <2>7 DEF Meters
<1> QED BY <1>1, <1>2, <1>7, <1>8, <1>9, OneCall

LEMMA Unsure == ASSUME PriceInv, NEW c \in PriceCalls, MarkUnsure(c) PROVE PriceInv'
<1>1. UNCHANGED <<pnow, pversions>> /\ pcalls[c] \in CallRow /\ Bound(pcalls[c])
  BY DEF MarkUnsure, PriceInv, PriceTypeOK
<1>2. CASE pcalls[c].status = "dispatching" /\ Set(c, [pcalls[c] EXCEPT !.status = "unknown"])
  <2> DEFINE call == [pcalls[c] EXCEPT !.status = "unknown"]
  <2>1. /\ call \in CallRow /\ call.status = "unknown" /\ call.under = pcalls[c].under
        /\ call.started = pcalls[c].started
    BY <1>1 DEF CallRow, CallStages
  <2> HIDE DEF call
  <2>2. Bound(call) /\ Charged(call) BY <1>1, <1>2, <2>1 DEF Bound, Charged
  <2> QED BY <1>1, <1>2, <2>1, <2>2, OneCall DEF call
<1> QED BY <1>1, <1>2, Unsent DEF MarkUnsure

\* the versions are written, every call that was sent stays in its own
LEMMA VersionsWritten ==
    ASSUME PriceInv, UNCHANGED <<pnow, pcalls>>, pversions' \in Seq(VersionRow),
           PriceIntervals', Ordered', VersionIds \subseteq VersionIds',
           \A v \in VersionIds, at \in Nat : \/ ~Covers(pversions[v], at) \/ Covers(pversions'[v], at)
              \/ \A c \in PriceCalls : pcalls[c].status \in {"dispatching", "unknown", "completed"} =>
                    pcalls[c].under # v \/ pcalls[c].started # at
    PROVE  PriceInv'
<1>1. PriceTypeOK' BY DEF PriceInv, PriceTypeOK
<1>2. ASSUME NEW c \in PriceCalls PROVE Bound(pcalls[c])' /\ Charged(pcalls[c])'
  <2>1. Bound(pcalls[c]) /\ Charged(pcalls[c]) /\ pcalls[c].started \in Nat
    BY DEF PriceInv, PriceTypeOK, CallRow
  <2>2. Bound(pcalls[c])' BY <2>1 DEF Bound, Covers
  <2> QED BY <2>1, <2>2 DEF Charged
<1> QED BY <1>1, <1>2 DEF PriceInv

\* an instant a version covers is before its new end, if a call was sent at it
LEMMA Registering == ASSUME PriceInv, NEW at \in Instants, Register(at) PROVE PriceInv'
<1> DEFINE last == Len(pversions)
           new == [from |-> at, to |-> Open]
<1>1. /\ last \in Nat /\ pversions \in Seq(VersionRow) /\ at \in Nat \ {0} /\ new \in VersionRow
      /\ \A v \in VersionIds : pversions[v] \in VersionRow
      /\ UNCHANGED <<pnow, pcalls>>
  <2>1. last \in Nat /\ pversions \in Seq(VersionRow) /\ \A v \in VersionIds : pversions[v] \in VersionRow
    BY DEF PriceInv, PriceTypeOK, VersionIds
  <2>2. at \in Nat \ {0} BY PriceAssumption DEF Instants
  <2>3. new \in VersionRow BY <2>2 DEF VersionRow, Open
  <2> QED BY <2>1, <2>2, <2>3 DEF Register
<1>2. CASE last = 0 /\ pversions' = <<new>>
  <2>1. VersionIds = {} /\ VersionIds' = {1} BY <1>2 DEF VersionIds
  <2>2. pversions' \in Seq(VersionRow) /\ pversions'[1] = new BY <1>1, <1>2
  <2>3. PriceIntervals' /\ Ordered' BY <1>2, <2>1, <2>2 DEF PriceIntervals, Ordered
  <2> QED BY <1>1, <2>1, <2>2, <2>3, VersionsWritten
<1>3. CASE last > 0 /\ MaySucceed(last, at)
             /\ pversions' = Append([pversions EXCEPT ![last].to = IF @ = Open THEN at ELSE @], new)
  <2> DEFINE end == IF pversions[last].to = Open THEN at ELSE pversions[last].to
             row == [pversions[last] EXCEPT !.to = end]
             closed == [pversions EXCEPT ![last] = row]
  <2>1. last \in VersionIds /\ pversions[last] \in VersionRow BY <1>1, <1>3 DEF VersionIds
  <2>2. /\ end \in Nat \ {0} /\ row \in VersionRow /\ row.from = pversions[last].from /\ row.to = end
        /\ row.from < end /\ end <= at
    <3>1. /\ pversions[last].to = Open => at > pversions[last].from
          /\ pversions[last].to # Open => at >= pversions[last].to /\ pversions[last].from < pversions[last].to
      BY <1>3, <2>1 DEF MaySucceed, PriceInv, PriceIntervals
    <3> QED BY <1>1, <2>1, <3>1 DEF VersionRow, Open
  <2>3. closed \in Seq(VersionRow) /\ Len(closed) = last
    BY <1>1, <2>1, <2>2, ExceptSeq DEF VersionIds
  <2>4. pversions' = Append(closed, new) BY <1>1, <1>3, <2>1 DEF VersionRow
  <2>5. /\ pversions' \in Seq(VersionRow) /\ Len(pversions') = last + 1
        /\ pversions'[last + 1] = new /\ pversions'[last] = row
        /\ \A v \in VersionIds \ {last} : pversions'[v] = pversions[v]
    <3> HIDE DEF closed
    <3>1. /\ pversions' \in Seq(VersionRow) /\ Len(pversions') = last + 1 /\ pversions'[last + 1] = new
          /\ \A v \in 1..last : pversions'[v] = closed[v]
      BY <1>1, <2>3, <2>4
    <3>2. \A v \in 1..last : closed[v] = IF v = last THEN row ELSE pversions[v]
      BY <1>1 DEF closed
    <3> QED BY <1>1, <2>1, <3>1, <3>2 DEF VersionIds
  <2> HIDE DEF closed, row, end
  <2>6. VersionIds' = VersionIds \cup {last + 1} /\ \A v \in VersionIds : v <= last /\ v \in Nat
    BY <1>1, <2>5 DEF VersionIds
  <2>7. Ordered'
    <3> SUFFICES ASSUME NEW v \in VersionIds', NEW w \in VersionIds', v < w
                 PROVE  pversions'[v].to # Open /\ pversions'[v].to <= pversions'[w].from
      BY DEF Ordered
    <3>1. v \in VersionIds /\ v <= last BY <1>1, <2>6
    <3>2. CASE w = last + 1
      <4>1. pversions'[w].from = at BY <2>5, <3>2
      <4>2. CASE v = last BY <1>1, <2>2, <2>5, <4>1, <4>2 DEF Open
      <4>3. CASE v # last
        <5>1. pversions[v].to # Open /\ pversions[v].to <= pversions[last].from
          BY <2>1, <2>6, <3>1, <4>3 DEF PriceInv, Ordered
        <5>2. pversions[last].from <= at BY <1>1, <2>1, <2>2 DEF VersionRow
        <5>3. pversions'[v] = pversions[v] /\ pversions[v] \in VersionRow BY <1>1, <2>5, <3>1, <4>3
        <5>4. pversions[v].to \in Nat /\ pversions[last].from \in Nat BY <2>1, <5>3 DEF VersionRow
        <5> QED BY <1>1, <4>1, <5>1, <5>2, <5>3, <5>4
      <4> QED BY <4>2, <4>3
    <3>3. CASE w # last + 1
      <4>1. w \in VersionIds /\ v # last BY <2>6, <3>1, <3>3
      <4>2. pversions[v].to # Open /\ pversions[v].to <= pversions[w].from
        BY <3>1, <4>1 DEF PriceInv, Ordered
      <4>3. pversions'[v] = pversions[v] /\ pversions'[w].from = pversions[w].from
        BY <2>2, <2>5, <3>1, <4>1
      <4> QED BY <4>2, <4>3
    <3> QED BY <3>2, <3>3
  <2>8. PriceIntervals'
    <3> SUFFICES ASSUME NEW v \in VersionIds'
                 PROVE  /\ pversions'[v].to # Open => pversions'[v].from < pversions'[v].to
                        /\ v < Len(pversions') => /\ pversions'[v].to # Open
                                                  /\ pversions'[v].to <= pversions'[v + 1].from
      BY DEF PriceIntervals
    <3>1. v < Len(pversions') => v + 1 \in VersionIds' /\ v < v + 1 BY <1>1, <2>5, <2>6 DEF VersionIds
    <3>2. pversions'[v].to # Open => pversions'[v].from < pversions'[v].to
      <4>1. CASE v = last + 1 BY <2>5, <4>1 DEF Open
      <4>2. CASE v = last BY <1>1, <2>2, <2>5, <4>2
      <4>3. CASE v \in VersionIds \ {last} BY <2>5, <4>3 DEF PriceInv, PriceIntervals
      <4> QED BY <2>6, <4>1, <4>2, <4>3
    <3> QED BY <2>7, <3>1, <3>2 DEF Ordered
  <2>9. ASSUME NEW v \in VersionIds, NEW instant \in Nat, Covers(pversions[v], instant),
               NEW c \in PriceCalls, pcalls[c].status \in {"dispatching", "unknown", "completed"},
               pcalls[c].under = v, pcalls[c].started = instant
        PROVE  Covers(pversions'[v], instant)
    <3>1. CASE v # last BY <2>5, <2>9, <3>1
    <3>2. CASE v = last /\ pversions[last].to # Open
      <4>1. row = pversions[last] BY <2>1, <3>2 DEF row, end, VersionRow
      <4> QED BY <2>5, <2>9, <3>2, <4>1
    <3>3. CASE v = last /\ pversions[last].to = Open
      <4>1. end = at BY <3>3 DEF end
      <4>2. pcalls[c].status = "completed" => pcalls[c].version = last
        BY <2>9, <3>3 DEF PriceInv, Bound
      <4>3. ~(instant >= at) BY <1>3, <2>9, <3>3, <4>2 DEF MaySucceed, PendingFrom, UsedFrom
      <4> QED BY <1>1, <2>2, <2>5, <2>9, <3>3, <4>1, <4>3 DEF Covers
    <3> QED BY <3>1, <3>2, <3>3
  <2> QED BY <1>1, <2>5, <2>6, <2>7, <2>8, <2>9, VersionsWritten
<1> QED BY <1>2, <1>3 DEF Register

LEMMA Closing ==
    ASSUME PriceInv, NEW at \in Instants, NEW v \in VersionIds, CloseVersion(v, at) PROVE PriceInv'
<1> DEFINE row == [pversions[v] EXCEPT !.to = at]
<1>1. /\ Len(pversions) \in Nat /\ pversions \in Seq(VersionRow) /\ at \in Nat \ {0}
      /\ \A w \in VersionIds : pversions[w] \in VersionRow
      /\ UNCHANGED <<pnow, pcalls>>
      /\ pversions[v].to = Open /\ at > pversions[v].from
  BY PriceAssumption DEF PriceInv, PriceTypeOK, VersionIds, Instants, CloseVersion
<1>2. row \in VersionRow /\ row.from = pversions[v].from /\ row.to = at BY <1>1 DEF VersionRow
<1>3. pversions' = [pversions EXCEPT ![v] = row] BY DEF CloseVersion
<1> HIDE DEF row
<1>4. /\ pversions' \in Seq(VersionRow) /\ Len(pversions') = Len(pversions)
      /\ pversions'[v] = row /\ \A w \in VersionIds : w # v => pversions'[w] = pversions[w]
  BY <1>1, <1>2, <1>3 DEF VersionIds
<1>5. VersionIds' = VersionIds BY <1>4 DEF VersionIds
<1>6. \A w \in VersionIds : ~(v < w)
  BY <1>1 DEF PriceInv, Ordered
<1>7. Ordered'
  <2> SUFFICES ASSUME NEW x \in VersionIds, NEW w \in VersionIds, x < w
               PROVE  pversions'[x].to # Open /\ pversions'[x].to <= pversions'[w].from
    BY <1>5 DEF Ordered
  <2>1. x # v BY <1>6
  <2>2. pversions'[x] = pversions[x] /\ pversions'[w].from = pversions[w].from BY <1>2, <1>4, <2>1
  <2> QED BY <2>2 DEF PriceInv, Ordered
<1>8. PriceIntervals'
  <2> SUFFICES ASSUME NEW w \in VersionIds
               PROVE  /\ pversions'[w].to # Open => pversions'[w].from < pversions'[w].to
                      /\ w < Len(pversions) => /\ pversions'[w].to # Open
                                               /\ pversions'[w].to <= pversions'[w + 1].from
    BY <1>4, <1>5 DEF PriceIntervals
  <2>1. w < Len(pversions) => w + 1 \in VersionIds /\ w < w + 1 BY <1>1 DEF VersionIds
  <2>2. pversions'[w].to # Open => pversions'[w].from < pversions'[w].to
    BY <1>1, <1>2, <1>4 DEF PriceInv, PriceIntervals
  <2> QED BY <1>5, <1>7, <2>1, <2>2 DEF Ordered
<1>9. ASSUME NEW w \in VersionIds, NEW instant \in Nat, Covers(pversions[w], instant),
             NEW c \in PriceCalls, pcalls[c].status \in {"dispatching", "unknown", "completed"},
             pcalls[c].under = w, pcalls[c].started = instant
      PROVE  Covers(pversions'[w], instant)
  <2>1. CASE w # v BY <1>4, <1>9, <2>1
  <2>2. CASE w = v
    <3>1. pcalls[c].status = "completed" => pcalls[c].version = v
      BY <1>9, <2>2 DEF PriceInv, Bound
    <3>2. ~(instant >= at) BY <1>9, <3>1 DEF CloseVersion, PendingFrom
    <3> QED BY <1>1, <1>2, <1>4, <1>9, <2>2, <3>2 DEF Covers
  <2> QED BY <2>1, <2>2
<1> QED BY <1>1, <1>4, <1>5, <1>7, <1>8, <1>9, VersionsWritten

LEMMA PriceStep == PriceInv /\ [PriceNext]_priceVars => PriceInv'
<1> SUFFICES ASSUME PriceInv, [PriceNext]_priceVars PROVE PriceInv' OBVIOUS
<1>1. CASE UNCHANGED <<pversions, pcalls>> /\ pnow' \in Nat
  BY <1>1 DEF PriceInv, PriceTypeOK, PriceIntervals, Ordered, VersionIds, Bound, Charged, Covers
<1>2. pnow \in Nat /\ pnow + 1 \in Nat BY DEF PriceInv, PriceTypeOK
<1>3. CASE UNCHANGED priceVars \/ PriceTick BY <1>1, <1>2, <1>3 DEF priceVars, PriceTick
<1>4. ASSUME NEW c \in PriceCalls,
             \/ LockPrice(c) \/ Dispatch(c) \/ DispatchFails(c) \/ MarkUnsure(c)
             \/ \E used \in [Meters -> PriceQuantities],
                   availability \in [Meters -> {"complete", "unavailable"}] :
                   CompleteUsage(c, used, availability)
      PROVE  PriceInv'
  BY <1>4, Locking, Sending, Unsure, Completing
<1>5. ASSUME NEW at \in Instants, Register(at) \/ \E v \in VersionIds : CloseVersion(v, at)
      PROVE  PriceInv'
  BY <1>5, Registering, Closing
<1> QED BY <1>3, <1>4, <1>5 DEF PriceNext

LEMMA PriceSafety == PriceInv => PriceSafe
<1> SUFFICES ASSUME PriceInv PROVE PriceSafe OBVIOUS
<1>1. PriceCharges BY DEF PriceInv, Charged, PriceCharges
<1>2. PriceBound
  <2> SUFFICES ASSUME NEW c \in PriceCalls, pcalls[c].status \in {"dispatching", "unknown", "completed"}
               PROVE  /\ Selected(pcalls[c].started) = {pcalls[c].under}
                      /\ pcalls[c].status = "completed" => pcalls[c].version = pcalls[c].under
    BY DEF PriceBound
  <2>1. Bound(pcalls[c]) /\ pcalls[c].started \in Nat BY DEF PriceInv, PriceTypeOK, CallRow
  <2> QED BY <2>1, SelectedIs DEF PriceInv, Bound
<1> QED BY <1>1, <1>2 DEF PriceInv, PriceSafe

-----------------------------------------------------------------------------
(* Theorems *)

LEMMA BudgetSafety == BudgetInv /\ BooksInv => BudgetSafe
<1>1. BudgetInv => BudgetTypeOK /\ BudgetWithin /\ BudgetUpgradeOrder
  <2> SUFFICES ASSUME BudgetInv PROVE BudgetTypeOK /\ BudgetWithin /\ BudgetUpgradeOrder
    OBVIOUS
  <2>1. \A e \in Executions : bexec[e].holding \in Nat /\ bexec[e].costHeld \in Nat
    BY DEF BudgetInv, RunInv, Accords, MemoryRow
  <2>2. bmeter # NoMeter => bmeter.effort \in Efforts /\ bmeter.status \in {"active", "exhausted"}
    BY DEF BudgetInv, RowsInv, MeterRow
  <2>3. bgen \in BudgetRow /\ \A id \in DOMAIN bresv : bresv[id] \in HeldRow
    BY DEF BudgetInv, RowsInv
  <2>4. BudgetTypeOK BY <2>1, <2>2, <2>3 DEF BudgetTypeOK, BudgetRow, HeldRow
  <2>5. BudgetUpgradeOrder
    BY DEF BudgetInv, AheadInv, BudgetUpgradeOrder, RunInv, Accords, Working
  <2> QED BY <2>4, <2>5 DEF BudgetInv
<1> QED BY <1>1 DEF BooksInv, BudgetSafe

\* While the meter is active what is spent and held stays within its limits and
\* no call came back dearer than its estimate, the meter's counters are the sums
\* of its reservations, and an upgrade reaches the meter before the generation,
\* whichever executions overlap or die and wherever
\* (BudgetMeterService.reserve, settle, mark_unknown, upgrade)
THEOREM Spending == BudgetSpec => []BudgetSafe
<1>1. BudgetInv /\ BooksInv /\ [BudgetNext]_budgetVars => BooksInv'
  <2> SUFFICES ASSUME BudgetInv, BooksInv, [BudgetNext]_budgetVars PROVE BooksInv' OBVIOUS
  <2>1. MeterStep BY BudgetSteps DEF Well
  <2> QED BY <2>1, BooksStep
<1> QED BY <1>1, InitBooks, BudgetAlways, BudgetSafety, PTL DEF BudgetSpec

\* An exhausted meter admits no new reservation and is never active again, for
\* the executions that overlap and those that follow (mark_unknown, settle,
\* reserve)
THEOREM Exhausted == BudgetSpec => BudgetStaysClosed
<1>1. BudgetInv /\ [BudgetNext]_budgetVars =>
        [bmeter.status = "exhausted" => /\ bmeter'.status = "exhausted"
                                        /\ DOMAIN bresv' = DOMAIN bresv]_budgetVars
  <2> SUFFICES ASSUME BudgetInv, [BudgetNext]_budgetVars PROVE MeterCloses
    BY DEF MeterCloses
  <2>1. MeterStep BY BudgetSteps DEF Well
  <2> QED BY <2>1, MeterStepDoes DEF BudgetInv, MeterStepGoal
<1> QED BY <1>1, BudgetAlways, PTL DEF BudgetSpec, BudgetStaysClosed

\* The published versions follow each other without overlap, a call that was sent
\* keeps the one version that was in force at its send time and is charged by it,
\* however late its result comes, and never below its consumption, whichever
\* versions are registered and closed meanwhile (PriceCatalogService,
\* UsageLedger.mark_dispatching and _complete_usage, estimate_cost)
THEOREM Charging == PriceSpec => []PriceSafe
BY PriceBegins, PriceStep, PriceSafety, PTL DEF PriceSpec

\* Each part of a behaviour of the whole is a behaviour of that part: the others
\* share no variable with it
LEMMA Parts == AnsweringSpec => Spec /\ BudgetSpec /\ PriceSpec /\ SessionSpec
<1>1. AnsweringInit => Init /\ BudgetInit /\ PriceInit /\ SessionInit BY DEF AnsweringInit
<1>2. [AnsweringNext]_<<part, vars, budgetVars, priceVars, sessionVars>>
        => /\ [Next]_vars /\ [BudgetNext]_budgetVars
           /\ [PriceNext]_priceVars /\ [SessionNext]_sessionVars
  <2> SUFFICES ASSUME [AnsweringNext]_<<part, vars, budgetVars, priceVars, sessionVars>>
               PROVE  /\ [Next]_vars /\ [BudgetNext]_budgetVars
                      /\ [PriceNext]_priceVars /\ [SessionNext]_sessionVars
    OBVIOUS
  <2>1. CASE UNCHANGED <<part, vars, budgetVars, priceVars, sessionVars>> BY <2>1
  <2>2. CASE Next /\ UNCHANGED <<budgetVars, priceVars, sessionVars>> BY <2>2
  <2>3. CASE BudgetNext /\ UNCHANGED <<vars, priceVars, sessionVars>> BY <2>3
  <2>4. CASE PriceNext /\ UNCHANGED <<vars, budgetVars, sessionVars>> BY <2>4
  <2>5. CASE SessionNext /\ UNCHANGED <<vars, budgetVars, priceVars>> BY <2>5
  <2> QED BY <2>1, <2>2, <2>3, <2>4, <2>5 DEF AnsweringNext
<1> QED BY <1>1, <1>2, PTL DEF AnsweringSpec, Spec, BudgetSpec, PriceSpec, SessionSpec

\* What the parts promise they promise together, while questions are asked and
\* answered: one live execution and a shown end of each generation (the worker
\* and its leases), a budget kept, each call charged at its price, the sessions safe
THEOREM Together ==
    AnsweringSpec => [](OneLiveExecution /\ EndIsShown /\ SpendingKept /\ SessionsSafe)
<1>1. BudgetSafe /\ PriceSafe => SpendingKept BY DEF SpendingKept
<1> QED BY <1>1, Parts, OneLive, Shown, Spending, Charging, Safe, PTL

\* What was closed stays so while questions are asked and answered: an exhausted
\* budget (BudgetMeterService) and a session whose old refresh token was used
\* again (IdentityService.refresh); no answer follows a stop, and a worker that
\* lost its generation disturbs nothing (GenerationWorker)
THEOREM Closed ==
    AnsweringSpec => ClosedStaysClosed /\ NoAnswerAfterStop /\ StaleWorkerDisturbsNothing
BY Parts, Exhausted, Reuse, Stopped, Undisturbed, PTL DEF ClosedStaysClosed

=============================================================================

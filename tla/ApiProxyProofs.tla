--------------------------- MODULE ApiProxyProofs ---------------------------
(* What holds of the proxy for every set of agents, every budget, every    *)
(* number of concurrent requests and every bound on a single charge.       *)
EXTENDS ApiProxy, FiniteSetTheorems, TLAPS

USE ProxyAssumption

\* A request is refused at the check, or a response is handed over: neither
\* is in flight before or after the step.
Turn(s) == (\E a \in Agents : Refuse(s, a)) \/ Reply(s)

LEMMA HandlerSteps ==
    ASSUME [Next]_vars
    PROVE  \/ \E s \in Slots, a \in Agents : Forward(s, a)
           \/ \E s \in Slots, cost \in 0 .. MaxCost : Metered(s, cost)
           \/ \E s \in Slots : UpstreamFails(s)
           \/ \E s \in Slots : Turn(s)
           \/ UNCHANGED vars
BY DEF Next, Turn

\* Money moves only when an upstream response is metered.
LEMMA OnlyMeteredCharges ==
    ASSUME [Next]_vars,
           \A s \in Slots, cost \in 0 .. MaxCost : ~Metered(s, cost)
    PROVE  UNCHANGED ledger
BY HandlerSteps DEF Turn, Forward, UpstreamFails, Refuse, Reply, vars, ledger

\* The records of a step that charges: each adds the cost to the caller's sum
\* or is left as it was, and none adds it without the one before.
LEMMA MeteredCharges ==
    ASSUME TypeOK, NEW s \in Slots, NEW cost \in 0 .. MaxCost, Metered(s, cost)
    PROVE  LET plus(f) == [f EXCEPT ![caller[s]] = @ + cost] IN
           /\ caller[s] \in Agents /\ cost \in Nat
           /\ spend' = plus(spend)
           /\ \/ logged' = logged /\ evented' = evented
              \/ logged' = plus(logged) /\ evented' \in {evented, plus(evented)}
BY DEF TypeOK, Metered, Charge

\* The handlers stay in their states, and every sum stays a natural number.
LEMMA StepIsTyped ==
    ASSUME TypeOK, [Next]_vars PROVE TypeOK'
<1>1. /\ pc' \in [Slots -> {"idle", "forwarded", "answered"}]
      /\ caller' \in [Slots -> Agents]
  BY HandlerSteps
     DEF TypeOK, Turn, Forward, Metered, UpstreamFails, Refuse, Reply, vars
<1>2. ASSUME NEW s \in Slots, NEW cost \in 0 .. MaxCost, Metered(s, cost)
      PROVE  {spend', logged', evented'} \subseteq [Agents -> Nat]
  BY <1>2, MeteredCharges DEF TypeOK
<1>3. {spend', logged', evented'} \subseteq [Agents -> Nat]
  BY <1>2, OnlyMeteredCharges DEF TypeOK, ledger
<1>4. QED
  BY <1>1, <1>3 DEF TypeOK

(* Type correctness of the proxy's bookkeeping. *)
THEOREM TypeCorrect == Spec => []TypeOK
<1>1. Init => TypeOK
  BY DEF Init, TypeOK
<1>2. QED
  BY <1>1, StepIsTyped, PTL DEF Spec

-----------------------------------------------------------------------------

\* The charges still to come of the requests of a that are in flight.
Exposure(a) == MaxCost * Cardinality(InFlight(a))

\* The strengthening of BudgetHolds that every step preserves: the spend
\* together with what the requests in flight may add to it.
Covered(a) == spend[a] + Exposure(a) <= Allowance(a)

BudgetInv == TypeOK /\ \A a \in Agents : Covered(a)

\* A set of slots is finite, and the charges it can cause are bounded by
\* one MaxCost for every slot there is.
LEMMA ExposureBound ==
    ASSUME NEW F \in SUBSET Slots
    PROVE  /\ IsFiniteSet(F)
           /\ MaxCost * Cardinality(F) \in Nat
           /\ MaxCost * Cardinality(F) <= MaxCost * Cardinality(Slots)
<1> DEFINE n == Cardinality(F)
           k == Cardinality(Slots)
<1>1. IsFiniteSet(F) /\ n \in Nat /\ k \in Nat /\ n <= k
  BY FS_Subset, FS_CardinalityType
<1> HIDE DEF n, k
<1>2. k - n \in Nat /\ MaxCost \in Nat
  BY <1>1
<1>3. MaxCost * (k - n) \in Nat /\ MaxCost * n \in Nat
  BY <1>1, <1>2
<1>4. MaxCost * k = MaxCost * n + MaxCost * (k - n)
  BY <1>1, <1>2
<1>5. QED
  BY <1>1, <1>3, <1>4 DEF n, k

\* A request whose upstream call has ended no longer counts: its agent's
\* exposure falls by MaxCost, and nobody else's changes.
LEMMA LandingFreesExposure ==
    ASSUME TypeOK, NEW s \in Slots,
           pc[s] = "forwarded",
           pc' = [pc EXCEPT ![s] = "answered"], caller' = caller
    PROVE  /\ Exposure(caller[s])' = Exposure(caller[s]) - MaxCost
           /\ \A b \in Agents \ {caller[s]} : Exposure(b)' = Exposure(b)
<1> DEFINE a == caller[s]
<1>1. a \in Agents /\ s \in InFlight(a) /\ InFlight(a) \in SUBSET Slots
  BY DEF TypeOK, InFlight
<1>2. InFlight(a)' = InFlight(a) \ {s}
  BY DEF TypeOK, InFlight
<1>3. /\ IsFiniteSet(InFlight(a))
      /\ Cardinality(InFlight(a)) \in Nat
  BY <1>1, ExposureBound, FS_CardinalityType
<1>4. Cardinality(InFlight(a) \ {s}) = Cardinality(InFlight(a)) - 1
  BY <1>1, <1>3, FS_RemoveElement
<1>5. \A b \in Agents \ {a} : InFlight(b)' = InFlight(b)
  BY DEF TypeOK, InFlight
<1>6. \A n \in Nat : MaxCost * (n - 1) = MaxCost * n - MaxCost
  OBVIOUS
<1>7. Exposure(a)' = Exposure(a) - MaxCost
  BY <1>2, <1>3, <1>4, <1>6 DEF Exposure
<1>8. QED
  BY <1>5, <1>7 DEF Exposure

\* A step that adds at most MaxCost to the spend of the agent whose request
\* it ends keeps every agent covered.
LEMMA LandingKeepsCovered ==
    ASSUME BudgetInv, NEW s \in Slots, NEW cost \in 0 .. MaxCost,
           pc[s] = "forwarded",
           pc' = [pc EXCEPT ![s] = "answered"], caller' = caller,
           spend' = [spend EXCEPT ![caller[s]] = @ + cost]
    PROVE  \A b \in Agents : Covered(b)'
<1> SUFFICES ASSUME NEW b \in Agents PROVE Covered(b)'
  OBVIOUS
<1>1. TypeOK /\ Covered(b) /\ Allowance(b)' = Allowance(b)
  BY DEF BudgetInv, Allowance
<1>2. Exposure(b) \in Nat /\ spend[b] \in Nat /\ Allowance(b) \in Int
  <2>1. InFlight(b) \in SUBSET Slots
    BY DEF InFlight
  <2>2. MaxCost * Cardinality(Slots) \in Nat
    BY ExposureBound
  <2>3. QED
    BY <1>1, <2>1, <2>2, ExposureBound DEF Exposure, TypeOK, Allowance
<1>3. CASE b = caller[s]
  <2>1. Exposure(b)' = Exposure(b) - MaxCost
    BY <1>1, <1>3, LandingFreesExposure
  <2>2. spend'[b] = spend[b] + cost
    BY <1>1, <1>3 DEF TypeOK
  <2>3. QED
    BY <1>1, <1>2, <2>1, <2>2 DEF Covered
<1>4. CASE b # caller[s]
  <2>1. Exposure(b)' = Exposure(b)
    BY <1>1, <1>4, LandingFreesExposure
  <2>2. spend'[b] = spend[b]
    BY <1>1, <1>4 DEF TypeOK
  <2>3. QED
    BY <1>1, <2>1, <2>2 DEF Covered
<1>5. QED
  BY <1>3, <1>4

\* A request admitted by the check finds room for itself: the spend is below
\* the limit, and no more than all slots are in flight afterwards.
LEMMA ForwardKeepsCovered ==
    ASSUME BudgetInv, NEW s \in Slots, NEW a \in Agents, Forward(s, a)
    PROVE  \A b \in Agents : Covered(b)'
<1> SUFFICES ASSUME NEW b \in Agents PROVE Covered(b)'
  OBVIOUS
<1>1. /\ TypeOK /\ Covered(b) /\ Allowance(b)' = Allowance(b)
      /\ spend' = spend
  BY DEF BudgetInv, Allowance, Forward, ledger
<1>2. CASE b = a
  <2>1. InFlight(b)' \in SUBSET Slots
    BY DEF InFlight
  <2>2. /\ Exposure(b)' \in Nat
        /\ Exposure(b)' <= MaxCost * Cardinality(Slots)
    BY <2>1, ExposureBound DEF Exposure
  <2>3. MaxCost * Cardinality(Slots) \in Nat
    BY ExposureBound
  <2>4. b \in DOMAIN Limit /\ spend[b] < Limit[b] /\ spend[b] \in Nat
    BY <1>1, <1>2 DEF Forward, WithinBudget, TypeOK
  <2>5. Limit[b] \in Nat
    BY <2>4
  <2>6. Allowance(b) = Limit[b] - 1 + MaxCost * Cardinality(Slots)
    BY <2>4, <2>5 DEF Allowance
  <2>7. spend'[b] + Exposure(b)' <= Allowance(b)
    BY <1>1, <2>2, <2>3, <2>4, <2>5, <2>6
  <2>8. QED
    BY <1>1, <2>7 DEF Covered
<1>3. CASE b # a
  <2>1. InFlight(b)' = InFlight(b)
    BY <1>1, <1>3 DEF Forward, InFlight, TypeOK
  <2>2. QED
    BY <1>1, <2>1 DEF Covered, Exposure
<1>4. QED
  BY <1>2, <1>3

(* BudgetInv is inductive. *)
THEOREM BudgetInvariance == Spec => []BudgetInv
<1>1. Init => BudgetInv
  <2>0. Init => TypeOK
    BY DEF Init, TypeOK
  <2> SUFFICES ASSUME Init, NEW a \in Agents PROVE Covered(a)
    BY <2>0 DEF BudgetInv
  <2>1. spend[a] = 0 /\ InFlight(a) = {}
    BY DEF Init, InFlight
  <2>2. MaxCost * Cardinality(Slots) \in Nat
    BY ExposureBound
  <2>3. Exposure(a) = 0
    BY <2>1, FS_EmptySet DEF Exposure
  <2>4. QED
    BY <2>1, <2>2, <2>3 DEF Covered, Allowance
<1>2. TypeOK' /\ BudgetInv /\ [Next]_vars => BudgetInv'
  <2> SUFFICES ASSUME TypeOK', BudgetInv, [Next]_vars
               PROVE  \A b \in Agents : Covered(b)'
    BY DEF BudgetInv
  <2>1. TypeOK /\ \A b \in Agents : Covered(b)
    BY DEF BudgetInv
  <2>2. CASE \E s \in Slots : UpstreamFails(s)
    <3>1. PICK s \in Slots : UpstreamFails(s)
      BY <2>2
    <3>2. 0 \in 0 .. MaxCost /\ spend' = [spend EXCEPT ![caller[s]] = @ + 0]
      BY <2>1, <3>1 DEF TypeOK, UpstreamFails, ledger
    <3>3. /\ pc[s] = "forwarded" /\ caller' = caller
          /\ pc' = [pc EXCEPT ![s] = "answered"]
      BY <3>1 DEF UpstreamFails
    <3>4. QED
      BY <3>2, <3>3, LandingKeepsCovered
  <2>3. CASE UNCHANGED vars \/ \E s \in Slots : Turn(s)
    <3>1. spend' = spend /\ \A b \in Agents : InFlight(b)' = InFlight(b)
      BY <2>1, <2>3 DEF Turn, Refuse, Reply, InFlight, TypeOK, ledger, vars
    <3>2. QED
      BY <2>1, <3>1 DEF Covered, Exposure, Allowance
  <2>4. CASE \E s \in Slots, cost \in 0 .. MaxCost : Metered(s, cost)
    BY <2>4, LandingKeepsCovered DEF Metered, Charge
  <2>5. QED
    BY <2>2, <2>3, <2>4, ForwardKeepsCovered, HandlerSteps
<1>3. QED
  BY <1>1, <1>2, TypeCorrect, PTL DEF Spec

(* For any concurrency, the soft cap overshoots by less than one charge    *)
(* per concurrent request (_check_budget, _track_spend).                   *)
THEOREM BudgetHoldsAlways == Spec => []BudgetHolds
<1>1. BudgetInv => BudgetHolds
  <2> SUFFICES ASSUME BudgetInv, NEW a \in Agents
               PROVE  spend[a] <= Allowance(a)
    BY DEF BudgetHolds
  <2>1. InFlight(a) \in SUBSET Slots
    BY DEF InFlight
  <2>2. Exposure(a) \in Nat /\ spend[a] \in Nat /\ Covered(a)
    BY <2>1, ExposureBound DEF BudgetInv, TypeOK, Exposure
  <2>3. Allowance(a) \in Int
    <3>1. MaxCost * Cardinality(Slots) \in Nat
      BY ExposureBound
    <3>2. QED
      BY <3>1 DEF Allowance
  <2>4. QED
    BY <2>2, <2>3 DEF Covered
<1>2. QED
  BY <1>1, BudgetInvariance, PTL

(* A spent budget with nothing in flight is final: no later request of the *)
(* agent is forwarded, so nothing is left to charge.                       *)
THEOREM ExhaustionIsFinal == Spec => ExhaustedIsFinal
<1>1. TypeOK /\ [Next]_vars =>
        [\A a \in DOMAIN Limit : Exhausted(a) =>
            Exhausted(a)' /\ spend'[a] = spend[a]]_vars
  <2> SUFFICES ASSUME TypeOK, Next, NEW a \in DOMAIN Limit, Exhausted(a)
               PROVE  Exhausted(a)' /\ spend'[a] = spend[a]
    OBVIOUS
  <2> USE DEF Exhausted, InFlight, TypeOK
  <2>0. a \in Agents /\ spend[a] \in Nat /\ Limit[a] \in Nat
    OBVIOUS
  <2>1. ASSUME NEW s \in Slots, NEW b \in Agents, Forward(s, b)
        PROVE  Exhausted(a)' /\ spend'[a] = spend[a]
    <3>1. b # a
      BY <2>0, <2>1 DEF Forward, WithinBudget
    <3>2. QED
      BY <2>1, <3>1 DEF Forward, ledger
  <2>2. ASSUME NEW s \in Slots, NEW cost \in 0 .. MaxCost, Metered(s, cost)
        PROVE  Exhausted(a)' /\ spend'[a] = spend[a]
    <3>1. caller[s] # a
      BY <2>2 DEF Metered
    <3>2. QED
      BY <2>0, <2>2, <3>1 DEF Metered, Charge
  <2>3. ASSUME NEW s \in Slots,
               \/ \E b \in Agents : Refuse(s, b)
               \/ UpstreamFails(s) \/ Reply(s)
        PROVE  Exhausted(a)' /\ spend'[a] = spend[a]
    BY <2>3 DEF Refuse, UpstreamFails, Reply, ledger
  <2>4. QED
    BY <2>1, <2>2, <2>3 DEF Next
<1>2. QED
  BY <1>1, TypeCorrect, PTL DEF Spec, ExhaustedIsFinal

(* Whatever write fails, no cost is on file that was not charged.          *)
THEOREM LedgerOrderedAlways == Spec => []LedgerOrdered
<1>1. Init => LedgerOrdered
  BY DEF Init, LedgerOrdered
<1>2. TypeOK /\ LedgerOrdered /\ [Next]_vars => LedgerOrdered'
  <2> SUFFICES ASSUME TypeOK, LedgerOrdered, [Next]_vars, NEW a \in Agents
               PROVE  evented'[a] <= logged'[a] /\ logged'[a] <= spend'[a]
    BY DEF LedgerOrdered
  <2>1. /\ {spend[a], logged[a], evented[a]} \subseteq Nat
        /\ evented[a] <= logged[a] /\ logged[a] <= spend[a]
    BY DEF TypeOK, LedgerOrdered
  <2>2. CASE \E s \in Slots, cost \in 0 .. MaxCost : Metered(s, cost)
    BY <2>1, <2>2, MeteredCharges DEF TypeOK
  <2>3. QED
    BY <2>1, <2>2, OnlyMeteredCharges DEF ledger
<1>3. QED
  BY <1>1, <1>2, TypeCorrect, PTL DEF Spec

=============================================================================

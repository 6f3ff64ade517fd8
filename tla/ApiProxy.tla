------------------------------ MODULE ApiProxy ------------------------------
(***************************************************************************)
(* The reverse proxy every container reaches the model API through         *)
(* (core/api_proxy.py): one handler that checks the caller's budget,       *)
(* awaits the upstream call, and charges the caller afterwards.  The       *)
(* handlers run on one asyncio loop, so a step is the code between two     *)
(* awaits; what interleaves is the check of one request with the charge    *)
(* of another.  Money is counted in whole units of the smallest charge.    *)
(***************************************************************************)
EXTENDS Integers, FiniteSets

CONSTANTS
    Agents,    \* identities a request can carry (x-judge-id or "agent-main")
    Limit,     \* the budgets: a function from the known agents to a limit
    Slots,     \* requests that can be in progress at the same time
    MaxCost    \* the largest charge of a single response

ASSUME ProxyAssumption ==
    /\ DOMAIN Limit \subseteq Agents
    /\ Limit \in [DOMAIN Limit -> Nat]
    /\ IsFiniteSet(Slots)
    /\ MaxCost \in Nat

VARIABLES
    pc,        \* per slot: where its handler is
    caller,    \* per slot: the agent the request was charged to
    spend,     \* per agent: _spend, the cumulative charge
    logged,    \* per agent: the sum of cost_usd over proxy.jsonl
    evented    \* per agent: the sum of cost_usd over api_call.jsonl

vars == <<pc, caller, spend, logged, evented>>

ledger == <<spend, logged, evented>>

TypeOK ==
    /\ pc \in [Slots -> {"idle", "forwarded", "answered"}]
    /\ caller \in [Slots -> Agents]
    /\ spend \in [Agents -> Nat]
    /\ logged \in [Agents -> Nat]
    /\ evented \in [Agents -> Nat]

Init ==
    /\ pc = [s \in Slots |-> "idle"]
    /\ caller \in [Slots -> Agents]
    /\ spend = [a \in Agents |-> 0]
    /\ logged = [a \in Agents |-> 0]
    /\ evented = [a \in Agents |-> 0]

-----------------------------------------------------------------------------

\* Mutants of WithinBudget: an agent without a budget is let through, and a
\* spend that equals the limit still passes.
UnknownPasses(a) == a \in DOMAIN Limit => spend[a] < Limit[a]

LimitInclusive(a) == a \in DOMAIN Limit /\ spend[a] <= Limit[a]

\* _check_budget: a soft cap, compared with the spend recorded so far.
WithinBudget(a) == a \in DOMAIN Limit /\ spend[a] < Limit[a]

InFlight(a) == {s \in Slots : pc[s] = "forwarded" /\ caller[s] = a}

\* The request of a new caller passes the check and is sent upstream.  The
\* handler suspends here (await body, await upstream).
Forward(s, a) ==
    /\ pc[s] = "idle"
    /\ WithinBudget(a)
    /\ pc' = [pc EXCEPT ![s] = "forwarded"]
    /\ caller' = [caller EXCEPT ![s] = a]
    /\ UNCHANGED ledger

\* 429 budget_exceeded, for a spent budget and for an unknown agent.
Refuse(s, a) ==
    /\ pc[s] = "idle"
    /\ ~WithinBudget(a)
    /\ pc' = [pc EXCEPT ![s] = "answered"]
    /\ caller' = [caller EXCEPT ![s] = a]
    /\ UNCHANGED ledger

\* _track_spend
Charge(a, cost) == spend' = [spend EXCEPT ![a] = @ + cost]

\* Mutant of Metered: the event is written before the log line.
EventBeforeLog(s, cost) ==
    LET a == caller[s] IN
    /\ pc[s] = "forwarded"
    /\ pc' = [pc EXCEPT ![s] = "answered"]
    /\ Charge(a, cost)
    /\ evented' = [evented EXCEPT ![a] = @ + cost]
    /\ logged' \in {logged, [logged EXCEPT ![a] = @ + cost]}
    /\ UNCHANGED caller

\* The upstream answered.  The cost is 0 when the body has no usage the proxy
\* can read: a streamed body does not parse as one JSON document and counts
\* as {}.  Charge, log line and event are written with no await between them;
\* a write that raises ends the handler with a 500 and leaves the earlier
\* ones in place.
Metered(s, cost) ==
    LET a == caller[s] IN
    /\ pc[s] = "forwarded"
    /\ pc' = [pc EXCEPT ![s] = "answered"]
    /\ Charge(a, cost)
    /\ \/ UNCHANGED <<logged, evented>>
       \/ /\ logged' = [logged EXCEPT ![a] = @ + cost]
          /\ \/ UNCHANGED evented
             \/ evented' = [evented EXCEPT ![a] = @ + cost]
    /\ UNCHANGED caller

\* The upstream call raises (connection, the client's 120 s), or its body is
\* JSON but no object and _track_spend raises: a 500 and no charge.
UpstreamFails(s) ==
    /\ pc[s] = "forwarded"
    /\ pc' = [pc EXCEPT ![s] = "answered"]
    /\ UNCHANGED <<caller, ledger>>

\* The response is sent and the connection can carry the next request.
Reply(s) ==
    /\ pc[s] = "answered"
    /\ pc' = [pc EXCEPT ![s] = "idle"]
    /\ UNCHANGED <<caller, ledger>>

Next ==
    \E s \in Slots :
        \/ \E a \in Agents : Forward(s, a) \/ Refuse(s, a)
        \/ \E cost \in 0 .. MaxCost : Metered(s, cost)
        \/ UpstreamFails(s)
        \/ Reply(s)

Spec == Init /\ [][Next]_vars

-----------------------------------------------------------------------------

\* The most an agent can be charged: nothing when it is unknown or has no
\* budget, otherwise the last spend that still passes the check plus one
\* charge for every request that can be in flight at that moment.
Allowance(a) ==
    IF a \in DOMAIN Limit /\ Limit[a] > 0
    THEN Limit[a] - 1 + MaxCost * Cardinality(Slots)
    ELSE 0

(* The soft cap of _check_budget is a cap: however the checks and charges  *)
(* of concurrent requests interleave, an agent's spend stays within its    *)
(* allowance, and an agent without a budget is never charged.              *)
BudgetHolds == \A a \in Agents : spend[a] <= Allowance(a)

(* The charge in memory, the traffic log and the event stream are written  *)
(* in that order: a failed write never leaves a cost on file that was not  *)
(* charged, or an event for a cost the log does not have.                  *)
LedgerOrdered ==
    \A a \in Agents : evented[a] <= logged[a] /\ logged[a] <= spend[a]

\* The budget of a is used up and all of its requests have been charged.
Exhausted(a) == spend[a] >= Limit[a] /\ InFlight(a) = {}

(* An exhausted budget is final: no request of the agent is in flight ever *)
(* again and its spend is frozen, whatever the other agents do.            *)
ExhaustedIsFinal ==
    [][\A a \in DOMAIN Limit : Exhausted(a) =>
          Exhausted(a)' /\ spend'[a] = spend[a]]_vars

=============================================================================

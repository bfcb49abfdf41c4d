--------------------------- MODULE PlanningMatches --------------------------
(***************************************************************************)
(* The two planners that match needs to sources of limited capacity: cash  *)
(* for agents that are short of liquidity, and routes for stock that is    *)
(* running low.  Both serve one need after another and give it the nearest *)
(* eligible source that has something left; the first goes on to the next  *)
(* source until the need is met, the second takes one route and no more.   *)
(***************************************************************************)
EXTENDS Naturals, Sequences, FiniteSets, FiniteSetsExt, Functions, SequencesExt

CONSTANTS
  Needers,     \* agents, or items of stock, in the order of the input: 1..n
  Sources,     \* sources, or routes, in the order of their ids: 1..n
  Amounts,     \* amounts of the input
  MaxMinutes

VARIABLES
  planner,    \* "FLEET" or "STOCK"
  holds,      \* [Needers -> what there is: available liquidity, stock on hand]
  wants,      \* [Needers -> forecast requirement, target stock]
  reorder,    \* reorder point of the stock
  source,     \* [Sources -> [capacity, minutes, serves]]
  left,       \* [Sources -> capacity that is not planned yet]
  queue,      \* needers still to be served
  matches     \* sequence of [needer, source, amount, short]

vars == <<planner, holds, wants, reorder, source, left, queue, matches>>

-----------------------------------------------------------------------------
\* calculateLiquidityCoverage, in tenths of a percent: Math.round is half up.
Coverage(available, required) == (2 * 1000 * available + required) \div (2 * required)

\* classifyLiquidityCoverage with the thresholds of SYNTHETIC_LIQUIDITY_POLICY.
CoverageState(lci) ==
  CASE lci >= 1150 -> "HEALTHY"
    [] lci >= 1000 /\ lci < 1150 -> "WATCH"
    [] lci >= 850 /\ lci < 1000 -> "REBALANCE"
    [] OTHER -> "CRITICAL"

Shortfall(n) == IF wants[n] > holds[n] THEN wants[n] - holds[n] ELSE 0
\* calculateNetworkLiquidityCoverage at one horizon.
NetworkCoverage ==
  Coverage(SumFunctionOnSet(holds, Needers), SumFunctionOnSet(wants, Needers))

LowStock(n) == holds[n] <= reorder

\* priorityReplenishments: those that are short, the shortest first; the stock in
\* the order of the inventory.
Before(m, n) ==
  IF planner = "FLEET" /\ Shortfall(m) # Shortfall(n) THEN Shortfall(m) > Shortfall(n) ELSE m < n
ToServe == {n \in Needers : Shortfall(n) > 0 /\ (planner = "STOCK" => LowStock(n))}

Nearer(r, s) == source[r].minutes < source[s].minutes \/ (source[r].minutes = source[s].minutes /\ r < s)

\* What a source offers, and what is planned of it.
Offers == [capacity : Amounts, minutes : 1..MaxMinutes, serves : {s \in SUBSET Needers : s # {}}]
MatchRecords == [needer : Needers, source : Sources, amount : Nat \ {0}, short : Nat]

\* Agents and their requirement at a horizon; cash to give them.
Fleet == planner = "FLEET" /\ reorder = 0

\* Items with a reorder point; room on the routes.
Stock == planner = "STOCK" /\ reorder \in Amounts

Init ==
  /\ Fleet \/ Stock
  /\ holds \in [Needers -> Amounts \cup {0}] /\ wants \in [Needers -> Amounts]
  /\ source \in [Sources -> Offers]
  /\ left = [s \in Sources |-> source[s].capacity]
  /\ queue = ToServe
  /\ matches = <<>>

Amounted(S) == MapThenSumSet(LAMBDA i : matches[i].amount, S)
Planned(n) == Amounted({i \in DOMAIN matches : matches[i].needer = n})
Given(s) == Amounted({i \in DOMAIN matches : matches[i].source = s})
Short(n) == Shortfall(n) - Planned(n)
\* The totals of the plan.
Plan ==
  LET requested == SumFunction([n \in ToServe |-> Shortfall(n)])
      planned == Amounted(DOMAIN matches)
  IN [requested |-> requested, planned |-> planned,
      unmatched |-> IF requested > planned THEN requested - planned ELSE 0,
      remaining |-> SumFunctionOnSet(left, Sources)]

\* The draft of an item, with a route or without one.
Draft(n) == [requested |-> Shortfall(n), planned |-> Planned(n), unmatched |-> Short(n)]
Eligible(n) == {s \in Sources : n \in source[s].serves /\ left[s] > 0}

\* Mutant: what was planned before is not taken off the capacity.
MatchMut(n, s) ==
  LET amount == IF Short(n) < source[s].capacity THEN Short(n) ELSE source[s].capacity
  IN /\ matches' = Append(matches, [needer |-> n, source |-> s, amount |-> amount, short |-> Short(n) - amount])
     /\ left' = [left EXCEPT ![s] = source[s].capacity - amount]
     /\ queue' = IF amount = Short(n) \/ planner = "STOCK" THEN queue \ {n} ELSE queue

\* The nearest eligible source gives what it can.
Match(n, s) ==
  LET amount == IF Short(n) < left[s] THEN Short(n) ELSE left[s]
  IN /\ matches' = Append(matches, [needer |-> n, source |-> s, amount |-> amount, short |-> Short(n) - amount])
     /\ left' = [left EXCEPT ![s] = @ - amount]
     /\ queue' = IF amount = Short(n) \/ planner = "STOCK" THEN queue \ {n} ELSE queue

Serve(n) ==
  /\ n \in queue /\ \A m \in queue : m = n \/ Before(n, m)
  /\ \/ \E s \in Eligible(n) :
          /\ \A r \in Eligible(n) : r = s \/ Nearer(s, r)
          /\ Match(n, s)
     \/ /\ Eligible(n) = {}
        /\ queue' = queue \ {n} /\ UNCHANGED <<left, matches>>
  /\ UNCHANGED <<planner, holds, wants, reorder, source>>

Next == \E n \in Needers : Serve(n)

Spec == Init /\ [][Next]_vars

-----------------------------------------------------------------------------
TypeOK ==
  /\ left \in [Sources -> Nat] /\ queue \subseteq ToServe
  /\ \A i \in DOMAIN matches : matches[i] \in MatchRecords

\* A plan never gives out more than there is, nor more than is needed: no source is
\* planned beyond its capacity over all the needs it serves, none serves where it
\* is not eligible, and no need gets more than its shortfall.  When the planning is
\* over, whatever an agent is still short of is out of reach of every source that
\* is left; an item of stock may be short beside a route with room, having used
\* up its only one.  The plan's totals are those of its drafts.
PlanIsFeasible ==
  /\ \A s \in Sources : Given(s) + left[s] = source[s].capacity
  /\ \A n \in Needers : Planned(n) <= Shortfall(n)
  /\ \A i \in DOMAIN matches : matches[i].needer \in source[matches[i].source].serves
  /\ queue = {} =>
       \A n \in ToServe : Short(n) > 0 =>
         \/ Eligible(n) = {}
         \/ planner = "STOCK" /\ \E i \in DOMAIN matches :
              matches[i].needer = n /\ left[matches[i].source] = 0
  /\ Plan.unmatched = SumFunction([n \in ToServe |-> Draft(n).unmatched])
  /\ Plan.remaining + Plan.planned = SumFunction([s \in Sources |-> source[s].capacity])

\* Rounded to a tenth of a percent, a shortfall can still count as full coverage;
\* beyond the rounding the class and the shortfall agree.  The network is covered
\* no worse than its worst agent and no better than its best.
ClassAgreesWithShortfall ==
  LET agent(n) == Coverage(holds[n], wants[n])
  IN /\ \A n \in Needers :
          /\ CoverageState(agent(n)) \in {"REBALANCE", "CRITICAL"} => Shortfall(n) > 0
          /\ CoverageState(agent(n)) \in {"HEALTHY", "WATCH"} => 2000 * Shortfall(n) <= wants[n]
     /\ \E n \in Needers : agent(n) <= NetworkCoverage
     /\ \E n \in Needers : agent(n) >= NetworkCoverage
=============================================================================

---------------------------- MODULE HubLiquidity ----------------------------
(***************************************************************************)
(* The liquidity series of a hub: observations that hubs and partners      *)
(* report with the time of their own clocks, and the series the server     *)
(* makes of those in a scope whenever it is asked, each observation with   *)
(* a confidence that fades as it ages and a recommendation per horizon.    *)
(* Times are in minutes; the thresholds are the policy's.                  *)
(***************************************************************************)
EXTENDS Integers, FiniteSets, Functions, FiniteSetsExt

CONSTANTS
  Reportable,  \* observations that may be reported: records [id, scope, at, text, trust, cash, float, need]
  Horizons,    \* need is a function of them to [baseline, scheduled]
  Reach,       \* capacity of the sources that may replenish a hub
  Times,       \* instants at which the server is asked
  MaxAnswers

VARIABLES
  now,
  reported,    \* observations the server has
  answers      \* series made so far: records [scope, at, snapshots], {} snapshots when it threw

vars == <<now, reported, answers>>

Scopes == {o.scope : o \in Reportable}

-----------------------------------------------------------------------------
Freshness(age) == CASE age <= 15 -> "FRESH" [] age > 15 /\ age <= 60 -> "AGING" [] OTHER -> "STALE"

Penalty(freshness) == CASE freshness = "FRESH" -> 0 [] freshness = "AGING" -> 15 [] OTHER -> 40

\* Mutant: only the penalty of an aging observation is known.
ConfidenceMut(o, at) ==
  LET penalty == IF Freshness(at - o.at) = "AGING" THEN 15 ELSE 0
  IN IF o.trust > penalty THEN o.trust - penalty ELSE 0

\* confidenceFor: the source's own confidence less what its age costs.
Confidence(o, at) ==
  LET penalty == Penalty(Freshness(at - o.at))
  IN IF o.trust > penalty THEN o.trust - penalty ELSE 0

Band(confidence) ==
  CASE confidence >= 80 -> "HIGH" [] confidence >= 60 /\ confidence < 80 -> "MEDIUM" [] OTHER -> "LOW"

Required(o, h) == o.need[h].baseline + o.need[h].scheduled
ShortOf(o, h) == IF Required(o, h) > o.cash + o.float THEN Required(o, h) - (o.cash + o.float) ELSE 0

Balance(o, h) ==
  CASE ShortOf(o, h) > 0 -> "SHORTAGE"
    [] o.cash + o.float > Required(o, h) -> "SURPLUS"
    [] OTHER -> "BALANCED"

\* recommendationFor: each horizon is matched against all that the sources have.
Recommendation(o, h, at) ==
  CASE Freshness(at - o.at) = "STALE" -> "REFRESH"
    [] Freshness(at - o.at) # "STALE" /\ ShortOf(o, h) = 0 -> "MONITOR"
    [] Freshness(at - o.at) # "STALE" /\ ShortOf(o, h) > Reach -> "REVIEW_UNMATCHED"
    [] OTHER -> "REVIEW"

\* What the schemas of the answer admit.
Bands == {"HIGH", "MEDIUM", "LOW"}
Balances == {"SURPLUS", "BALANCED", "SHORTAGE"}
Recommendations == {"MONITOR", "REVIEW", "REVIEW_UNMATCHED", "REFRESH"}
HorizonResults(values) == [Horizons -> values]
Snapshots ==
  [of : Reportable, confidence : 0..100, band : Bands,
   balance : HorizonResults(Balances), recommendation : HorizonResults(Recommendations)]
Series == [scope : Scopes, at : Times, snapshots : SUBSET Snapshots]

Snapshot(o, at) ==
  [of |-> o, confidence |-> Confidence(o, at), band |-> Band(Confidence(o, at)),
   balance |-> [h \in Horizons |-> Balance(o, h)],
   recommendation |-> [h \in Horizons |-> Recommendation(o, h, at)]]

\* Observations of the scope: ids are unique over all that is reported, the texts of
\* the times over the scope, and none may be in the future.
Scoped(scope) == {o \in reported : o.scope = scope}

Accepts(scope) ==
  /\ \A o, p \in reported : o.id = p.id => o = p
  /\ Scoped(scope) # {}
  /\ \A o, p \in Scoped(scope) : <<o.at, o.text>> = <<p.at, p.text>> => o = p
  /\ \A o \in Scoped(scope) : o.at <= now

\* The one with the latest instant, the greatest id among equals.
Latest(snapshots) ==
  CHOOSE s \in snapshots : \A t \in snapshots :
    t.of.at < s.of.at \/ (t.of.at = s.of.at /\ t.of.id <= s.of.id)

-----------------------------------------------------------------------------
Init == now \in Times /\ (\A t \in Times : now <= t) /\ reported = {} /\ answers = {}

Report(o) ==
  /\ o \notin reported
  /\ reported' = reported \cup {o} /\ UNCHANGED <<now, answers>>

\* buildHubLiquidityTimeSeries at the server's time.
Build(scope) ==
  /\ Cardinality(answers) < MaxAnswers
  /\ answers' = answers \cup
       {[scope |-> scope, at |-> now,
         snapshots |-> IF Accepts(scope) THEN {Snapshot(o, now) : o \in Scoped(scope)} ELSE {}]}
  /\ UNCHANGED <<now, reported>>

Tick ==
  /\ \E t \in Times : now < t /\ (\A u \in Times : u > now => t <= u) /\ now' = t
  /\ UNCHANGED <<reported, answers>>

Next == (\E o \in Reportable : Report(o)) \/ (\E scope \in Scopes : Build(scope)) \/ Tick

Spec == Init /\ [][Next]_vars

-----------------------------------------------------------------------------
TypeOK ==
  /\ now \in Times /\ reported \subseteq Reportable
  /\ \A a \in answers : a \in Series /\ a.at <= now

Made == {a \in answers : a.snapshots # {}}

\* While nothing newer is reported, what the server says of a hub never becomes
\* surer again: of two series with the same latest observation the later one has no
\* more confidence in it, and once a refresh was asked for no review is suggested.
ConfidenceOnlyFades ==
  \A a, b \in Made : a.at <= b.at /\ Latest(a.snapshots).of = Latest(b.snapshots).of =>
    LET s == Latest(a.snapshots)  t == Latest(b.snapshots)
    IN /\ t.confidence <= s.confidence
       /\ (\E h \in Horizons : s.recommendation[h] = "REFRESH")
             => \A h \in Horizons : t.recommendation[h] = "REFRESH"

\* A later series of a scope never goes back to an earlier observation.
NeverOlder ==
  \A a, b \in Made : a.scope = b.scope /\ a.at < b.at =>
    Latest(a.snapshots).of.at <= Latest(b.snapshots).of.at
=============================================================================

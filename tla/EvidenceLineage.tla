-------------------------- MODULE EvidenceLineage ---------------------------
(***************************************************************************)
(* Evidence that is corrected by appending: a new record and a correction  *)
(* that says which record it supersedes.  What was derived from superseded *)
(* evidence is marked when the lineage of an evidence is asked for; the    *)
(* explorer finds records by what they are.  Nothing is ever removed; a    *)
(* log that is not consistent gives no lineage at all.                     *)
(***************************************************************************)
EXTENDS Naturals, FiniteSets, Sequences

CONSTANTS
  Recordable,     \* records [id, scope, at, class, digest, authority]
  Corrections,    \* [id, scope, old, new, at]
  Dependencies,   \* [id, scope, derived, sources, targets]
  Limit           \* how much is appended

VARIABLES records, corrections, dependencies

vars == <<records, corrections, dependencies>>

-----------------------------------------------------------------------------
\* What evidence may claim to be, and of what weight.
Classes == {"OBSERVED", "REPORTED", "DERIVED", "SYNTHETIC", "EXTERNALLY_AUTHORITATIVE"}
Authorities == {"EXTERNALLY_AUTHORITATIVE", "NOT_EXTERNALLY_AUTHORITATIVE", "EXTERNAL_AUTHORITY_UNKNOWN"}
Targets == {"EVIDENCE_EXPLORER", "FARMER360", "ARDI_DECISION_SUPPORT"}

\* The schemas: verified integrity needs a digest, synthetic evidence is nobody's
\* authority, nothing replaces itself or rests on itself.  They are tried on the
\* whole log at every reading, so that one item they refuse makes all readings fail.
RecordParses(r) ==
  /\ r.class \in Classes /\ r.authority \in Authorities
  /\ r.integrity = "INTEGRITY_VERIFIED" => r.digest
  /\ r.class = "SYNTHETIC" => r.authority # "EXTERNALLY_AUTHORITATIVE"
CorrectionParses(c) == c.old # c.new
DependencyParses(d) ==
  d.sources # {} /\ d.derived \notin d.sources /\ d.targets # {} /\ d.targets \subseteq Targets
RecordsParse == \A r \in records : RecordParses(r)

In(scope, items) == {x \in items : x.scope = scope}
Ids(scope) == {r.id : r \in In(scope, records)}
At(id) == (CHOOSE r \in records : r.id = id).at
UniqueBy(items, Key(_)) == \A x, y \in items : Key(x) = Key(y) => x = y

Next1(scope, id) == {c.new : c \in {x \in In(scope, corrections) : x.old = id}}

\* From each evidence the corrections lead somewhere, within as many steps as there
\* are evidences.
Follow(scope, id) ==
  LET f[n \in 0..Cardinality(Ids(scope))] == IF n = 0 THEN {id} ELSE UNION {Next1(scope, x) : x \in f[n - 1]}
  IN f
Acyclic(scope) == \A id \in Ids(scope) : Follow(scope, id)[Cardinality(Ids(scope))] = {}

\* validateScopedLineage: ids are unique over all scopes, references inside one.
Valid(scope) ==
  /\ RecordsParse
  /\ (\A c \in corrections : CorrectionParses(c)) /\ (\A d \in dependencies : DependencyParses(d))
  /\ UniqueBy(records, LAMBDA r : r.id) /\ UniqueBy(corrections, LAMBDA c : c.id)
  /\ UniqueBy(corrections, LAMBDA c : c.old) /\ UniqueBy(dependencies, LAMBDA d : d.id)
  /\ \A c \in In(scope, corrections) :
       /\ {c.old, c.new} \subseteq Ids(scope)
       /\ At(c.old) <= At(c.new) /\ At(c.new) <= c.at
  /\ Acyclic(scope)
  /\ \A d \in In(scope, dependencies) : {d.derived} \cup d.sources \subseteq Ids(scope)

\* The predecessor is one of those that an evidence supersedes, the last appended in
\* the code: two may have been merged into one.
Predecessors(scope, id) == {c.old : c \in {x \in In(scope, corrections) : x.new = id}}
Roots(scope, id) ==
  LET f[n \in 0..Cardinality(Ids(scope))] ==
        IF n = 0 THEN {id}
        ELSE UNION {IF Predecessors(scope, x) = {} THEN {x} ELSE Predecessors(scope, x) : x \in f[n - 1]}
  IN f[Cardinality(Ids(scope))]

Chain(scope, root) == UNION {Follow(scope, root)[n] : n \in 0..Cardinality(Ids(scope))}
Corrected(scope, root) == {id \in Chain(scope, root) : Next1(scope, id) # {}}

\* One more pass over dependencies.
Pass(deps, corrected, marked) ==
  marked \cup {d.derived : d \in {x \in deps : x.sources \cap (corrected \cup marked) # {}}}

\* Mutant: a single pass.
MarkedMut(deps, corrected) == Pass(deps, corrected, {})

\* Passes until nothing changes.
Marked(deps, corrected) ==
  LET f[n \in 0..Cardinality(deps)] == IF n = 0 THEN {} ELSE Pass(deps, corrected, f[n - 1])
  IN f[Cardinality(deps)]

\* Evidence that is marked is marked once, by the dependency the passes come to
\* first, which may be any with which the passes still mark all; only its targets
\* are to be computed anew.
Marking(scope, corrected) ==
  {deps \in SUBSET In(scope, dependencies) :
     /\ UniqueBy(deps, LAMBDA d : d.derived)
     /\ {d.derived : d \in deps} = Marked(deps, corrected)
     /\ Marked(deps, corrected) = Marked(In(scope, dependencies), corrected)}
ToRecompute(deps) == UNION {d.targets : d \in deps}

-----------------------------------------------------------------------------
\* What a role is shown of a record: all see what it claims, the desk also where it
\* comes from, the partner's administrator also who gave it.
Common == [id : {r.id : r \in Recordable}, at : {r.at : r \in Recordable}, class : Classes,
           integrity : {r.integrity : r \in Recordable}, authority : Authorities]
Withheld == {"WITHHELD"}
Projections ==
  { [shown |-> c, provenance |-> p, actor |-> a] :
      c \in Common, p \in {r.scope : r \in Recordable} \cup Withheld,
      a \in {r.scope : r \in Recordable} \cup Withheld }

Projected(r, role) ==
  [shown |-> [f \in {"id", "at", "class", "integrity", "authority"} |-> r[f]],
   provenance |-> IF role = "SUPERVISOR" THEN "WITHHELD" ELSE r.scope,
   actor |-> IF role = "PARTNER_ADMIN" THEN r.scope ELSE "WITHHELD"]

\* A query names instants in order, and what it does not name it does not ask.
QueryParses(q) == q.from <= q.to

\* searchEvidenceExplorer, which knows nothing of corrections.
Search(scope, role, q) ==
  IF RecordsParse /\ QueryParses(q)
  THEN {Projected(r, role) : r \in {x \in In(scope, records) : x.class \in q.classes /\ x.at \in q.from..q.to}}
  ELSE {}

\* buildEvidenceLineage, the lineages it may give; none when the log is not valid.
Shown(scope, role, ids) == {Projected(r, role) : r \in {x \in In(scope, records) : x.id \in ids}}
Lineages(scope, role, id) ==
  IF Valid(scope) /\ id \in Ids(scope)
  THEN UNION { { [chain |-> Chain(scope, root), shown |-> Shown(scope, role, Chain(scope, root)),
                  superseded |-> Corrected(scope, root), marked |-> {d.derived : d \in deps},
                  recompute |-> ToRecompute(deps)] :
                    deps \in Marking(scope, Corrected(scope, root)) } : root \in Roots(scope, id) }
  ELSE {}

\* EvidenceLineageResultSchema.
LineageParses(l) ==
  /\ l.chain \cup l.marked \subseteq {r.id : r \in Recordable} /\ l.superseded \subseteq l.chain
  /\ l.shown \subseteq Projections /\ l.recompute \subseteq Targets

-----------------------------------------------------------------------------
Init == records = {} /\ corrections = {} /\ dependencies = {}

Appended == Cardinality(records) + Cardinality(corrections) + Cardinality(dependencies)

Record(r) == records' = records \cup {r} /\ UNCHANGED <<corrections, dependencies>>
Correct(c) == corrections' = corrections \cup {c} /\ UNCHANGED <<records, dependencies>>
Depend(d) == dependencies' = dependencies \cup {d} /\ UNCHANGED <<records, corrections>>

Next ==
  /\ Appended < Limit
  /\ \/ \E r \in Recordable : Record(r)
     \/ \E c \in Corrections : Correct(c)
     \/ \E d \in Dependencies : Depend(d)

Spec == Init /\ [][Next]_vars

-----------------------------------------------------------------------------
Roles == {"SUPERVISOR", "OPERATIONS", "PARTNER_ADMIN"}
Scopes == {r.scope : r \in records}

TypeOK ==
  /\ records \subseteq Recordable /\ corrections \subseteq Corrections
  /\ dependencies \subseteq Dependencies /\ Appended <= Limit
  /\ \A scope \in Scopes : \A id \in Ids(scope) : \A l \in Lineages(scope, "OPERATIONS", id) : LineageParses(l)

\* d is derived from id, directly or by way of other derived evidence.
DerivedFrom(scope, id, d) ==
  \E n \in 1..Cardinality(dependencies) : \E path \in [1..n -> In(scope, dependencies)] :
    /\ id \in path[1].sources /\ path[n].derived = d
    /\ \A i \in 1..n - 1 : path[i].derived \in path[i + 1].sources

\* Who asks for the lineage of an evidence sees it, all that came after it, and a
\* mark on whatever rests, however remotely, on any of these that was superseded;
\* and nothing is marked that does not rest on superseded evidence.  What the same
\* replacement superseded besides may be missing.  For each that is marked what one
\* of its dependencies feeds is to be computed anew, and the explorer shows each link
\* as the lineage does.
DerivedIsMarked ==
  \A scope \in Scopes, role \in Roles : \A id \in Ids(scope) : \A l \in Lineages(scope, role, id) :
    /\ id \in l.chain /\ Next1(scope, id) \subseteq l.chain
    /\ Next1(scope, id) # {} => id \in l.superseded
    /\ l.marked = {d \in Ids(scope) : \E old \in l.superseded : DerivedFrom(scope, old, d)}
    /\ \A x \in l.marked : \E d \in In(scope, dependencies) : d.derived = x /\ d.targets \subseteq l.recompute
    /\ Cardinality(l.chain \ l.superseded) = 1
    /\ \A p \in l.shown : \A to \in {r.at : r \in records} :
         p.shown.at <= to => p \in Search(scope, role, [from |-> p.shown.at, to |-> to, classes |-> Classes])
=============================================================================

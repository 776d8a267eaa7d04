---------------------------- MODULE UnitSelection ----------------------------
(***************************************************************************)
(* returnguard_project.py before its workers start: which translation      *)
(* units does one invocation analyse?  Several invocations, the shards of  *)
(* a CI job, each on a machine and at a time of its own, share the sources *)
(* of one project; sources come and go between them.                       *)
(*                                                                         *)
(* A source is a number: its place in the order of the paths.  What the    *)
(* options make of it is [suffix, included, excluded, skipped]: is there a *)
(* path of it below the roots that crosses no excluded directory?          *)
(* An invocation is a record of its options:                               *)
(*   [database, listed, roots, extensions, includes, includeMissing, root, *)
(*    index, count, maxFiles, jobs, tool, show]                            *)
(* database: "listed", and listed are its entries in their order, some     *)
(* more than once perhaps; "malformed"; or "none", and source roots are    *)
(* scanned.  includes: is there an --include-regex?  maxFiles: 0 for none. *)
(***************************************************************************)
EXTENDS Integers, Sequences, FiniteSets

CONSTANTS
  Sources,             \* the files of the project, as numbers
  Traits,              \* source -> what patterns and directories make of it
  Invocations,         \* the names of the invocations
  Plans,               \* what the invocations may be: functions to options
  Roots,               \* where a machine may have the shard root
  Digest               \* root -> source -> the hash of the relative path

SelectionAssumption ==
  /\ Sources \subseteq Nat /\ IsFiniteSet(Sources)
  /\ \A plan \in Plans, i \in Invocations :
       plan[i].count \in Int /\ plan[i].index \in Int /\ plan[i].root \in Roots
  /\ \A root \in Roots, s \in Sources : Digest[root][s] \in Nat

ASSUME SelectionAssumption

VARIABLES
  plan,                \* the options of each invocation
  present,             \* the sources that exist now
  steady,              \* the sources that existed all the time
  outcome,             \* how each invocation ended, or "pending"
  selected,            \* the units each invocation analyses
  missing              \* how many missing sources each one reports
selectionVars == <<plan, present, steady, outcome, selected, missing>>

-----------------------------------------------------------------------------
\* The units of an invocation, each once, whatever the database repeats.

\* load_translation_units, discover_translation_units
UnitsOf(o) ==
  IF o.database = "none"
  THEN {s \in present : ~Traits[s].skipped}
  ELSE {o.listed[k] : k \in DOMAIN o.listed}

\* Its suffix, the include patterns if there are any, then the exclude patterns.
Matches(o, s) ==
  /\ Traits[s].suffix \in o.extensions
  /\ o.includes => Traits[s].included
  /\ ~Traits[s].excluded

Missing(o) == {s \in UnitsOf(o) : Matches(o, s) /\ ~o.includeMissing /\ s \notin present}

ShardByPlace(o, s) == Cardinality({t \in UnitsOf(o) : t < s}) % o.count     \* a slip

\* shard_for_source: the hash of the path relative to the shard root.
Shard(o, s) == Digest[o.root][s] % o.count

Matching(o) == {s \in UnitsOf(o) : Matches(o, s) /\ s \notin Missing(o) /\ Shard(o, s) = o.index}

\* The first of them, in the order of the paths.
Truncated(o, chosen) ==
  IF o.maxFiles = 0 THEN chosen
  ELSE {s \in chosen : Cardinality({t \in chosen : t <= s}) <= o.maxFiles}

-----------------------------------------------------------------------------
\* validate_arguments, and what else ends an invocation with code 2.
Refused(o) ==
  \/ o.database = "none" /\ ~o.roots
  \/ o.jobs < 1 \/ o.count < 1 \/ ~(0 <= o.index /\ o.index < o.count) \/ o.maxFiles < 0
  \/ o.database = "malformed" \/ o.extensions = {}

Pending(i) == outcome[i] = "pending"

Ends(i, how, units, gone) ==
  /\ outcome' = [outcome EXCEPT ![i] = how]
  /\ selected' = [selected EXCEPT ![i] = units]
  /\ missing' = [missing EXCEPT ![i] = gone]
  /\ UNCHANGED <<plan, present, steady>>

Refuse(i) == Pending(i) /\ Refused(plan[i]) /\ Ends(i, "refused", {}, 0)

\* select_translation_units, and what main does with the selection.
Select(i) ==
  LET o == plan[i]
      units == Truncated(o, Matching(o))
      how == IF o.show = "list" THEN "listed"
             ELSE IF units = {} THEN "nothing"
             ELSE IF ~o.tool THEN "refused"
             ELSE IF o.show = "commands" THEN "listed" ELSE "running"
  IN /\ Pending(i) /\ ~Refused(o)
     /\ Ends(i, how, units, Cardinality(Missing(o)))

\* Between two invocations sources are written and removed.
Appears(s) ==
  /\ s \notin present /\ present' = present \cup {s}
  /\ UNCHANGED <<plan, steady, outcome, selected, missing>>

Vanishes(s) ==
  /\ s \in present /\ present' = present \ {s} /\ steady' = steady \ {s}
  /\ UNCHANGED <<plan, outcome, selected, missing>>

InitSelection ==
  /\ plan \in Plans
  /\ present \in SUBSET Sources /\ steady = present
  /\ outcome = [i \in Invocations |-> "pending"]
  /\ selected = [i \in Invocations |-> {}]
  /\ missing = [i \in Invocations |-> 0]

NextSelection ==
  \/ \E i \in Invocations : Refuse(i) \/ Select(i)
  \/ \E s \in Sources : Appears(s) \/ Vanishes(s)

SelectionSpec == InitSelection /\ [][NextSelection]_selectionVars

-----------------------------------------------------------------------------
\* The invocations are the shards of one run: they differ in the machine's
\* place of the project and in their index, and every index has its one.
Sharded ==
  /\ \A i, j \in Invocations :
       /\ plan[i].count = plan[j].count /\ plan[i].root = plan[j].root
       /\ plan[i].database = plan[j].database
       /\ {plan[i].listed[k] : k \in DOMAIN plan[i].listed} =
            {plan[j].listed[k] : k \in DOMAIN plan[j].listed}
       /\ \A s \in Sources : Matches(plan[i], s) <=> Matches(plan[j], s)
       /\ plan[i].index = plan[j].index => i = j
  /\ \A i \in Invocations : ~Refused(plan[i]) /\ plan[i].maxFiles = 0
  /\ \A i \in Invocations : \A n \in 0..(plan[i].count - 1) :
       \E j \in Invocations : plan[j].index = n

Done == \A i \in Invocations : ~Pending(i)

\* The sources the shards should analyse.
Wanted(o, s) ==
  /\ Matches(o, s) /\ s \in steady
  /\ IF o.database = "none" THEN ~Traits[s].skipped ELSE \E k \in DOMAIN o.listed : o.listed[k] = s

\* "Each source belongs to exactly one shard after filtering and deduplication"
\* (docs/large-projects.md:102), however the machines list the sources, and
\* whatever other sources come and go between the shards.
ExactlyOneShard ==
  Sharded =>
    /\ \A i, j \in Invocations : i # j => selected[i] \cap selected[j] = {}
    /\ Done => \A i \in Invocations, s \in Sources :
                 Wanted(plan[i], s) => \E j \in Invocations : s \in selected[j]
=============================================================================

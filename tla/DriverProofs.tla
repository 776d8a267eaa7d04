------------------------- MODULE DriverProofs -------------------------
(***************************************************************************)
(* The programs around the analyses.  UnitSelection: the shards of a run   *)
(* divide the sources between them, while sources come and go.             *)
(* CompilerLauncher: nothing is compiled unanalysed.  AnalyzerConfig: no   *)
(* policy is lost, and the nearest database is taken.  ProjectRunner: what *)
(* exit status 0 claims, the bound on analyzers and their end, however     *)
(* threads, signals and failures interleave.                               *)
(***************************************************************************)
EXTENDS ProjectRunner, UnitSelection, CompilerLauncher, AnalyzerConfig, SequenceTheorems, FiniteSetTheorems,
        WellFoundedInduction, TLAPS

\* An invocation that has run, and was to analyse all of its shard.
Complete(i) == ~Pending(i) /\ ~Refused(plan[i]) /\ plan[i].maxFiles = 0

\* What it selected is its shard of what is wanted.
ShardSelected(i) ==
  /\ \A s \in selected[i] : Shard(plan[i], s) = plan[i].index
  /\ \A s \in Sources :
       Wanted(plan[i], s) /\ Shard(plan[i], s) = plan[i].index => s \in selected[i]

Functions ==
  /\ DOMAIN outcome = Invocations /\ outcome = [i \in Invocations |-> outcome[i]]
  /\ DOMAIN selected = Invocations /\ selected = [i \in Invocations |-> selected[i]]

\* The inductive invariant: what was always there is there.
SelectionInv ==
  /\ Functions
  /\ plan \in Plans
  /\ steady \subseteq present
  /\ \A i \in Invocations : Pending(i) => selected[i] = {}
  /\ \A i \in Invocations : Complete(i) => ShardSelected(i)

-----------------------------------------------------------------------------
\* The hash of a source belongs to one of the shards.
LEMMA ShardInRange ==
  ASSUME NEW o, NEW s \in Sources, o.root \in Roots, o.count \in Int, o.count >= 1
  PROVE  Shard(o, s) \in 0..(o.count - 1)
<1>1. Digest[o.root][s] \in Nat
  BY SelectionAssumption DEF SelectionAssumption
<1> QED
  BY <1>1 DEF Shard

\* Without a limit nothing is cut off what matches.
LEMMA SelectionIsShard ==
  ASSUME NEW o, o.maxFiles = 0, steady \subseteq present
  PROVE  LET units == Truncated(o, Matching(o)) IN
         /\ \A s \in units : Shard(o, s) = o.index
         /\ \A s \in Sources : Wanted(o, s) /\ Shard(o, s) = o.index => s \in units
<1>1. Truncated(o, Matching(o)) = Matching(o)
  BY DEF Truncated
<1>2. ASSUME NEW s \in Sources, Wanted(o, s)
      PROVE  s \in UnitsOf(o) /\ Matches(o, s) /\ s \notin Missing(o)
  <2>1. s \in present /\ Matches(o, s)
    BY <1>2 DEF Wanted
  <2>2. s \notin Missing(o)
    BY <2>1 DEF Missing
  <2>3. CASE o.database = "none"
    BY <1>2, <2>1, <2>2, <2>3 DEF Wanted, UnitsOf
  <2>4. CASE o.database # "none"
    BY <1>2, <2>1, <2>2, <2>4 DEF Wanted, UnitsOf
  <2> QED
    BY <2>3, <2>4
<1> QED
  BY <1>1, <1>2 DEF Matching

\* The invariant holds at the beginning...
LEMMA SelectionStarts == InitSelection => SelectionInv
<1> SUFFICES ASSUME InitSelection PROVE SelectionInv
  OBVIOUS
<1>1. Functions /\ plan \in Plans /\ steady \subseteq present
  BY DEF InitSelection, Functions
<1>2. \A i \in Invocations : Pending(i) /\ selected[i] = {}
  BY DEF InitSelection, Pending
<1> QED
  BY <1>1, <1>2 DEF SelectionInv, Complete

\* ... and no step of an invocation or around them breaks it.
LEMMA SelectionStep == SelectionInv /\ [NextSelection]_selectionVars => SelectionInv'
<1> SUFFICES ASSUME SelectionInv, [NextSelection]_selectionVars PROVE SelectionInv'
  OBVIOUS
<1>0. Functions /\ steady \subseteq present
  BY DEF SelectionInv
<1>1. ASSUME NEW i \in Invocations, NEW how, NEW units, NEW gone, Ends(i, how, units, gone),
             ~Refused(plan[i]) /\ plan[i].maxFiles = 0 =>
               /\ \A s \in units : Shard(plan[i], s) = plan[i].index
               /\ \A s \in Sources :
                    Wanted(plan[i], s) /\ Shard(plan[i], s) = plan[i].index => s \in units,
             how # "pending"
      PROVE  SelectionInv'
  <2>1. /\ plan' = plan /\ present' = present /\ steady' = steady
        /\ outcome' = [outcome EXCEPT ![i] = how]
        /\ selected' = [selected EXCEPT ![i] = units]
    BY <1>1 DEF Ends
  <2>2. Functions'
    BY <1>0, <2>1 DEF Functions
  <2>3. /\ outcome'[i] = how /\ selected'[i] = units
        /\ \A j \in Invocations : j # i => outcome'[j] = outcome[j] /\ selected'[j] = selected[j]
    BY <1>0, <2>1 DEF Functions
  <2>4. ASSUME NEW j \in Invocations PROVE (Pending(j) => selected[j] = {})'
    BY <1>1, <2>3 DEF SelectionInv, Pending
  <2>5. ASSUME NEW j \in Invocations, Complete(j)' PROVE ShardSelected(j)'
    <3>1. \A s : Wanted(plan[j], s)' <=> Wanted(plan[j], s)
      BY <2>1 DEF Wanted, Matches
    <3>2. \A s : Shard(plan[j], s)' = Shard(plan[j], s)
      BY <2>1 DEF Shard
    <3>3. ~Refused(plan[j]) /\ plan[j].maxFiles = 0
      BY <2>1, <2>5 DEF Complete, Refused
    <3>4. CASE j = i
      BY <1>1, <2>1, <2>3, <3>1, <3>2, <3>3, <3>4 DEF ShardSelected
    <3>5. CASE j # i
      <4>1. Complete(j)
        BY <2>3, <2>5, <3>3, <3>5 DEF Complete, Pending
      <4>2. ShardSelected(j)
        BY <4>1 DEF SelectionInv
      <4> QED
        BY <2>1, <2>3, <3>1, <3>2, <3>5, <4>2 DEF ShardSelected
    <3> QED
      BY <3>4, <3>5
  <2>6. (plan \in Plans /\ steady \subseteq present)'
    BY <2>1 DEF SelectionInv
  <2> QED
    BY <2>2, <2>4, <2>5, <2>6 DEF SelectionInv
<1>2. ASSUME NEW i \in Invocations, Refuse(i) PROVE SelectionInv'
  BY <1>1, <1>2 DEF Refuse
<1>3. ASSUME NEW i \in Invocations, Select(i) PROVE SelectionInv'
  <2> DEFINE units == Truncated(plan[i], Matching(plan[i]))
             gone == Cardinality(Missing(plan[i]))
  <2>1. PICK how \in {"listed", "nothing", "refused", "running"} : Ends(i, how, units, gone)
    BY <1>3 DEF Select
  <2>2. plan[i].maxFiles = 0 =>
               /\ \A s \in units : Shard(plan[i], s) = plan[i].index
               /\ \A s \in Sources :
                    Wanted(plan[i], s) /\ Shard(plan[i], s) = plan[i].index => s \in units
    BY <1>0, SelectionIsShard
  <2> HIDE DEF units, gone
  <2> QED
    BY <1>1, <2>1, <2>2
<1>4. ASSUME UNCHANGED <<plan, outcome, selected>>, steady' \subseteq steady,
             steady' \subseteq present'
      PROVE  SelectionInv'
  <2>1. Functions' /\ plan' \in Plans
    BY <1>4 DEF SelectionInv, Functions
  <2>2. ASSUME NEW i \in Invocations, Complete(i)' PROVE ShardSelected(i)'
    <3>1. Complete(i)
      BY <1>4, <2>2 DEF Complete, Pending, Refused
    <3>2. ShardSelected(i)
      BY <3>1 DEF SelectionInv
    <3>3. \A s : Wanted(plan[i], s)' => Wanted(plan[i], s)
      BY <1>4 DEF Wanted, Matches
    <3>4. \A s : Shard(plan[i], s)' = Shard(plan[i], s)
      BY <1>4 DEF Shard
    <3> QED
      BY <1>4, <3>2, <3>3, <3>4 DEF ShardSelected
  <2>3. \A i \in Invocations : (Pending(i) => selected[i] = {})'
    BY <1>4 DEF SelectionInv, Pending
  <2> QED
    BY <1>4, <2>1, <2>2, <2>3 DEF SelectionInv
<1>5. ASSUME NEW s \in Sources, Appears(s) PROVE SelectionInv'
  BY <1>0, <1>4, <1>5 DEF Appears
<1>6. ASSUME NEW s \in Sources, Vanishes(s) PROVE SelectionInv'
  BY <1>0, <1>4, <1>6 DEF Vanishes
<1>7. CASE UNCHANGED selectionVars
  BY <1>0, <1>4, <1>7 DEF selectionVars
<1> QED
  BY <1>2, <1>3, <1>5, <1>6, <1>7 DEF NextSelection

\* The invariant says it: what two shards selected hashes to different shards,
\* and the shard a wanted source hashes to is one of them.
LEMMA InvariantDivides == SelectionInv => ExactlyOneShard
<1> SUFFICES ASSUME SelectionInv, Sharded
             PROVE  /\ \A i, j \in Invocations : i # j => selected[i] \cap selected[j] = {}
                    /\ Done => \A i \in Invocations, s \in Sources :
                         Wanted(plan[i], s) => \E j \in Invocations : s \in selected[j]
  BY DEF ExactlyOneShard
<1>1. ASSUME NEW i \in Invocations, NEW j \in Invocations
      PROVE  /\ plan[i].count = plan[j].count /\ plan[i].root = plan[j].root
             /\ plan[i].index = plan[j].index => i = j
  BY DEF Sharded
<1>2. ASSUME NEW i \in Invocations PROVE selected[i] = {} \/ ShardSelected(i)
  BY DEF SelectionInv, Sharded, Complete
<1>3. ASSUME NEW i \in Invocations, NEW j \in Invocations, NEW s
      PROVE  Shard(plan[i], s) = Shard(plan[j], s)
  BY <1>1 DEF Shard
<1>4. ASSUME NEW i \in Invocations, NEW j \in Invocations, i # j
      PROVE  selected[i] \cap selected[j] = {}
  <2> SUFFICES ASSUME NEW s \in selected[i], s \in selected[j] PROVE FALSE
    OBVIOUS
  <2>1. Shard(plan[i], s) = plan[i].index /\ Shard(plan[j], s) = plan[j].index
    BY <1>2 DEF ShardSelected
  <2> QED
    BY <1>1, <1>3, <1>4, <2>1
<1>5. ASSUME Done, NEW i \in Invocations, NEW s \in Sources, Wanted(plan[i], s)
      PROVE  \E j \in Invocations : s \in selected[j]
  <2>1. /\ plan[i].count \in Int /\ plan[i].root \in Roots
    BY SelectionAssumption DEF SelectionAssumption, SelectionInv
  <2>2. plan[i].count >= 1
    BY <2>1 DEF Sharded, Refused
  <2>3. Shard(plan[i], s) \in 0..(plan[i].count - 1)
    BY <2>1, <2>2, ShardInRange
  <2>4. PICK j \in Invocations : plan[j].index = Shard(plan[i], s)
    BY <2>3 DEF Sharded
  <2>5. /\ Matches(plan[i], s) <=> Matches(plan[j], s)
        /\ plan[i].database = plan[j].database
        /\ {plan[i].listed[k] : k \in DOMAIN plan[i].listed} =
             {plan[j].listed[k] : k \in DOMAIN plan[j].listed}
    BY DEF Sharded
  <2>6. (\E k \in DOMAIN plan[i].listed : plan[i].listed[k] = s) =>
          \E k \in DOMAIN plan[j].listed : plan[j].listed[k] = s
    <3>1. (\E k \in DOMAIN plan[i].listed : plan[i].listed[k] = s) =>
            s \in {plan[j].listed[k] : k \in DOMAIN plan[j].listed}
      BY <2>5
    <3> QED
      BY <3>1
  <2>7. Wanted(plan[j], s)
    BY <1>5, <2>5, <2>6 DEF Wanted
  <2>8. ShardSelected(j)
    BY <1>5 DEF Done, SelectionInv, Sharded, Complete
  <2>9. Shard(plan[j], s) = plan[j].index
    BY <1>3, <2>4
  <2> QED
    BY <2>7, <2>8, <2>9 DEF ShardSelected
<1> QED
  BY <1>4, <1>5

-----------------------------------------------------------------------------
\* select_translation_units with the shards of one run: every source that is
\* there all the time is analysed by exactly one of them, for any number of
\* shards, in whatever order the machines list the sources and run.
THEOREM ShardsDivideSources == SelectionSpec => []ExactlyOneShard
<1>1. SelectionSpec => []SelectionInv
  BY SelectionStarts, SelectionStep, PTL DEF SelectionSpec
<1> QED
  BY <1>1, InvariantDivides, PTL

-----------------------------------------------------------------------------
\* Induction: a set of numbers that has 0 and the successor of each is all of Nat.
LEMMA NatSetInduction ==
  ASSUME NEW T \in SUBSET Nat, 0 \in T, \A n \in T : n + 1 \in T
  PROVE  T = Nat
<1> SUFFICES ASSUME Nat \ T # {} PROVE FALSE
  OBVIOUS
<1>1. PICK n \in Nat \ T : \A m \in Nat \ T : ~(<<m, n>> \in OpToRel(<, Nat))
  BY NatLessThanWellFounded, WFMin
<1>2. n # 0 /\ n - 1 \in Nat /\ n = (n - 1) + 1
  OBVIOUS
<1>3. n - 1 \in Nat \ T
  BY <1>2
<1>4. <<n - 1, n>> \in OpToRel(<, Nat)
  BY <1>2 DEF OpToRel
<1> QED BY <1>1, <1>3, <1>4

LEMMA LeastElement ==
  ASSUME NEW S \in SUBSET Nat, S # {}
  PROVE  \E n \in S : \A m \in S : n <= m
<1>1. PICK n \in S : \A m \in S : ~(<<m, n>> \in OpToRel(<, Nat))
  BY NatLessThanWellFounded, WFMin
<1>2. ASSUME NEW m \in S PROVE n <= m
  <2>1. m \in Nat /\ n \in Nat
    OBVIOUS
  <2>2. ~(<<m, n>> \in OpToRel(<, Nat))
    BY <1>1
  <2>3. ~(m < n)
    BY <2>1, <2>2 DEF OpToRel
  <2> QED BY <2>1, <2>3
<1> QED BY <1>2

-----------------------------------------------------------------------------
\* The launcher: what its loops pass over.

LEMMA TakenLaw ==
  ASSUME line \in Seq(Words), NEW options
  PROVE  \A k \in DOMAIN line :
           k \in Taken(options) <=> k > 1 /\ line[k - 1] \in options /\ k - 1 \notin Taken(options)
<1> DEFINE Solves(n, f) == f = [k \in 1..n |-> k > 1 /\ line[k - 1] \in options /\ ~f[k - 1]]
           T == {n \in Nat : \E f : Solves(n, f)}
           taken == CHOOSE f : Solves(Len(line), f)
<1>1. 0 \in T
  <2>1. Solves(0, [k \in 1..0 |-> FALSE])
    OBVIOUS
  <2> QED BY <2>1
<1>2. ASSUME NEW n \in T PROVE n + 1 \in T
  <2>1. n \in Nat
    OBVIOUS
  <2>2. PICK f : Solves(n, f)
    OBVIOUS
  <2> DEFINE last == n + 1 > 1 /\ line[n] \in options /\ ~f[n]
             g == [k \in 1..(n + 1) |-> IF k = n + 1 THEN last ELSE f[k]]
  <2>3. ASSUME NEW k \in 1..(n + 1)
        PROVE  g[k] = (k > 1 /\ line[k - 1] \in options /\ ~g[k - 1])
    <3>1. CASE k = n + 1
      <4>1. n > 0 => g[n] = f[n]
        BY <2>1
      <4> QED BY <2>1, <3>1, <4>1
    <3>2. CASE k # n + 1
      <4>1. k \in 1..n /\ (k > 1 => k - 1 \in 1..n)
        BY <2>1, <3>2
      <4>2. g[k] = f[k] /\ (k > 1 => g[k - 1] = f[k - 1])
        BY <2>1, <4>1
      <4>3. f[k] = (k > 1 /\ line[k - 1] \in options /\ ~f[k - 1])
        BY <2>2, <4>1
      <4> QED BY <4>2, <4>3
    <3> QED BY <3>1, <3>2
  <2>4. Solves(n + 1, g)
    <3>1. g = [k \in 1..(n + 1) |-> g[k]]
      OBVIOUS
    <3> HIDE DEF g
    <3> QED BY <2>3, <3>1
  <2> HIDE DEF g, Solves
  <2> QED BY <2>1, <2>4
<1>3. T = Nat
  <2> HIDE DEF T
  <2>1. T \in SUBSET Nat
    BY DEF T
  <2> QED BY <1>1, <1>2, <2>1, NatSetInduction
<1>4. Len(line) \in Nat /\ DOMAIN line = 1..Len(line)
  OBVIOUS
<1>5. Solves(Len(line), taken)
  <2>1. \E f : Solves(Len(line), f)
    BY <1>3, <1>4
  <2> HIDE DEF Solves
  <2> QED BY <2>1
<1>6. Taken(options) = {k \in DOMAIN line : taken[k]}
  BY <1>4 DEF Taken
<1> HIDE DEF taken
<1>7. \A k \in DOMAIN line : taken[k] = (k > 1 /\ line[k - 1] \in options /\ ~taken[k - 1])
  BY <1>4, <1>5
<1>8. \A k \in DOMAIN line : k > 1 => k - 1 \in DOMAIN line
  BY <1>4
<1> QED BY <1>6, <1>7, <1>8

\* What a compiler reads at place k, given what it read at the place before.
ReadAt(k, before) ==
  IF k > 1 /\ before \in {"separator", "literal"} THEN "literal"
  ELSE IF k > 1 /\ before = "option" /\ line[k - 1] \in WithValue THEN "value"
  ELSE IF line[k] = "--" THEN "separator"
  ELSE IF line[k] \in Options THEN "option" ELSE "file"

LEMMA ReadingLaw ==
  ASSUME line \in Seq(Words)
  PROVE  \A k \in DOMAIN line : Reading[k] = ReadAt(k, Reading[k - 1])
<1> DEFINE Solves(n, f) == f = [k \in 1..n |-> ReadAt(k, f[k - 1])]
           T == {n \in Nat : \E f : Solves(n, f)}
<1>1. 0 \in T
  <2>1. Solves(0, [k \in 1..0 |-> "file"])
    OBVIOUS
  <2> QED BY <2>1
<1>2. ASSUME NEW n \in T PROVE n + 1 \in T
  <2>1. n \in Nat
    OBVIOUS
  <2>2. PICK f : Solves(n, f)
    OBVIOUS
  <2> DEFINE g == [k \in 1..(n + 1) |-> IF k = n + 1 THEN ReadAt(n + 1, f[n]) ELSE f[k]]
  <2>3. ASSUME NEW k \in 1..(n + 1) PROVE g[k] = ReadAt(k, g[k - 1])
    <3>1. CASE k = n + 1
      <4>1. n > 0 => g[n] = f[n]
        BY <2>1
      <4>2. n = 0 => ReadAt(n + 1, f[n]) = ReadAt(n + 1, g[n])
        BY DEF ReadAt
      <4> QED BY <2>1, <3>1, <4>1, <4>2
    <3>2. CASE k # n + 1
      <4>1. k \in 1..n /\ (k > 1 => k - 1 \in 1..n)
        BY <2>1, <3>2
      <4>2. g[k] = f[k] /\ (k > 1 => g[k - 1] = f[k - 1])
        BY <2>1, <4>1
      <4>3. f[k] = ReadAt(k, f[k - 1])
        BY <2>2, <4>1
      <4>4. ~(k > 1) => ReadAt(k, f[k - 1]) = ReadAt(k, g[k - 1])
        BY DEF ReadAt
      <4> QED BY <4>2, <4>3, <4>4
    <3> QED BY <3>1, <3>2
  <2>4. Solves(n + 1, g)
    <3>1. g = [k \in 1..(n + 1) |-> g[k]]
      OBVIOUS
    <3> HIDE DEF g
    <3> QED BY <2>3, <3>1
  <2> HIDE DEF g, Solves
  <2> QED BY <2>1, <2>4
<1>3. T = Nat
  <2> HIDE DEF T
  <2>1. T \in SUBSET Nat
    BY DEF T
  <2> QED BY <1>1, <1>2, <2>1, NatSetInduction
<1>4. Len(line) \in Nat /\ DOMAIN line = 1..Len(line)
  OBVIOUS
<1>5. Reading = CHOOSE f : Solves(Len(line), f)
  BY <1>4 DEF Reading, ReadAt
<1>6. Solves(Len(line), Reading)
  <2>1. \E f : Solves(Len(line), f)
    BY <1>3, <1>4
  <2> HIDE DEF Solves
  <2> QED BY <1>5, <2>1
<1> QED BY <1>4, <1>6

\* What is read at a place, and what it says of the places around.
LEMMA ReadingFacts ==
  ASSUME line \in Seq(Words), NEW k \in DOMAIN line
  PROVE  /\ k \in Int /\ k >= 1 /\ (k > 1 => k - 1 \in DOMAIN line)
         /\ Reading[k] \in {"literal", "value", "separator", "option", "file"}
         /\ Reading[k] = "literal" <=> k > 1 /\ Reading[k - 1] \in {"separator", "literal"}
         /\ Reading[k] = "value" <=> k > 1 /\ Reading[k - 1] = "option" /\ line[k - 1] \in WithValue
         /\ Reading[k] = "separator" => line[k] = "--"
         /\ Reading[k] = "option" => line[k] # "--" /\ line[k] \in Options
         /\ Reading[k] = "file" => line[k] \notin Options
         /\ line[k] = "--" => Reading[k] # "option"
<1>1. Reading[k] = ReadAt(k, Reading[k - 1])
  BY ReadingLaw
<1>2. k \in Int /\ k >= 1 /\ (k > 1 => k - 1 \in DOMAIN line)
  OBVIOUS
<1>3. "--" \in Options
  BY DEF Options
<1> QED BY <1>1, <1>2, <1>3 DEF ReadAt

\* positional_arguments stops where the compiler does: up to the separator both
\* take the same values, and from there on everything is a file to both.
Separated(k) == \E s \in 1..(k - 1) : line[s] = "--" /\ s \notin Taken(WithValue)

LEMMA SeparatorsAgree ==
  ASSUME line \in Seq(Words), NEW k \in DOMAIN line
  PROVE  /\ Reading[k] = "literal" <=> Separated(k)
         /\ ~Separated(k) => (Reading[k] = "value" <=> k \in Taken(WithValue))
<1> DEFINE Agree(n) == /\ Reading[n] = "literal" <=> Separated(n)
                       /\ ~Separated(n) => (Reading[n] = "value" <=> n \in Taken(WithValue))
           T == {n \in Nat : n + 1 \in DOMAIN line => Agree(n + 1)}
<1>0. Len(line) \in Nat /\ DOMAIN line = 1..Len(line)
  OBVIOUS
<1>1. 0 \in T
  <2> SUFFICES ASSUME 1 \in DOMAIN line PROVE Agree(1)
    OBVIOUS
  <2>1. ~Separated(1)
    BY DEF Separated
  <2>2. Reading[1] \notin {"literal", "value"}
    BY ReadingFacts
  <2>3. 1 \in Taken(WithValue) <=>
          1 > 1 /\ line[1 - 1] \in WithValue /\ 1 - 1 \notin Taken(WithValue)
    BY TakenLaw
  <2> QED BY <2>1, <2>2, <2>3
<1>2. ASSUME NEW m \in T PROVE m + 1 \in T
  <2> DEFINE n == m + 1
  <2> SUFFICES ASSUME n + 1 \in DOMAIN line PROVE Agree(n + 1)
    OBVIOUS
  <2>1. m \in Nat /\ n \in DOMAIN line /\ n \in Nat /\ n >= 1 /\ (n + 1) - 1 = n /\ n + 1 > 1
    BY <1>0
  <2>2. Agree(n)
    BY <2>1
  <2> HIDE DEF n
  <2>3. Separated(n + 1) <=> Separated(n) \/ (line[n] = "--" /\ n \notin Taken(WithValue))
    BY <2>1 DEF Separated
  <2>4. n + 1 \in Taken(WithValue) <=> line[n] \in WithValue /\ n \notin Taken(WithValue)
    BY <2>1, TakenLaw
  <2>5. /\ Reading[n + 1] = "literal" <=> Reading[n] \in {"separator", "literal"}
        /\ Reading[n + 1] = "value" <=> Reading[n] = "option" /\ line[n] \in WithValue
    BY <2>1, ReadingFacts
  <2>6. /\ Reading[n] \in {"literal", "value", "separator", "option", "file"}
        /\ Reading[n] = "separator" => line[n] = "--"
        /\ Reading[n] = "file" => line[n] \notin Options
        /\ Reading[n] = "option" => line[n] # "--"
    BY <2>1, ReadingFacts
  <2>7. "--" \in Options /\ "--" \notin WithValue /\ WithValue \subseteq Options
    BY DEF Options, WithValue, DroppedWithValue
  <2> QED BY <2>2, <2>3, <2>4, <2>5, <2>6, <2>7
<1>3. T = Nat
  <2> HIDE DEF T
  <2>1. T \in SUBSET Nat
    BY DEF T
  <2> QED BY <1>1, <1>2, <2>1, NatSetInduction
<1>4. k - 1 \in Nat /\ (k - 1) + 1 = k
  BY <1>0
<1>5. k - 1 \in T
  BY <1>3, <1>4
<1> QED BY <1>4, <1>5

\* What the compiler takes for a file is positional to the launcher.
LEMMA FilesArePositional ==
  ASSUME line \in Seq(Words), NEW k \in DOMAIN line, Reading[k] \in {"file", "literal"}
  PROVE  k \in Positional
<1>1. Separated(k) \/ k \notin Taken(WithValue)
  BY SeparatorsAgree
<1>2. Reading[k] = "file" => line[k] \notin Options
  BY ReadingFacts
<1>3. Reading[k] = "literal" => Separated(k)
  BY SeparatorsAgree
<1> QED BY <1>1, <1>2, <1>3 DEF Positional, Separated

LEMMA GreatestElement ==
  ASSUME NEW N \in Nat, NEW S \in SUBSET (1..N), S # {}
  PROVE  \E m \in S : \A j \in S : j <= m
<1> DEFINE R == {n \in Nat : N - n \in S}
<1>1. R # {}
  <2>1. PICK s \in S : TRUE
    OBVIOUS
  <2>2. N - s \in Nat /\ N - (N - s) = s
    BY <2>1
  <2> QED BY <2>1, <2>2
<1>2. PICK n \in R : \A i \in R : n <= i
  <2>1. R \in SUBSET Nat
    OBVIOUS
  <2> HIDE DEF R
  <2> QED BY <1>1, <2>1, LeastElement
<1>3. N - n \in S
  OBVIOUS
<1>4. ASSUME NEW j \in S PROVE j <= N - n
  <2>1. j \in 1..N /\ N - j \in Nat /\ N - (N - j) = j
    OBVIOUS
  <2>2. n <= N - j
    BY <1>2, <2>1
  <2> QED BY <2>1, <2>2
<1> QED BY <1>3, <1>4

\* A file that the compiler takes for C or C++ is one to the launcher too, unless
\* a -x that the compiler does not heed overrules its language.  The launcher
\* finds the language the compiler compiles it in; if the launcher's last language
\* is a later one, it is one that says so.
LEMMA CompiledAreCandidates ==
  ASSUME line \in Seq(Words), NEW k \in DOMAIN line, CompiledAs(k),
         line[k] = "other" => ~Overruled(k)
  PROVE  k \in Candidates
<1>0. Len(line) \in Nat /\ DOMAIN line = 1..Len(line)
  OBVIOUS
<1>1. k \in Positional
  BY FilesArePositional DEF CompiledAs
<1>2. CASE line[k] = "source"
  BY <1>1, <1>2 DEF Candidates
<1>3. CASE line[k] = "other"
  <2> DEFINE values == Taken({"-x"})
             languages == values \cup {i \in DOMAIN line : line[i] = "-xc++"}
  <2>1. PICK j \in Languages(k) : /\ \A i \in Languages(k) : i <= j
                                  /\ Reading[j] = "value" => line[j] = "c++"
    BY <1>3 DEF CompiledAs
  <2>2. j \in DOMAIN line
    BY <1>0 DEF Languages
  <2>3. \A i \in DOMAIN line :
          line[i] = "-x" /\ i + 1 \in DOMAIN line /\ line[i + 1] # "c++" =>
            i <= k /\ Reading[i] = "option"
    <3> SUFFICES ASSUME NEW i \in DOMAIN line, line[i] = "-x", i + 1 \in DOMAIN line,
                        line[i + 1] # "c++"
                 PROVE  i <= k /\ Reading[i] = "option"
      OBVIOUS
    <3>1. i \in 1..(Len(line) - 1)
      BY <1>0
    <3>2. ~(i > k \/ Reading[i] # "option")
      BY <1>3, <3>1 DEF Overruled
    <3> QED BY <1>0, <3>2
  <2>4. j \in languages
    <3>1. CASE Reading[j] = "option" /\ line[j] = "-xc++"
      BY <2>2, <3>1
    <3>2. CASE Reading[j] = "value" /\ line[j - 1] = "-x"
      <4>1. j > 1 /\ j - 1 \in DOMAIN line /\ Reading[j - 1] = "option"
        BY <2>2, <3>2, ReadingFacts
      <4>2. ASSUME j - 1 \in values PROVE FALSE
        <5> DEFINE i == (j - 1) - 1
        <5>1. j - 1 > 1 /\ line[i] = "-x"
          BY <4>1, <4>2, TakenLaw
        <5>2. i \in DOMAIN line /\ i + 1 = j - 1
          BY <1>0, <4>1, <5>1
        <5>3. Reading[i] = "option"
          BY <2>3, <3>2, <4>1, <5>1, <5>2
        <5>4. "-x" \in WithValue
          BY DEF WithValue
        <5>5. Reading[j - 1] = "value"
          BY <4>1, <5>1, <5>3, <5>4, ReadingFacts
        <5> QED BY <4>1, <5>5
      <4>3. j \in values <=> j > 1 /\ line[j - 1] \in {"-x"} /\ j - 1 \notin values
        BY <2>2, TakenLaw
      <4> QED BY <3>2, <4>1, <4>2, <4>3
    <3> QED BY <2>1, <3>1, <3>2 DEF Languages
  <2>5. languages \in SUBSET (1..Len(line))
    BY <1>0 DEF Taken
  <2>6. PICK m \in languages : \A i \in languages : i <= m
    <3> HIDE DEF languages
    <3> QED BY <1>0, <2>4, <2>5, GreatestElement
  <2>7. ASSUME m \in values, line[m] # "c++" PROVE FALSE
    <3>1. m \in DOMAIN line /\ m > 1 /\ line[m - 1] = "-x" /\ m - 1 \in DOMAIN line
      <4>1. m \in DOMAIN line
        BY <1>0, <2>5
      <4>2. m \in values <=> m > 1 /\ line[m - 1] \in {"-x"} /\ m - 1 \notin values
        BY <4>1, TakenLaw
      <4> QED BY <1>0, <2>7, <4>1, <4>2
    <3>2. m - 1 <= k /\ Reading[m - 1] = "option"
      <4>1. (m - 1) + 1 = m
        BY <1>0, <3>1
      <4> QED BY <2>3, <2>7, <3>1, <4>1
    <3>3. Reading[m] = "value"
      <4>1. "-x" \in WithValue
        BY DEF WithValue
      <4> QED BY <3>1, <3>2, <4>1, ReadingFacts
    <3>4. m - 1 # k
      BY <3>2 DEF CompiledAs
    <3>5. m \in Languages(k)
      <4>1. m \in 1..k
        BY <1>0, <3>1, <3>2, <3>4
      <4> QED BY <3>1, <3>3, <4>1 DEF Languages
    <3>6. m = j
      <4>1. m <= j /\ j <= m
        BY <2>1, <2>4, <2>6, <3>5
      <4> QED BY <1>0, <2>2, <3>1, <4>1
    <3> QED BY <2>1, <2>7, <3>3, <3>6
  <2>8. LanguageSelectsSource
    BY <2>6, <2>7 DEF LanguageSelectsSource
  <2> QED BY <1>1, <1>3, <2>8 DEF Candidates
<1> QED BY <1>2, <1>3 DEF CompiledAs

\* Where no value of an option is named like an option, the loop over the output
\* options passes over what the compiler takes for their values.
LEMMA ValuesAgree ==
  ASSUME line \in Seq(Words), NEW k \in DOMAIN line,
         \A i \in DOMAIN line : line[i] \in Options => Reading[i] \in {"option", "separator"}
  PROVE  k \in Taken(DroppedWithValue) <=> Reading[k] = "value" /\ line[k - 1] \in DroppedWithValue
<1>1. DroppedWithValue \subseteq Options \cap WithValue /\ "--" \notin DroppedWithValue
  BY DEF Options, WithValue, DroppedWithValue
<1>2. \A i \in DOMAIN line : line[i] \in DroppedWithValue => Reading[i] = "option"
  BY <1>1, ReadingFacts
<1>3. \A i \in DOMAIN line :
        i > 1 /\ line[i - 1] \in DroppedWithValue => i - 1 \in DOMAIN line /\ Reading[i] = "value"
  BY <1>1, <1>2, ReadingFacts
<1>4. \A i \in DOMAIN line :
        i \in Taken(DroppedWithValue) <=>
          i > 1 /\ line[i - 1] \in DroppedWithValue /\ i - 1 \notin Taken(DroppedWithValue)
  BY TakenLaw
<1>5. k > 1 /\ line[k - 1] \in DroppedWithValue => k - 1 \notin Taken(DroppedWithValue)
  BY <1>2, <1>3, <1>4
<1>6. Reading[k] = "value" => k > 1
  BY ReadingFacts
<1> QED BY <1>3, <1>4, <1>5, <1>6

\* So, if there is one candidate, what the analysis gets is what the property says.
LEMMA ArgumentsAgree ==
  ASSUME line \in Seq(Words), NEW c \in Candidates, \A j \in Candidates : j = c,
         \A i \in DOMAIN line : line[i] \in Options => Reading[i] \in {"option", "separator"}
  PROVE  ToolArguments(c) =
           {k \in DOMAIN line :
              ~(IF Reading[k] = "value" THEN line[k - 1] \in DroppedWithValue
                ELSE line[k] \in Dropped \cup DroppedWithValue \cup DroppedJoined)
              /\ k \notin Candidates}
<1>1. ASSUME NEW k \in DOMAIN line
      PROVE  k \notin Taken(DroppedWithValue) /\ line[k] \notin DroppedWithValue \cup Dropped \cup DroppedJoined
               <=> ~(IF Reading[k] = "value" THEN line[k - 1] \in DroppedWithValue
                     ELSE line[k] \in Dropped \cup DroppedWithValue \cup DroppedJoined)
  <2>1. k \in Taken(DroppedWithValue) <=> Reading[k] = "value" /\ line[k - 1] \in DroppedWithValue
    BY ValuesAgree
  <2>2. Reading[k] = "value" => line[k] \notin Options
    OBVIOUS
  <2>3. Dropped \cup DroppedWithValue \cup DroppedJoined \subseteq Options
    BY DEF Options, WithValue
  <2> QED BY <2>1, <2>2, <2>3
<1>2. \A k \in DOMAIN line : k \notin Candidates <=> k # c
  OBVIOUS
<1> QED BY <1>1, <1>2 DEF ToolArguments

-----------------------------------------------------------------------------
\* The compiler runs only after the analysis, if there is anything to analyse,
\* and the analysis is given the arguments of the one source.
LauncherInv ==
  /\ line \in Seq(Words)
  /\ compiled /\ ~disabled => analysed = "passed" \/ (~Unsupported /\ Candidates = {})
  /\ analysed # "not" => /\ ~Unsupported /\ Candidates # {}
                         /\ analysis = ToolArguments(CHOOSE k \in Candidates : TRUE)

LEMMA LauncherStarts == InitLauncher => LauncherInv
<1> SUFFICES ASSUME InitLauncher PROVE LauncherInv
  OBVIOUS
<1>1. line \in Seq(Words)
  BY LauncherAssumption DEF InitLauncher, LauncherAssumption
<1> QED BY <1>1 DEF InitLauncher, LauncherInv

LEMMA LauncherStep == LauncherInv /\ [NextLauncher]_launcherVars => LauncherInv'
<1> SUFFICES ASSUME LauncherInv, [NextLauncher]_launcherVars PROVE LauncherInv'
  OBVIOUS
<1>1. line' = line
  BY DEF NextLauncher, PassThrough, RefuseLine, Analyse, Compile, launcherVars
<1>2. /\ Candidates' = Candidates /\ Unsupported' = Unsupported
      /\ \A k : ToolArguments(k)' = ToolArguments(k)
  BY <1>1 DEF Candidates, Unsupported, ToolArguments, LanguageSelectsSource, Positional, Taken
<1>3. CASE PassThrough
  BY <1>1, <1>2, <1>3 DEF PassThrough, RunCompiler, LauncherInv
<1>4. CASE RefuseLine
  BY <1>1, <1>2, <1>4 DEF RefuseLine, LauncherInv
<1>5. CASE Analyse
  BY <1>1, <1>2, <1>5 DEF Analyse, LauncherInv
<1>6. CASE Compile
  BY <1>1, <1>2, <1>6 DEF Compile, RunCompiler, LauncherInv
<1>7. CASE UNCHANGED launcherVars
  BY <1>1, <1>2, <1>7 DEF launcherVars, LauncherInv
<1> QED BY <1>3, <1>4, <1>5, <1>6, <1>7 DEF NextLauncher

LEMMA InvariantAnalyses == LauncherInv => AnalysedAsCompiled
<1> SUFFICES ASSUME LauncherInv PROVE AnalysedAsCompiled
  OBVIOUS
<1>1. line \in Seq(Words)
  BY DEF LauncherInv
<1>2. ASSUME NEW k \in DOMAIN line, CompiledAs(k), line[k] = "other" => ~Overruled(k),
             compiled, ~disabled
      PROVE  analysed = "passed"
  <2>1. k \in Candidates
    BY <1>1, <1>2, CompiledAreCandidates
  <2> QED BY <1>2, <2>1 DEF LauncherInv
<1>3. ASSUME analysed # "not",
             \A i \in DOMAIN line : line[i] \in Options => Reading[i] \in {"option", "separator"}
      PROVE  analysis = {k \in DOMAIN line :
               ~(IF Reading[k] = "value" THEN line[k - 1] \in DroppedWithValue
                 ELSE line[k] \in Dropped \cup DroppedWithValue \cup DroppedJoined)
               /\ k \notin Candidates}
  <2> DEFINE c == CHOOSE k \in Candidates : TRUE
  <2>1. c \in Candidates /\ analysis = ToolArguments(c) /\ ~Unsupported
    BY <1>3 DEF LauncherInv
  <2> HIDE DEF c
  <2>2. \A j \in Candidates : j = c
    BY <2>1 DEF Unsupported
  <2> QED BY <1>1, <1>3, <2>1, <2>2, ArgumentsAgree
<1> QED BY <1>2, <1>3 DEF AnalysedAsCompiled

\* returnguard_compiler_launcher.py: on any command line, of any length, what the
\* compiler compiles was analysed and passed, and the analysis got every argument
\* but the outputs and the source.
THEOREM NothingCompiledUnanalysed == LauncherSpec => []AnalysedAsCompiled
<1>1. LauncherSpec => []LauncherInv
  BY LauncherStarts, LauncherStep, PTL DEF LauncherSpec
<1> QED BY <1>1, InvariantAnalyses, PTL

-----------------------------------------------------------------------------
\* The contract policy: sequences joined.

LEMMA SequenceOf == ASSUME NEW S, NEW s \in Seq(S) PROVE IsSequence(s)
<1> DEFINE R == {s[k] : k \in DOMAIN s}
<1>1. s \in [1..Len(s) -> R] /\ Len(s) \in Nat
  OBVIOUS
<1>2. s \in Seq(R)
  <2> HIDE DEF R
  <2> QED BY <1>1
<1> QED BY <1>2 DEF IsSequence

LEMMA Indices == ASSUME NEW s, IsSequence(s) PROVE Len(s) \in Nat /\ DOMAIN s = 1..Len(s)
<1> DEFINE R == {s[k] : k \in DOMAIN s}
<1>1. s \in Seq(R)
  BY DEF IsSequence
<1> HIDE DEF R
<1> QED BY <1>1

LEMMA Concatenation ==
  ASSUME NEW a, NEW b, IsSequence(a), IsSequence(b)
  PROVE  /\ IsSequence(a \o b)
         /\ \A k \in DOMAIN (a \o b) : \/ \E i \in DOMAIN a : (a \o b)[k] = a[i]
                                       \/ \E i \in DOMAIN b : (a \o b)[k] = b[i]
<1> DEFINE A == {a[k] : k \in DOMAIN a}
           B == {b[k] : k \in DOMAIN b}
           R == A \cup B
<1>1. a \in Seq(A) /\ b \in Seq(B)
  BY DEF IsSequence
<1>2. a \in Seq(R) /\ b \in Seq(R)
  <2>1. A \subseteq R /\ B \subseteq R
    OBVIOUS
  <2> HIDE DEF A, B, R
  <2> QED BY <1>1, <2>1
<1>3. a \o b \in Seq(R)
  <2> HIDE DEF R
  <2> QED BY <1>2
<1>4. IsSequence(a \o b)
  <2> HIDE DEF R
  <2> QED BY <1>3, SequenceOf
<1>5. ASSUME NEW k \in DOMAIN (a \o b) PROVE (a \o b)[k] \in R
  <2> HIDE DEF R
  <2> QED BY <1>3
<1> QED BY <1>4, <1>5

LEMMA JoinedLaw ==
  ASSUME NEW n \in Nat, NEW parts, DOMAIN parts = 1..n
  PROVE  /\ Joined(parts)[0] = <<>>
         /\ \A k \in 1..n : Joined(parts)[k] = Joined(parts)[k - 1] \o parts[k]
<1> DEFINE After(k, f) == IF k = 0 THEN <<>> ELSE f[k - 1] \o parts[k]
           Solves(m, f) == f = [k \in 0..m |-> After(k, f)]
           T == {m \in Nat : \E f : Solves(m, f)}
<1>1. 0 \in T
  <2>1. Solves(0, [k \in 0..0 |-> <<>>])
    OBVIOUS
  <2> QED BY <2>1
<1>2. ASSUME NEW m \in T PROVE m + 1 \in T
  <2>1. m \in Nat
    OBVIOUS
  <2>2. PICK f : Solves(m, f)
    OBVIOUS
  <2> DEFINE g == [k \in 0..(m + 1) |-> IF k = m + 1 THEN f[m] \o parts[m + 1] ELSE f[k]]
  <2>3. ASSUME NEW k \in 0..(m + 1) PROVE g[k] = After(k, g)
    <3>1. CASE k = m + 1
      <4>1. g[m] = f[m] /\ g[k] = f[m] \o parts[m + 1] /\ k # 0 /\ k - 1 = m
        BY <2>1, <3>1
      <4> HIDE DEF g
      <4> QED BY <3>1, <4>1
    <3>2. CASE k # m + 1
      <4>1. k \in 0..m /\ (k # 0 => k - 1 \in 0..m)
        BY <2>1, <3>2
      <4>2. g[k] = f[k] /\ (k # 0 => g[k - 1] = f[k - 1])
        BY <2>1, <4>1
      <4>3. f[k] = After(k, f)
        BY <2>2, <4>1
      <4> HIDE DEF g
      <4> QED BY <4>2, <4>3
    <3> QED BY <3>1, <3>2
  <2>4. Solves(m + 1, g)
    <3>1. g = [k \in 0..(m + 1) |-> g[k]]
      OBVIOUS
    <3> HIDE DEF g, After
    <3> QED BY <2>3, <3>1
  <2> HIDE DEF g, Solves
  <2> QED BY <2>1, <2>4
<1>3. T = Nat
  <2> HIDE DEF T
  <2>1. T \in SUBSET Nat
    BY DEF T
  <2> QED BY <1>1, <1>2, <2>1, NatSetInduction
<1>4. {0} \cup DOMAIN parts = 0..n
  OBVIOUS
<1>5. Joined(parts) = CHOOSE f : Solves(n, f)
  BY <1>4 DEF Joined
<1>6. Solves(n, Joined(parts))
  <2>1. \E f : Solves(n, f)
    BY <1>3
  <2> HIDE DEF Solves
  <2> QED BY <1>5, <2>1
<1> QED BY <1>6

\* What is joined is a sequence, and in it is only what is in a part.
LEMMA JoinedElements ==
  ASSUME NEW n \in Nat, NEW parts, DOMAIN parts = 1..n, \A k \in 1..n : IsSequence(parts[k])
  PROVE  \A k \in 0..n :
           /\ IsSequence(Joined(parts)[k])
           /\ \A i \in DOMAIN Joined(parts)[k] :
                \E j \in 1..n : \E h \in DOMAIN parts[j] : Joined(parts)[k][i] = parts[j][h]
<1> DEFINE P(k) == /\ IsSequence(Joined(parts)[k])
                   /\ \A i \in DOMAIN Joined(parts)[k] :
                        \E j \in 1..n : \E h \in DOMAIN parts[j] : Joined(parts)[k][i] = parts[j][h]
           T == {k \in Nat : k <= n => P(k)}
<1>1. 0 \in T
  <2>1. Joined(parts)[0] = <<>>
    BY JoinedLaw
  <2>2. IsSequence(<<>>) /\ DOMAIN <<>> = {}
    BY DEF IsSequence
  <2> QED BY <2>1, <2>2
<1>2. ASSUME NEW k \in T PROVE k + 1 \in T
  <2> SUFFICES ASSUME k + 1 <= n PROVE P(k + 1)
    OBVIOUS
  <2>1. k \in Nat /\ k <= n /\ k + 1 \in 1..n /\ (k + 1) - 1 = k
    OBVIOUS
  <2>2. P(k)
    BY <2>1
  <2> DEFINE a == Joined(parts)[k]
             b == parts[k + 1]
  <2>3. Joined(parts)[k + 1] = a \o b
    BY <2>1, JoinedLaw
  <2>4. IsSequence(a) /\ IsSequence(b)
    BY <2>1, <2>2
  <2>5. /\ IsSequence(a \o b)
        /\ \A i \in DOMAIN (a \o b) : \/ \E h \in DOMAIN a : (a \o b)[i] = a[h]
                                      \/ \E h \in DOMAIN b : (a \o b)[i] = b[h]
    <3> HIDE DEF a, b, T, P
    <3>1. IsSequence(a \o b)
      BY ONLY <2>4, Concatenation
    <3>2. \A i \in DOMAIN (a \o b) : \/ \E h \in DOMAIN a : (a \o b)[i] = a[h]
                                     \/ \E h \in DOMAIN b : (a \o b)[i] = b[h]
      BY ONLY <2>4, Concatenation
    <3> QED BY <3>1, <3>2
  <2>6. \A h \in DOMAIN a : \E j \in 1..n : \E g \in DOMAIN parts[j] : a[h] = parts[j][g]
    BY <2>2
  <2>7. \A h \in DOMAIN b : \E j \in 1..n : \E g \in DOMAIN parts[j] : b[h] = parts[j][g]
    BY <2>1
  <2> HIDE DEF a, b
  <2> QED BY <2>3, <2>5, <2>6, <2>7
<1>3. T = Nat
  <2> HIDE DEF T
  <2>1. T \in SUBSET Nat
    BY DEF T
  <2> QED BY <1>1, <1>2, <2>1, NatSetInduction
<1> HIDE DEF P
<1>4. \A k \in 0..n : P(k)
  BY <1>3
<1> QED BY <1>4 DEF P

\* The texts of a kind are those of lines of that kind.
LEMMA TextsFacts ==
  ASSUME NEW lines, IsSequence(lines), NEW kind
  PROVE  /\ IsSequence(Texts(lines, kind))
         /\ \A i \in DOMAIN Texts(lines, kind) :
              \E k \in DOMAIN lines :
                /\ lines[k].kind = kind
                /\ Texts(lines, kind)[i] = [name |-> lines[k].name, predicate |-> lines[k].predicate]
<1> DEFINE text(k) == [name |-> lines[k].name, predicate |-> lines[k].predicate]
           part(k) == IF lines[k].kind # kind THEN <<>> ELSE <<text(k)>>
           parts == [k \in 1..Len(lines) |-> part(k)]
<1>1. Len(lines) \in Nat /\ DOMAIN lines = 1..Len(lines)
  BY Indices
<1>2. Texts(lines, kind) = Joined(parts)[Len(lines)]
  BY DEF Texts
<1>3. ASSUME NEW k \in 1..Len(lines)
      PROVE  /\ IsSequence(part(k))
             /\ \A h \in DOMAIN part(k) : lines[k].kind = kind /\ part(k)[h] = text(k)
  <2> HIDE DEF text
  <2>1. <<>> \in Seq({text(k)}) /\ <<text(k)>> \in Seq({text(k)})
    OBVIOUS
  <2>2. IsSequence(<<>>) /\ IsSequence(<<text(k)>>)
    BY <2>1, SequenceOf
  <2> QED BY <2>2
<1>4. DOMAIN parts = 1..Len(lines) /\ \A k \in 1..Len(lines) : parts[k] = part(k)
  OBVIOUS
<1> HIDE DEF parts, part, text
<1>5. /\ IsSequence(Joined(parts)[Len(lines)])
      /\ \A i \in DOMAIN Joined(parts)[Len(lines)] :
           \E j \in 1..Len(lines) : \E h \in DOMAIN parts[j] :
             Joined(parts)[Len(lines)][i] = parts[j][h]
  <2>1. Len(lines) \in 0..Len(lines)
    BY <1>1
  <2>2. \A k \in 1..Len(lines) : IsSequence(parts[k])
    BY <1>3, <1>4
  <2> QED BY <1>1, <1>4, <2>1, <2>2, JoinedElements
<1>6. \A i \in DOMAIN Texts(lines, kind) :
        \E k \in DOMAIN lines : lines[k].kind = kind /\ Texts(lines, kind)[i] = text(k)
  BY <1>1, <1>2, <1>3, <1>4, <1>5
<1> QED BY <1>2, <1>5, <1>6 DEF text

LEMMA InFilesLaw ==
  ASSUME NEW files, IsSequence(files), NEW kind
  PROVE  /\ InFiles(files, kind)[0] = <<>>
         /\ \A n \in Nat : n < Len(files) =>
              InFiles(files, kind)[n + 1] = InFiles(files, kind)[n] \o Texts(files[n + 1].lines, kind)
<1> DEFINE parts == [k \in 1..Len(files) |-> Texts(files[k].lines, kind)]
<1>1. Len(files) \in Nat
  BY Indices
<1>2. DOMAIN parts = 1..Len(files) /\ \A k \in 1..Len(files) : parts[k] = Texts(files[k].lines, kind)
  OBVIOUS
<1>3. InFiles(files, kind) = Joined(parts)
  BY DEF InFiles
<1> HIDE DEF parts
<1>4. /\ Joined(parts)[0] = <<>>
      /\ \A k \in 1..Len(files) : Joined(parts)[k] = Joined(parts)[k - 1] \o parts[k]
  BY <1>1, <1>2, JoinedLaw
<1>5. ASSUME NEW n \in Nat, n < Len(files)
      PROVE  Joined(parts)[n + 1] = Joined(parts)[n] \o parts[n + 1]
  <2>1. n + 1 \in 1..Len(files) /\ (n + 1) - 1 = n
    BY <1>1, <1>5
  <2> QED BY <1>4, <2>1
<1>6. \A n \in Nat : n < Len(files) => n + 1 \in 1..Len(files)
  BY <1>1
<1> QED BY <1>2, <1>3, <1>4, <1>5, <1>6

LEMMA InFilesSequences ==
  ASSUME NEW files, IsSequence(files), \A j \in DOMAIN files : IsSequence(files[j].lines), NEW kind
  PROVE  \A n \in 0..Len(files) : IsSequence(InFiles(files, kind)[n])
<1> DEFINE parts == [k \in 1..Len(files) |-> Texts(files[k].lines, kind)]
<1>1. Len(files) \in Nat /\ DOMAIN files = 1..Len(files)
  BY Indices
<1>2. DOMAIN parts = 1..Len(files) /\ \A k \in 1..Len(files) : parts[k] = Texts(files[k].lines, kind)
  OBVIOUS
<1>3. InFiles(files, kind) = Joined(parts)
  BY DEF InFiles
<1> HIDE DEF parts
<1>4. \A k \in 1..Len(files) : IsSequence(parts[k])
  BY <1>1, <1>2, TextsFacts
<1> QED BY <1>1, <1>2, <1>3, <1>4, JoinedElements

-----------------------------------------------------------------------------
\* What is collected so far is what is written in the files read so far; the
\* texts of the function configurations are checked as they are read.
Valid(texts) == \A k \in DOMAIN texts : ValidContract(texts[k])

ConfigInv ==
  /\ policy \in Policies /\ disk \in Disks
  /\ phase \in {"database", "function configurations", "contract files", "set"}
  /\ phase # "database" => database = DiscoverDatabase
  /\ phase = "database" => read = 0 /\ fromConfig = <<>>
  /\ phase = "function configurations" =>
       /\ read \in 0..Len(policy.configs)
       /\ fromConfig = InFiles(policy.configs, "contract")[read] /\ Valid(fromConfig)
  /\ phase = "contract files" =>
       /\ read \in 0..Len(policy.files)
       /\ contracts = policy.options \o InFiles(policy.files, "contract")[read]
       /\ fromConfig = InFiles(policy.configs, "contract")[Len(policy.configs)] /\ Valid(fromConfig)
  /\ phase = "set" => contracts = Written /\ Valid(contracts)

LEMMA Associative ==
  ASSUME NEW a, NEW b, NEW c, IsSequence(a), IsSequence(b), IsSequence(c)
  PROVE  (a \o b) \o c = a \o (b \o c)
<1> DEFINE A == {a[k] : k \in DOMAIN a}
           B == {b[k] : k \in DOMAIN b}
           C == {c[k] : k \in DOMAIN c}
           R == A \cup B \cup C
<1>1. a \in Seq(A) /\ b \in Seq(B) /\ c \in Seq(C)
  BY DEF IsSequence
<1>2. A \subseteq R /\ B \subseteq R /\ C \subseteq R
  OBVIOUS
<1> HIDE DEF A, B, C, R
<1>3. a \in Seq(R) /\ b \in Seq(R) /\ c \in Seq(R)
  BY <1>1, <1>2
<1> QED BY <1>3, ConcatAssociative

\* A sequence of valid texts after another.
LEMMA ValidConcatenation ==
  ASSUME NEW a, NEW b, IsSequence(a), IsSequence(b), Valid(a), Valid(b)
  PROVE  Valid(a \o b)
<1>1. \A k \in DOMAIN (a \o b) : \/ \E i \in DOMAIN a : (a \o b)[k] = a[i]
                                 \/ \E i \in DOMAIN b : (a \o b)[k] = b[i]
  BY ONLY IsSequence(a), IsSequence(b), Concatenation
<1> QED BY <1>1 DEF Valid

LEMMA ConfigStarts == InitConfig => ConfigInv
<1> SUFFICES ASSUME InitConfig PROVE ConfigInv
  OBVIOUS
<1> QED BY DEF InitConfig, ConfigInv

LEMMA ConfigStep == ConfigInv /\ [NextConfig]_configVars => ConfigInv'
<1> SUFFICES ASSUME ConfigInv, [NextConfig]_configVars PROVE ConfigInv'
  OBVIOUS
<1>1. policy' = policy /\ disk' = disk
  BY DEF NextConfig, Discover, ReadFunctionConfig, TakeOptions, ReadContractFile, SetOptions,
         Stop, configVars
<1>2. /\ DiscoverDatabase' = DiscoverDatabase /\ Written' = Written
      /\ policy \in Policies /\ disk \in Disks
  <2>1. /\ HasExplicitDatabase' = HasExplicitDatabase /\ SourceFiles' = SourceFiles
        /\ Steps' = Steps
    BY <1>1 DEF HasExplicitDatabase, SourceFiles, Steps
  <2>2. Starts' = Starts /\ \A k : StartOf(k)' = StartOf(k)
    BY <1>1, <2>1 DEF Starts, StartOf
  <2>3. /\ \A d, n : Upward(d, n)' = Upward(d, n)
        /\ \A d : InRoot(d)' = InRoot(d) /\ Covers(d)' = Covers(d)
    BY <1>1, <2>1 DEF Upward, InRoot, Covers
  <2>4. \A k, n : InRoot(Upward(StartOf(k), n))' = InRoot(Upward(StartOf(k), n))
    BY <1>1, <2>2 DEF Upward, InRoot
  <2>5. DatabaseCandidates' = DatabaseCandidates
    BY <2>1, <2>2, <2>4 DEF DatabaseCandidates
  <2>6. \A a : DatabaseAt(a)' = DatabaseAt(a)
    BY <2>4 DEF DatabaseAt
  <2>7. \A a : Covers(DatabaseAt(a))' = Covers(DatabaseAt(a))
    BY <1>1, <2>1, <2>6 DEF Covers
  <2>8. DiscoverDatabase' = DiscoverDatabase
    BY <2>1, <2>5, <2>6, <2>7 DEF DiscoverDatabase
  <2> QED BY <1>1, <2>8 DEF Written, ConfigInv
<1>3. /\ IsSequence(policy.options) /\ IsSequence(policy.files) /\ IsSequence(policy.configs)
      /\ \A k \in DOMAIN policy.files : IsSequence(policy.files[k].lines)
      /\ \A k \in DOMAIN policy.configs : IsSequence(policy.configs[k].lines)
  BY <1>2, PolicyAssumption DEF PolicyAssumption
<1>4. /\ Len(policy.files) \in Nat /\ DOMAIN policy.files = 1..Len(policy.files)
      /\ Len(policy.configs) \in Nat /\ DOMAIN policy.configs = 1..Len(policy.configs)
  BY <1>3, Indices
<1>5. CASE Discover
  <2>1. /\ phase = "database" /\ phase' = "function configurations" /\ read' = 0
        /\ database' = DiscoverDatabase /\ fromConfig' = <<>>
    BY <1>5 DEF Discover, ConfigInv
  <2>2. InFiles(policy.configs, "contract")[0] = <<>>
    BY <1>3, InFilesLaw
  <2>3. Valid(<<>>)
    BY DEF Valid
  <2>4. read' \in 0..Len(policy.configs) /\ fromConfig' = InFiles(policy.configs, "contract")[read']
        /\ Valid(fromConfig')
    <3> DEFINE N == Len(policy.configs)
    <3>1. N \in Nat
      BY <1>4
    <3> HIDE DEF N
    <3>2. read' = 0
      BY <2>1
    <3>3. read' \in 0..N
      BY ONLY <3>1, <3>2
    <3> QED BY <2>1, <2>2, <2>3, <3>3 DEF N
  <2> QED BY <1>1, <1>2, <2>1, <2>4 DEF ConfigInv
<1>6. CASE ReadFunctionConfig
  <2> DEFINE file == policy.configs[read + 1]
             texts == Texts(file.lines, "contract")
             good == file.readable /\ \A k \in DOMAIN file.lines : ValidLine(file.lines[k])
  <2>1. CASE ~good
    BY <1>1, <1>2, <1>6, <2>1 DEF ReadFunctionConfig, Stop, ConfigInv
  <2>2. CASE good
    <3>1. /\ phase = "function configurations" /\ read < Len(policy.configs)
          /\ read' = read + 1 /\ fromConfig' = fromConfig \o texts
          /\ UNCHANGED <<database, phase, contracts>>
      BY <1>6, <2>2 DEF ReadFunctionConfig
    <3>2. /\ read \in Nat /\ read + 1 \in DOMAIN policy.configs
          /\ read + 1 \in 0..Len(policy.configs) /\ read \in 0..Len(policy.configs)
          /\ fromConfig = InFiles(policy.configs, "contract")[read] /\ Valid(fromConfig)
      <4>1. read \in 0..Len(policy.configs) /\ fromConfig = InFiles(policy.configs, "contract")[read] /\ Valid(fromConfig)
        BY <3>1 DEF ConfigInv
      <4> DEFINE N == Len(policy.configs)
      <4>2. /\ N \in Nat /\ read \in 0..N /\ read < N /\ DOMAIN policy.configs = 1..N
        BY <1>4, <3>1, <4>1
      <4> HIDE DEF N
      <4>3. /\ read \in Nat /\ read + 1 \in DOMAIN policy.configs
            /\ read + 1 \in 0..N /\ read \in 0..N
        BY <4>2
      <4> QED BY <4>1, <4>3 DEF N
    <3>3. IsSequence(file.lines)
      BY <1>3, <3>2
    <3>4. IsSequence(texts) /\ Valid(texts)
      <4>1. /\ IsSequence(texts)
            /\ \A i \in DOMAIN texts :
                 \E k \in DOMAIN file.lines :
                   /\ file.lines[k].kind = "contract"
                   /\ texts[i] = [name |-> file.lines[k].name, predicate |-> file.lines[k].predicate]
        BY <3>3, TextsFacts
      <4>2. \A k \in DOMAIN file.lines :
              file.lines[k].kind = "contract" =>
                ValidContract([name |-> file.lines[k].name, predicate |-> file.lines[k].predicate])
        BY <2>2 DEF ValidLine, ValidContract
      <4> HIDE DEF texts
      <4> QED BY <4>1, <4>2 DEF Valid
    <3>5. fromConfig \o texts = InFiles(policy.configs, "contract")[read + 1]
      BY <1>3, <3>1, <3>2, InFilesLaw
    <3>6. IsSequence(fromConfig)
      BY <1>3, <3>2, InFilesSequences
    <3> HIDE DEF texts
    <3>7. Valid(fromConfig \o texts)
      BY <3>2, <3>4, <3>6, ValidConcatenation
    <3> QED BY <1>1, <1>2, <3>1, <3>2, <3>5, <3>7 DEF ConfigInv
  <2> QED BY <2>1, <2>2
<1>7. CASE TakeOptions
  <2>1. /\ phase = "function configurations" /\ read = Len(policy.configs)
        /\ phase' = "contract files" /\ read' = 0 /\ contracts' = policy.options
        /\ UNCHANGED <<database, fromConfig>>
    BY <1>7 DEF TakeOptions
  <2>2. InFiles(policy.files, "contract")[0] = <<>>
    BY <1>3, InFilesLaw
  <2>3. policy.options \o <<>> = policy.options
    <3> DEFINE R == {policy.options[k] : k \in DOMAIN policy.options}
    <3>1. policy.options \in Seq(R)
      BY <1>3 DEF IsSequence
    <3> HIDE DEF R
    <3> QED BY <3>1
  <2>4. /\ read' \in 0..Len(policy.files)
        /\ contracts' = policy.options \o InFiles(policy.files, "contract")[read']
    <3> DEFINE N == Len(policy.files)
    <3>1. N \in Nat
      BY <1>4
    <3> HIDE DEF N
    <3>2. read' = 0
      BY <2>1
    <3>3. read' \in 0..N
      BY ONLY <3>1, <3>2
    <3> QED BY <2>1, <2>2, <2>3, <3>3 DEF N
  <2>5. fromConfig' = InFiles(policy.configs, "contract")[Len(policy.configs)] /\ Valid(fromConfig')
    BY <2>1 DEF ConfigInv
  <2> QED BY <1>1, <1>2, <2>1, <2>4, <2>5 DEF ConfigInv
<1>8. CASE ReadContractFile
  <2> DEFINE file == policy.files[read + 1]
             texts == Texts(file.lines, "contract")
             good == file.readable /\ \A k \in DOMAIN texts : ValidContract(texts[k])
  <2>1. CASE ~good
    BY <1>1, <1>2, <1>8, <2>1 DEF ReadContractFile, Stop, ConfigInv
  <2>2. CASE good
    <3>1. /\ phase = "contract files" /\ read < Len(policy.files)
          /\ read' = read + 1 /\ contracts' = contracts \o texts
          /\ UNCHANGED <<database, phase, fromConfig>>
      BY <1>8, <2>2 DEF ReadContractFile
    <3>2. /\ read \in Nat /\ read + 1 \in DOMAIN policy.files
          /\ read + 1 \in 0..Len(policy.files) /\ read \in 0..Len(policy.files)
          /\ contracts = policy.options \o InFiles(policy.files, "contract")[read]
      <4>1. read \in 0..Len(policy.files) /\ contracts = policy.options \o InFiles(policy.files, "contract")[read]
        BY <3>1 DEF ConfigInv
      <4> DEFINE N == Len(policy.files)
      <4>2. /\ N \in Nat /\ read \in 0..N /\ read < N /\ DOMAIN policy.files = 1..N
        BY <1>4, <3>1, <4>1
      <4> HIDE DEF N
      <4>3. /\ read \in Nat /\ read + 1 \in DOMAIN policy.files
            /\ read + 1 \in 0..N /\ read \in 0..N
        BY <4>2
      <4> QED BY <4>1, <4>3 DEF N
    <3> DEFINE before == InFiles(policy.files, "contract")[read]
    <3>3. before \o texts = InFiles(policy.files, "contract")[read + 1]
      BY <1>3, <3>1, <3>2, InFilesLaw
    <3>4. IsSequence(before) /\ IsSequence(texts)
      BY <1>3, <3>2, InFilesSequences, TextsFacts
    <3> HIDE DEF before, texts
    <3>5. (policy.options \o before) \o texts = policy.options \o (before \o texts)
      <4> DEFINE o == policy.options
      <4>1. IsSequence(o)
        BY <1>3
      <4> HIDE DEF o
      <4>2. (o \o before) \o texts = o \o (before \o texts)
        BY ONLY <3>4, <4>1, Associative
      <4> QED BY <4>2 DEF o
    <3> QED BY <1>1, <1>2, <3>1, <3>2, <3>3, <3>5 DEF ConfigInv, before
  <2> QED BY <2>1, <2>2
<1>9. CASE SetOptions
  <2> DEFINE bad == (\E k \in DOMAIN contracts : ~ValidContract(contracts[k])) \/ policy.mode = "invalid"
  <2>1. CASE bad
    BY <1>1, <1>2, <1>9, <2>1 DEF SetOptions, Stop, ConfigInv
  <2>2. CASE ~bad
    <3>1. /\ phase = "contract files" /\ read = Len(policy.files) /\ phase' = "set"
          /\ contracts' = contracts \o fromConfig /\ UNCHANGED database
      BY <1>9, <2>2 DEF SetOptions
    <3>2. Valid(contracts)
      BY <2>2 DEF Valid
    <3>3. /\ contracts = policy.options \o InFiles(policy.files, "contract")[Len(policy.files)]
          /\ fromConfig = InFiles(policy.configs, "contract")[Len(policy.configs)] /\ Valid(fromConfig)
      BY <3>1 DEF ConfigInv
    <3>4. IsSequence(InFiles(policy.files, "contract")[Len(policy.files)]) /\ IsSequence(fromConfig)
      BY <1>3, <1>4, <3>3, InFilesSequences
    <3>5. IsSequence(contracts)
      BY <1>3, <3>3, <3>4, Concatenation
    <3>6. Valid(contracts \o fromConfig)
      BY <3>2, <3>3, <3>4, <3>5, ValidConcatenation
    <3>7. contracts \o fromConfig = Written
      BY <3>3 DEF Written
    <3> QED BY <1>1, <1>2, <3>1, <3>6, <3>7 DEF ConfigInv
  <2> QED BY <2>1, <2>2
<1>10. CASE UNCHANGED configVars
  BY <1>1, <1>2, <1>10 DEF configVars, ConfigInv
<1> QED BY <1>5, <1>6, <1>7, <1>8, <1>9, <1>10 DEF NextConfig

-----------------------------------------------------------------------------
\* A valid text is understood by one of the two lookups, and by that one only.
LEMMA Understood ==
  ASSUME NEW text, ValidContract(text)
  PROVE  /\ Len(text.predicate) = 2 =>
              /\ ParseByteCount(text.predicate) = text.predicate[2]
              /\ ParseByteCount(text.predicate) # -1
              /\ ParsePredicate(text.predicate) = "none"
         /\ Len(text.predicate) # 2 =>
              /\ ParseByteCount(text.predicate) = -1
              /\ ParsePredicate(text.predicate) # "none"
              /\ ParsePredicate(text.predicate) =
                   (IF text.predicate = <<"non-zero">> THEN "nonzero" ELSE text.predicate[1])
<1> DEFINE p == text.predicate
<1>1. \/ p \in {<<"null">>, <<"negative">>, <<"nonzero">>, <<"non-zero">>}
      \/ Len(p) = 2 /\ p[1] \in CountPrefixes /\ p[2] >= 0
  BY DEF ValidContract
<1> HIDE DEF p
<1>2. CASE p \in {<<"null">>, <<"negative">>, <<"nonzero">>, <<"non-zero">>}
  <2>1. Len(p) = 1 /\ Len(p) # 2
    BY <1>2
  <2>2. ParseByteCount(p) = -1
    BY <2>1 DEF ParseByteCount
  <2>3. /\ ParsePredicate(p) # "none"
        /\ ParsePredicate(p) = (IF p = <<"non-zero">> THEN "nonzero" ELSE p[1])
    BY <1>2 DEF ParsePredicate
  <2> QED BY <2>1, <2>2, <2>3 DEF p
<1>3. CASE Len(p) = 2 /\ p[1] \in CountPrefixes /\ p[2] >= 0
  <2>1. p \notin {<<"null">>, <<"negative">>, <<"nonzero">>, <<"non-zero">>}
    BY <1>3
  <2>2. ParsePredicate(p) = "none"
    BY <2>1 DEF ParsePredicate
  <2>3. ParseByteCount(p) = p[2] /\ p[2] # -1
    BY <1>3 DEF ParseByteCount
  <2> QED BY <1>3, <2>2, <2>3 DEF p
<1> QED BY <1>1, <1>2, <1>3

\* The lookup finds the first text that names f, if it is among those it looks at.
LEMMA FirstFound ==
  ASSUME NEW f, NEW N \in Nat, NEW telling \in SUBSET (1..N), NEW k \in telling,
         ContractNameMatches(f, contracts[k].name),
         \A j \in 1..(k - 1) : ~(j \in telling /\ ContractNameMatches(f, contracts[j].name))
  PROVE  FirstNaming(f, telling) = contracts[k].predicate
<1> DEFINE naming == {i \in telling : ContractNameMatches(f, contracts[i].name)}
           least == CHOOSE i \in naming : \A j \in naming : i <= j
<1>1. k \in naming /\ naming \subseteq 1..N
  OBVIOUS
<1>2. ASSUME NEW j \in naming PROVE k <= j
  <2>1. j \in telling /\ ContractNameMatches(f, contracts[j].name) /\ j \in 1..N /\ k \in 1..N
    OBVIOUS
  <2> HIDE DEF naming
  <2>2. j \notin 1..(k - 1)
    BY <2>1
  <2> QED BY <2>1, <2>2
<1> HIDE DEF naming
<1>3. least \in naming /\ \A j \in naming : least <= j
  BY <1>1, <1>2
<1> HIDE DEF least
<1>4. least <= k /\ k <= least /\ least \in 1..N /\ k \in 1..N
  BY <1>1, <1>2, <1>3
<1>5. least = k
  BY ONLY <1>4
<1>6. FirstNaming(f, telling) = contracts[least].predicate
  <2>1. naming # {}
    BY <1>1
  <2> QED BY <2>1 DEF FirstNaming, naming, least
<1> QED BY <1>5, <1>6

LEMMA InvariantHears == ConfigInv => PolicyHeard
<1> SUFFICES ASSUME ConfigInv, phase = "set", NEW k \in DOMAIN Written, NEW f \in Declared
             PROVE  LET text == Written[k]
                        counts == Len(text.predicate) = 2
                        precedes(j) == /\ ContractNameMatches(f, Written[j].name)
                                       /\ (Len(Written[j].predicate) = 2) = counts
                        first == ContractNameMatches(f, text.name) /\ \A j \in 1..(k - 1) : ~precedes(j)
                    IN first =>
                         IF counts
                         THEN /\ ByteCountParameterIndex(f) = text.predicate[2]
                              /\ FailureContract(f) # "none"
                         ELSE f.annotations = <<>> =>
                                FailureContract(f) =
                                  (IF text.predicate = <<"non-zero">> THEN "nonzero"
                                   ELSE text.predicate[1])
  BY DEF PolicyHeard
<1> DEFINE text == Written[k]
           counts == Len(text.predicate) = 2
           precedes(j) == /\ ContractNameMatches(f, Written[j].name)
                          /\ (Len(Written[j].predicate) = 2) = counts
           first == ContractNameMatches(f, text.name) /\ \A j \in 1..(k - 1) : ~precedes(j)
<1>1. contracts = Written /\ Valid(contracts)
  BY DEF ConfigInv
<1>2. IsSequence(contracts)
  <2>1. /\ IsSequence(policy.options) /\ IsSequence(policy.files) /\ IsSequence(policy.configs)
        /\ \A j \in DOMAIN policy.files : IsSequence(policy.files[j].lines)
        /\ \A j \in DOMAIN policy.configs : IsSequence(policy.configs[j].lines)
    BY PolicyAssumption DEF PolicyAssumption, ConfigInv
  <2>2. Len(policy.files) \in Nat /\ Len(policy.configs) \in Nat
    BY <2>1, Indices
  <2>3. \A n \in Nat : n \in 0..n
    OBVIOUS
  <2> DEFINE A == policy.options
             B == InFiles(policy.files, "contract")[Len(policy.files)]
             C == InFiles(policy.configs, "contract")[Len(policy.configs)]
  <2>4. IsSequence(A) /\ IsSequence(B) /\ IsSequence(C)
    BY <2>1, <2>2, <2>3, InFilesSequences
  <2>5. Written = (A \o B) \o C
    BY DEF Written
  <2> HIDE DEF A, B, C
  <2>6. IsSequence(A \o B)
    BY ONLY <2>4, Concatenation
  <2>7. IsSequence((A \o B) \o C)
    BY ONLY <2>4, <2>6, Concatenation
  <2> QED BY <1>1, <2>5, <2>7
<1> DEFINE N == Len(contracts)
           failing == {j \in DOMAIN contracts : ParsePredicate(contracts[j].predicate) # "none"}
           counting == {j \in DOMAIN contracts : ParseByteCount(contracts[j].predicate) # -1}
<1>3. N \in Nat /\ DOMAIN contracts = 1..N
  BY <1>2, Indices
<1> HIDE DEF N
<1>4. ASSUME NEW j \in DOMAIN contracts
      PROVE  (j \in counting <=> Len(contracts[j].predicate) = 2) /\ (j \in failing <=> j \notin counting)
  <2>1. ValidContract(contracts[j])
    BY <1>1 DEF Valid
  <2> QED BY <2>1, Understood
<1>5. counting \in SUBSET (1..N) /\ failing \in SUBSET (1..N)
  BY <1>3
<1>6. k \in DOMAIN contracts /\ text = contracts[k] /\ ValidContract(text)
  BY <1>1 DEF Valid
<1>7. \A j \in 1..(k - 1) : j \in DOMAIN contracts
  BY <1>3, <1>6
<1> HIDE DEF counting, failing
<1>8. ASSUME first, counts
      PROVE  ByteCountParameterIndex(f) = text.predicate[2] /\ FailureContract(f) # "none"
  <2>1. k \in counting
    BY <1>4, <1>6, <1>8
  <2>2. \A j \in 1..(k - 1) : ~(j \in counting /\ ContractNameMatches(f, contracts[j].name))
    BY <1>1, <1>4, <1>7, <1>8
  <2>3. FirstNaming(f, counting) = text.predicate
    BY <1>3, <1>5, <1>6, <1>8, <2>1, <2>2, FirstFound
  <2>4. ConfiguredByteCount(f) = text.predicate[2] /\ ConfiguredByteCount(f) # -1
    <3>1. ConfiguredByteCount(f) = ParseByteCount(text.predicate)
      BY <2>3 DEF ConfiguredByteCount, counting
    <3> QED BY <1>6, <1>8, <3>1, Understood
  <2>5. ByteCountParameterIndex(f) = text.predicate[2] /\ ByteCountParameterIndex(f) # -1
    BY <2>4 DEF ByteCountParameterIndex
  <2> QED BY <2>5 DEF FailureContract
<1>9. ASSUME first, ~counts, f.annotations = <<>>
      PROVE  FailureContract(f) =
               (IF text.predicate = <<"non-zero">> THEN "nonzero" ELSE text.predicate[1])
  <2>1. k \in failing
    BY <1>4, <1>6, <1>9
  <2>2. \A j \in 1..(k - 1) : ~(j \in failing /\ ContractNameMatches(f, contracts[j].name))
    BY <1>1, <1>4, <1>7, <1>9
  <2>3. FirstNaming(f, failing) = text.predicate
    <3>1. ContractNameMatches(f, contracts[k].name)
      BY <1>6, <1>9
    <3>2. FirstNaming(f, failing) = contracts[k].predicate
      BY ONLY <1>3, <1>5, <2>1, <2>2, <3>1, FirstFound
    <3> QED BY <1>6, <3>2
  <2>4. ConfiguredContract(f) = ParsePredicate(text.predicate)
    BY <2>3 DEF ConfiguredContract, failing
  <2>5. AnnotationContract(f) = "none"
    BY <1>9 DEF AnnotationContract
  <2>6. FailureContract(f) = ParsePredicate(text.predicate)
    BY <1>6, <1>9, <2>4, <2>5, Understood DEF FailureContract
  <2> QED BY <1>6, <1>9, <2>6, Understood
<1> HIDE DEF counts, first
<1>10. first => IF counts
               THEN ByteCountParameterIndex(f) = text.predicate[2] /\ FailureContract(f) # "none"
               ELSE f.annotations = <<>> =>
                      FailureContract(f) =
                        (IF text.predicate = <<"non-zero">> THEN "nonzero" ELSE text.predicate[1])
  BY <1>8, <1>9
<1> QED BY <1>10 DEF counts, first

\* main, ContractPolicy.cpp: for any options and files, what a user wrote about a
\* function is what the analysis goes by.  A text is accepted only if one of the
\* two lookups understands it, and the first to name a function is found first.
THEOREM NoPolicyIsLost == ConfigSpec => []PolicyHeard
<1>1. ConfigSpec => []ConfigInv
  BY ConfigStarts, ConfigStep, PTL DEF ConfigSpec
<1> QED BY <1>1, InvariantHears, PTL

-----------------------------------------------------------------------------
\* The search for a database.

LEMMA FirstOfAll ==
  ASSUME NEW C \in SUBSET (Nat \X Nat \X Nat), C # {}
  PROVE  \E b \in C : \A c \in C : NotAfter(b, c)
<1>0. \A a \in C : a[1] \in Nat /\ a[2] \in Nat /\ a[3] \in Nat
  OBVIOUS
<1> DEFINE X == {a[1] : a \in C}
<1>1. PICK x \in X : \A y \in X : x <= y
  <2>1. X \in SUBSET Nat /\ X # {}
    BY <1>0
  <2> HIDE DEF X
  <2> QED BY <2>1, LeastElement
<1> DEFINE D == {a \in C : a[1] = x}
           Y == {a[2] : a \in D}
<1>2. PICK y \in Y : \A z \in Y : y <= z
  <2>1. Y \in SUBSET Nat /\ Y # {}
    BY <1>0, <1>1
  <2> HIDE DEF Y
  <2> QED BY <2>1, LeastElement
<1> DEFINE E == {a \in D : a[2] = y}
           Z == {a[3] : a \in E}
<1>3. PICK z \in Z : \A w \in Z : z <= w
  <2>1. Z \in SUBSET Nat /\ Z # {}
    BY <1>0, <1>2
  <2> HIDE DEF Z
  <2> QED BY <2>1, LeastElement
<1>4. PICK b \in E : b[3] = z
  OBVIOUS
<1>5. b \in C /\ b[1] = x /\ b[2] = y /\ b[3] = z
  BY <1>4
<1>6. ASSUME NEW c \in C PROVE NotAfter(b, c)
  <2>1. /\ b[1] \in Nat /\ b[2] \in Nat /\ b[3] \in Nat
        /\ c[1] \in Nat /\ c[2] \in Nat /\ c[3] \in Nat
    BY <1>0, <1>5
  <2>2. b[1] <= c[1]
    BY <1>1, <1>5
  <2>3. c[1] = b[1] => b[2] <= c[2]
    BY <1>2, <1>5
  <2>4. c[1] = b[1] /\ c[2] = b[2] => b[3] <= c[3]
    BY <1>3, <1>5
  <2> QED BY ONLY <2>1, <2>2, <2>3, <2>4 DEF NotAfter
<1> QED BY <1>5, <1>6

LEMMA InvariantNearest == ConfigInv => NearestDatabase
<1> SUFFICES ASSUME ConfigInv, phase # "database", ~HasExplicitDatabase, SourceFiles # {}
             PROVE  NearestDatabase
  BY DEF NearestDatabase
<1> DEFINE candidates == {a \in DatabaseCandidates : Covers(DatabaseAt(a))}
           firsts == {b \in candidates : \A c \in candidates : NotAfter(b, c)}
           covering(directory) ==
             {d \in {InRoot(directory)[p] : p \in 1..Len(InRoot(directory))} : Covers(d)}
           length == Len(disk.arguments)
           k0 == CHOOSE k \in SourceFiles : \A j \in SourceFiles : k <= j
           first(n) == Upward(disk.arguments[k0].directory, n)
<1>1. database = {DatabaseAt(a) : a \in firsts}
  BY DEF ConfigInv, DiscoverDatabase
<1>2. length \in Nat /\ IsFiniteSet(DOMAIN disk.above)
  <2>1. IsSequence(disk.arguments) /\ IsFiniteSet(DOMAIN disk.above)
    BY DiskAssumption DEF DiskAssumption, ConfigInv
  <2> QED BY <2>1, Indices
<1>3. /\ SourceFiles \subseteq 1..length /\ Starts = SourceFiles \cup {length + 1}
      /\ Starts \subseteq Nat /\ Steps \subseteq Nat
      /\ \A n \in Steps : 0..n \subseteq Steps
  <2>1. SourceFiles \subseteq 1..length /\ Starts = SourceFiles \cup {length + 1}
    BY DEF SourceFiles, Starts
  <2> DEFINE M == Cardinality(DOMAIN disk.above)
  <2>2. M \in Nat /\ Steps = 0..M
    BY <1>2, FS_CardinalityType DEF Steps
  <2> HIDE DEF M, length
  <2>3. Starts \subseteq Nat
    BY <1>2, <2>1
  <2>4. Steps \subseteq Nat /\ \A n \in Steps : 0..n \subseteq Steps
    BY <2>2
  <2> QED BY <2>1, <2>3, <2>4
<1>4. \A a : a \in DatabaseCandidates <=>
        \E k \in Starts, n \in Steps : \E p \in 1..Len(InRoot(Upward(StartOf(k), n))) : a = <<k, n, p>>
  <2> DEFINE there(k, n) == {<<k, n, p>> : p \in 1..Len(InRoot(Upward(StartOf(k), n)))}
             all == {there(k, n) : k \in Starts, n \in Steps}
  <2>1. DatabaseCandidates = UNION all
    BY DEF DatabaseCandidates
  <2>2. \A a, k, n : a \in there(k, n) <=>
          \E p \in 1..Len(InRoot(Upward(StartOf(k), n))) : a = <<k, n, p>>
    OBVIOUS
  <2> HIDE DEF there
  <2>3. \A a : a \in UNION all <=> \E k \in Starts, n \in Steps : a \in there(k, n)
    OBVIOUS
  <2> HIDE DEF all
  <2> QED BY <2>1, <2>2, <2>3
<1>5. candidates \in SUBSET (Nat \X Nat \X Nat)
  <2>1. \A k, n : \A p \in 1..Len(InRoot(Upward(StartOf(k), n))) : p \in Nat
    OBVIOUS
  <2> QED BY <1>3, <1>4, <2>1
<1>6. ASSUME NEW k \in Starts, NEW n \in Steps, NEW d \in covering(Upward(StartOf(k), n))
      PROVE  \E p : <<k, n, p>> \in candidates /\ DatabaseAt(<<k, n, p>>) = d
  <2>1. PICK p \in 1..Len(InRoot(Upward(StartOf(k), n))) :
          d = InRoot(Upward(StartOf(k), n))[p] /\ Covers(d)
    OBVIOUS
  <2>2. <<k, n, p>> \in DatabaseCandidates
    BY <1>4
  <2>3. DatabaseAt(<<k, n, p>>) = d
    BY <2>1 DEF DatabaseAt
  <2> QED BY <2>1, <2>2, <2>3
<1>7. ASSUME NEW a \in candidates
      PROVE  /\ a[1] \in Starts /\ a[2] \in Steps
             /\ DatabaseAt(a) \in covering(Upward(StartOf(a[1]), a[2]))
  <2>1. PICK k \in Starts, n \in Steps : \E p \in 1..Len(InRoot(Upward(StartOf(k), n))) : a = <<k, n, p>>
    BY <1>4
  <2>2. PICK p \in 1..Len(InRoot(Upward(StartOf(k), n))) : a = <<k, n, p>>
    BY <2>1
  <2>3. a[1] = k /\ a[2] = n /\ DatabaseAt(a) = InRoot(Upward(StartOf(k), n))[p]
    BY <2>2 DEF DatabaseAt
  <2> QED BY <2>2, <2>3
<1>8. candidates # {} => \E b : b \in firsts
  <2> HIDE DEF candidates
  <2> QED BY <1>5, FirstOfAll
<1>9. \A b, c \in firsts : b = c
  <2> SUFFICES ASSUME NEW b \in firsts, NEW c \in firsts PROVE b = c
    OBVIOUS
  <2>1. b \in candidates /\ c \in candidates /\ NotAfter(b, c) /\ NotAfter(c, b)
    OBVIOUS
  <2>2. b \in Nat \X Nat \X Nat /\ c \in Nat \X Nat \X Nat
    BY <1>5, <2>1
  <2>3. /\ b[1] \in Nat /\ b[2] \in Nat /\ b[3] \in Nat
        /\ c[1] \in Nat /\ c[2] \in Nat /\ c[3] \in Nat
        /\ b = <<b[1], b[2], b[3]>> /\ c = <<c[1], c[2], c[3]>>
    BY ONLY <2>2
  <2>4. b[1] = c[1] /\ b[2] = c[2] /\ b[3] = c[3]
    BY ONLY <2>1, <2>3 DEF NotAfter
  <2> QED BY ONLY <2>3, <2>4
<1>10. k0 \in SourceFiles /\ \A j \in SourceFiles : k0 <= j
  <2>1. SourceFiles \in SUBSET Nat
    BY <1>2, <1>3
  <2> QED BY <2>1, LeastElement
<1> HIDE DEF candidates, firsts, covering, k0, length
<1>11. database = {} <=> \A k \in Starts, n \in Steps : covering(Upward(StartOf(k), n)) = {}
  <2>1. candidates = {} <=> \A k \in Starts, n \in Steps : covering(Upward(StartOf(k), n)) = {}
    BY <1>6, <1>7
  <2>2. firsts = {} <=> candidates = {}
    BY <1>8 DEF firsts
  <2> QED BY <1>1, <2>1, <2>2
<1>12. \A d \in database : Covers(d) /\ database = {d}
  <2>1. \A a \in firsts : Covers(DatabaseAt(a))
    BY DEF firsts, candidates
  <2> QED BY <1>1, <1>9, <2>1
<1>13. ASSUME NEW n \in Steps, covering(first(n)) # {}
       PROVE  \E m \in 0..n : database \subseteq covering(first(m))
  <2>1. k0 \in Starts /\ StartOf(k0) = disk.arguments[k0].directory
    BY <1>3, <1>10 DEF StartOf
  <2>2. PICK p : <<k0, n, p>> \in candidates
    BY <1>6, <1>13, <2>1
  <2>3. PICK b : b \in firsts
    BY <1>8, <2>2
  <2>4. b \in candidates /\ NotAfter(b, <<k0, n, p>>)
    BY <2>2, <2>3 DEF firsts
  <2>5. /\ b[1] \in Starts /\ b[2] \in Steps
        /\ DatabaseAt(b) \in covering(Upward(StartOf(b[1]), b[2]))
    BY <1>7, <2>4
  <2>6. k0 <= b[1] /\ b[1] \in Nat /\ b[2] \in Nat /\ k0 \in Nat /\ n \in Nat
    <3>1. b[1] \in Nat /\ b[2] \in Nat /\ n \in Nat
      BY <1>3, <2>5
    <3>2. k0 \in 1..length /\ (b[1] \in SourceFiles \/ b[1] = length + 1)
      BY <1>3, <1>10, <2>5
    <3>3. b[1] \in SourceFiles => k0 <= b[1]
      BY <1>10
    <3> QED BY ONLY <1>2, <3>1, <3>2, <3>3
  <2>7. b[1] = k0 /\ b[2] <= n
    BY ONLY <2>4, <2>6 DEF NotAfter
  <2>8. b[2] \in 0..n
    BY ONLY <2>6, <2>7
  <2>9. database = {DatabaseAt(b)}
    BY <1>1, <1>9, <2>3
  <2>10. DatabaseAt(b) \in covering(first(b[2]))
    BY <2>1, <2>5, <2>7
  <2> QED BY <2>8, <2>9, <2>10
<1> QED BY <1>11, <1>12, <1>13 DEF NearestDatabase, covering, k0

\* discover_compilation_database: whatever is on the disk, a database that is
\* found knows every source, one is found if there is one on the way, and one
\* that is above the first source is not passed over for one farther off.
THEOREM NearestDatabaseTaken == ConfigSpec => []NearestDatabase
<1>1. ConfigSpec => []ConfigInv
  BY ConfigStarts, ConfigStep, PTL DEF ConfigSpec
<1> QED BY <1>1, InvariantNearest, PTL

\* Every action keeps the variables in their types.
LEMMA TypeStep == TypeOK /\ [Next]_vars => TypeOK'
<1> SUFFICES ASSUME TypeOK, [Next]_vars PROVE TypeOK'
  OBVIOUS
<1> USE RunnerAssumption DEF TypeOK, Units, NoUnit, FutureStates, Verdicts,
      Running, Interrupted, vars, mainVars, workerVars, childVars
<1>1. CASE SubmitNext
  BY <1>1 DEF SubmitNext
<1>2. CASE Submitted
  BY <1>2 DEF Submitted
<1>3. CASE FirstCompleted
  BY <1>3 DEF FirstCompleted, Completed
<1>4. CASE NothingPending
  BY <1>4 DEF NothingPending
<1>5. CASE ResumeAfterReport
  BY <1>5 DEF ResumeAfterReport
<1>6. CASE BatchDrained
  BY <1>6 DEF BatchDrained, CancelQueued
<1>7. CASE Finish
  BY <1>7 DEF Finish, NoRunningWorker
<1>8. CASE Interrupt
  BY <1>8 DEF Interrupt
<1>9. CASE SetStopEvent
  BY <1>9 DEF SetStopEvent
<1>10. CASE CancelAll
  BY <1>10 DEF CancelAll, CancelQueued
<1>11. CASE InterruptShutdown
  <2>1. interrupts' \in 0..MaxInterrupts
    BY <1>11 DEF InterruptShutdown
  <2> QED
    BY <2>1, <1>11 DEF InterruptShutdown
<1>12. CASE ReportFails
  BY <1>12 DEF ReportFails
<1>13. CASE LeaveProcess
  BY <1>13 DEF LeaveProcess
<1>14. ASSUME NEW u \in Units, SkipCancelled(u) PROVE TypeOK'
  BY <1>14 DEF SkipCancelled
<1>15. ASSUME NEW u \in Units, YieldResult(u) PROVE TypeOK'
  BY <1>15 DEF YieldResult
<1>16. ASSUME NEW u \in Units, StartWork(u) PROVE TypeOK'
  BY <1>16 DEF StartWork
<1>17. ASSUME NEW u \in Units, NotifyCancelled(u) PROVE TypeOK'
  BY <1>17 DEF NotifyCancelled
<1>18. ASSUME NEW u \in Units, Spawn(u) PROVE TypeOK'
  BY <1>18 DEF Spawn
<1>19. ASSUME NEW u \in Units, SpawnFails(u) PROVE TypeOK'
  <2>1. verdict' \in [Units -> Verdicts]
    BY <1>19 DEF SpawnFails, Settle
  <2>2. workerAt' = [workerAt EXCEPT ![u] = "close"]
    BY <1>19 DEF SpawnFails, Settle
  <2> QED
    BY <2>1, <2>2, <1>19 DEF SpawnFails
<1>20. ASSUME NEW u \in Units, CheckStop(u) PROVE TypeOK'
  <2>1. workerAt'[u] \in {"term", "poll"} /\ workerAt' = [workerAt EXCEPT ![u] = workerAt'[u]]
    BY <1>20 DEF CheckStop
  <2>2. \/ reason' = reason
        \/ \E r \in {"timeout", "interrupted"} : reason' = [reason EXCEPT ![u] = r]
    BY <1>20 DEF CheckStop
  <2>3. workerAt' \in [Units -> {"idle", "open", "check", "poll", "term", "grace", "kill", "close"}]
    BY <2>1
  <2> QED
    BY <2>2, <2>3, <1>20 DEF CheckStop
<1>21. ASSUME NEW u \in Units, ChildReaped(u) PROVE TypeOK'
  BY <1>21 DEF ChildReaped, Settle, Gone
<1>22. ASSUME NEW u \in Units, PollExpires(u) PROVE TypeOK'
  BY <1>22 DEF PollExpires, Gone
<1>23. ASSUME NEW u \in Units, LeaderIsGone(u) PROVE TypeOK'
  BY <1>23 DEF LeaderIsGone, Settle, Gone
<1>24. ASSUME NEW u \in Units, Escalate(u) PROVE TypeOK'
  <2>1. CASE workerAt[u] = "term"
    <3>1. /\ signalled' = [signalled EXCEPT ![u] = "term"]
          /\ workerAt' = [workerAt EXCEPT ![u] = "grace"]
      BY <2>1, <1>24 DEF Escalate
    <3> QED
      BY <3>1, <1>24 DEF Escalate
  <2>2. CASE workerAt[u] = "grace"
    <3>1. /\ signalled' = [signalled EXCEPT ![u] = "kill"]
          /\ workerAt' = [workerAt EXCEPT ![u] = "kill"]
      BY <2>2, <1>24 DEF Escalate
    <3> QED
      BY <3>1, <1>24 DEF Escalate
  <2> QED
    BY <2>1, <2>2, <1>24 DEF Escalate
<1>25. ASSUME NEW u \in Units, WorkerReturns(u) PROVE TypeOK'
  BY <1>25 DEF WorkerReturns
<1>26. ASSUME NEW u \in Units, DeadlinePasses(u) PROVE TypeOK'
  BY <1>26 DEF DeadlinePasses
<1>27. ASSUME NEW u \in Units, LeaderExits(u) PROVE TypeOK'
  BY <1>27 DEF LeaderExits
<1>28. ASSUME NEW u \in Units, HelperStarts(u) PROVE TypeOK'
  BY <1>28 DEF HelperStarts
<1>29. ASSUME NEW u \in Units, HelperExits(u) PROVE TypeOK'
  BY <1>29 DEF HelperExits, HelperAlive
<1>30. ASSUME NEW u \in Units, HelperObeys(u) PROVE TypeOK'
  BY <1>30 DEF HelperObeys
<1>31. ASSUME NEW u \in Units, GroupKilled(u) PROVE TypeOK'
  BY <1>31 DEF GroupKilled, HelperAlive
<1>32. CASE UNCHANGED vars
  BY <1>32 DEF vars
<1> QED
  BY <1>1, <1>2, <1>3, <1>4, <1>5, <1>6, <1>7, <1>8, <1>9, <1>10, <1>11, <1>12,
      <1>13, <1>14, <1>15, <1>16, <1>17, <1>18, <1>19, <1>20, <1>21, <1>22, <1>23,
      <1>24, <1>25, <1>26, <1>27, <1>28, <1>29, <1>30, <1>31, <1>32
  DEF Next, MainStep, WorkerStep, KernelStep, ProcessStep, Environment, Terminated

\* Worker, child and future of a unit stay consistent.
LEMMA WorkerStepInv == TypeOK /\ AccountInv /\ WorkerInv /\ [Next]_vars => WorkerInv'
<1> SUFFICES ASSUME TypeOK /\ AccountInv /\ WorkerInv, [Next]_vars PROVE WorkerInv'
  OBVIOUS
<1> USE RunnerAssumption DEF WorkerInv, AccountInv, TypeOK, Units, vars, mainVars,
      workerVars, childVars
<1>1. CASE SubmitNext
  BY <1>1 DEF SubmitNext
<1>2. CASE BatchDrained
  BY <1>2 DEF BatchDrained, CancelQueued
<1>3. CASE CancelAll
  BY <1>3 DEF CancelAll, CancelQueued
<1>4. ASSUME NEW u \in Units, StartWork(u) PROVE WorkerInv'
  BY <1>4 DEF StartWork
<1>5. ASSUME NEW u \in Units, NotifyCancelled(u) PROVE WorkerInv'
  BY <1>5 DEF NotifyCancelled
<1>6. ASSUME NEW u \in Units, Spawn(u) PROVE WorkerInv'
  BY <1>6 DEF Spawn
<1>7. ASSUME NEW u \in Units, SpawnFails(u) PROVE WorkerInv'
  BY <1>7 DEF SpawnFails, Settle
<1>8. ASSUME NEW u \in Units, CheckStop(u) PROVE WorkerInv'
  BY <1>8 DEF CheckStop
<1>9. ASSUME NEW u \in Units, ChildReaped(u) PROVE WorkerInv'
  BY <1>9 DEF ChildReaped, Settle, Gone
<1>10. ASSUME NEW u \in Units, PollExpires(u) PROVE WorkerInv'
  BY <1>10 DEF PollExpires, Gone
<1>11. ASSUME NEW u \in Units, LeaderIsGone(u) PROVE WorkerInv'
  <2>1. reason[u] \in {"timeout", "interrupted"} /\ leader[u] \in {"ok", "bad"}
    BY <1>11 DEF LeaderIsGone, Settle, Gone
  <2> QED
    BY <2>1, <1>11 DEF LeaderIsGone, Settle
<1>12. ASSUME NEW u \in Units, Escalate(u) PROVE WorkerInv'
  BY <1>12 DEF Escalate, Gone
<1>13. ASSUME NEW u \in Units, WorkerReturns(u) PROVE WorkerInv'
  BY <1>13 DEF WorkerReturns
<1>14. ASSUME NEW u \in Units, LeaderExits(u) PROVE WorkerInv'
  BY <1>14 DEF LeaderExits
<1>15. ASSUME NEW u \in Units, GroupKilled(u) PROVE WorkerInv'
  BY <1>15 DEF GroupKilled, HelperAlive
<1>16. CASE
         \/ Submitted \/ FirstCompleted \/ NothingPending \/ ResumeAfterReport
         \/ Finish \/ Interrupt \/ SetStopEvent \/ InterruptShutdown \/ ReportFails
         \/ LeaveProcess \/ UNCHANGED vars
         \/ \E u \in Units :
              \/ SkipCancelled(u) \/ YieldResult(u) \/ DeadlinePasses(u)
              \/ HelperStarts(u) \/ HelperExits(u) \/ HelperObeys(u)
  <2>1. UNCHANGED <<future, workerAt, reason, verdict, leader>>
    BY <1>16 DEF vars, Submitted, FirstCompleted, Completed, NothingPending,
      ResumeAfterReport, Finish, NoRunningWorker, Interrupt, SetStopEvent,
      InterruptShutdown, ReportFails, LeaveProcess, SkipCancelled, YieldResult,
      DeadlinePasses, HelperStarts, HelperExits, HelperAlive, HelperObeys
  <2> QED
    BY <2>1
<1> QED
  BY <1>1, <1>2, <1>3, <1>4, <1>5, <1>6, <1>7, <1>8, <1>9, <1>10, <1>11, <1>12,
      <1>13, <1>14, <1>15, <1>16
  DEF Next, MainStep, WorkerStep, KernelStep, ProcessStep, Environment, Terminated

\* A worker never forgets why it signalled its analyzer.
LEMMA CauseStep == TypeOK /\ AccountInv /\ WorkerInv /\ CauseInv /\ [Next]_vars => CauseInv'
<1> SUFFICES ASSUME TypeOK /\ AccountInv /\ WorkerInv /\ CauseInv, [Next]_vars PROVE CauseInv'
  OBVIOUS
<1> USE RunnerAssumption DEF CauseInv, WorkerInv, TypeOK, Units, AccountInv, vars,
      mainVars, workerVars, childVars
<1>1. CASE SetStopEvent
  BY <1>1 DEF SetStopEvent
<1>2. CASE InterruptShutdown
  BY <1>2 DEF InterruptShutdown
<1>3. ASSUME NEW u \in Units, SpawnFails(u) PROVE CauseInv'
  BY <1>3 DEF SpawnFails, Settle
<1>4. ASSUME NEW u \in Units, CheckStop(u) PROVE CauseInv'
  BY <1>4 DEF CheckStop
<1>5. ASSUME NEW u \in Units, ChildReaped(u) PROVE CauseInv'
  BY <1>5 DEF ChildReaped, Settle, Gone
<1>6. ASSUME NEW u \in Units, LeaderIsGone(u) PROVE CauseInv'
  BY <1>6 DEF LeaderIsGone, Settle, Gone
<1>7. ASSUME NEW u \in Units, Escalate(u) PROVE CauseInv'
  BY <1>7 DEF Escalate, Gone
<1>8. ASSUME NEW u \in Units, WorkerReturns(u) PROVE CauseInv'
  BY <1>8 DEF WorkerReturns
<1>9. ASSUME NEW u \in Units, DeadlinePasses(u) PROVE CauseInv'
  BY <1>9 DEF DeadlinePasses
<1>10. CASE
         \/ SubmitNext \/ Submitted \/ FirstCompleted \/ NothingPending
         \/ ResumeAfterReport \/ BatchDrained \/ Finish \/ Interrupt \/ CancelAll
         \/ ReportFails \/ LeaveProcess \/ UNCHANGED vars
         \/ \E u \in Units :
              \/ SkipCancelled(u) \/ YieldResult(u) \/ StartWork(u)
              \/ NotifyCancelled(u) \/ Spawn(u) \/ PollExpires(u) \/ LeaderExits(u)
              \/ HelperStarts(u) \/ HelperExits(u) \/ HelperObeys(u) \/ GroupKilled(u)
  <2>1. UNCHANGED <<stopEvent, reason, overdue, verdict, signalled>>
    BY <1>10 DEF vars, SubmitNext, Submitted, FirstCompleted, Completed,
      NothingPending, ResumeAfterReport, BatchDrained, CancelQueued, Finish,
      NoRunningWorker, Interrupt, CancelAll, ReportFails, LeaveProcess,
      SkipCancelled, YieldResult, StartWork, NotifyCancelled, Spawn, PollExpires,
      Gone, LeaderExits, HelperStarts, HelperExits, HelperAlive, HelperObeys,
      GroupKilled
  <2> QED
    BY <2>1
<1> QED
  BY <1>1, <1>2, <1>3, <1>4, <1>5, <1>6, <1>7, <1>8, <1>9, <1>10
  DEF Next, MainStep, WorkerStep, KernelStep, ProcessStep, Environment, Terminated

\* No submitted unit is lost from sight.
LEMMA AccountStep == TypeOK /\ WorkerInv /\ PhaseInv /\ AccountInv /\ [Next]_vars => AccountInv'
<1> SUFFICES ASSUME TypeOK /\ WorkerInv /\ PhaseInv /\ AccountInv, [Next]_vars PROVE AccountInv'
  OBVIOUS
<1> USE RunnerAssumption DEF AccountInv, WorkerInv, PhaseInv, TypeOK, Units,
      NoUnit, vars, mainVars, workerVars, childVars
<1>1. CASE SubmitNext
  BY <1>1 DEF SubmitNext
<1>2. CASE Submitted
  BY <1>2 DEF Submitted
<1>3. CASE FirstCompleted
  BY <1>3 DEF FirstCompleted, Completed
<1>4. CASE NothingPending
  BY <1>4 DEF NothingPending
<1>5. CASE ResumeAfterReport
  BY <1>5 DEF ResumeAfterReport
<1>6. CASE BatchDrained
  BY <1>6 DEF BatchDrained, CancelQueued
<1>7. CASE Finish
  BY <1>7 DEF Finish, NoRunningWorker
<1>8. CASE Interrupt
  BY <1>8 DEF Interrupt
<1>9. CASE SetStopEvent
  BY <1>9 DEF SetStopEvent
<1>10. CASE CancelAll
  BY <1>10 DEF CancelAll, CancelQueued
<1>11. CASE InterruptShutdown
  BY <1>11 DEF InterruptShutdown
<1>12. CASE ReportFails
  BY <1>12 DEF ReportFails
<1>13. CASE LeaveProcess
  BY <1>13 DEF LeaveProcess
<1>14. ASSUME NEW u \in Units, SkipCancelled(u) PROVE AccountInv'
  BY <1>14 DEF SkipCancelled
<1>15. ASSUME NEW u \in Units, YieldResult(u) PROVE AccountInv'
  BY <1>15 DEF YieldResult
<1>16. ASSUME NEW u \in Units, StartWork(u) PROVE AccountInv'
  BY <1>16 DEF StartWork
<1>17. ASSUME NEW u \in Units, NotifyCancelled(u) PROVE AccountInv'
  BY <1>17 DEF NotifyCancelled
<1>18. ASSUME NEW u \in Units, WorkerReturns(u) PROVE AccountInv'
  BY <1>18 DEF WorkerReturns
<1>19. CASE
         \/ UNCHANGED vars
         \/ \E u \in Units :
              \/ Spawn(u) \/ SpawnFails(u) \/ CheckStop(u) \/ ChildReaped(u)
              \/ PollExpires(u) \/ LeaderIsGone(u) \/ Escalate(u) \/ DeadlinePasses(u)
              \/ LeaderExits(u) \/ HelperStarts(u) \/ HelperExits(u) \/ HelperObeys(u)
              \/ GroupKilled(u)
  <2>1. UNCHANGED <<mainAt, nextUnit, pending, batch, current, reported,
      stopSubmitting, stopEvent, future>>
    BY <1>19 DEF vars, Spawn, SpawnFails, Settle, CheckStop, ChildReaped, Gone,
      PollExpires, LeaderIsGone, Escalate, DeadlinePasses, LeaderExits,
      HelperStarts, HelperExits, HelperAlive, HelperObeys, GroupKilled
  <2> QED
    BY <2>1
<1> QED
  BY <1>1, <1>2, <1>3, <1>4, <1>5, <1>6, <1>7, <1>8, <1>9, <1>10, <1>11, <1>12,
      <1>13, <1>14, <1>15, <1>16, <1>17, <1>18, <1>19
  DEF Next, MainStep, WorkerStep, KernelStep, ProcessStep, Environment, Terminated

\* The flags agree with where the main thread stands.
LEMMA PhaseStep == TypeOK /\ AccountInv /\ WorkerInv /\ ShutdownInv /\ PhaseInv /\ [Next]_vars => PhaseInv'
<1> SUFFICES ASSUME TypeOK /\ AccountInv /\ WorkerInv /\ ShutdownInv /\ PhaseInv, [Next]_vars PROVE PhaseInv'
  OBVIOUS
<1> USE RunnerAssumption DEF PhaseInv, AccountInv, WorkerInv, ShutdownInv,
      FailFastInv, TypeOK, Units, NoUnit, Running, Interrupted, vars, mainVars,
      workerVars, childVars
<1>1. CASE SubmitNext
  BY <1>1 DEF SubmitNext
<1>2. CASE Submitted
  BY <1>2 DEF Submitted
<1>3. CASE FirstCompleted
  BY <1>3 DEF FirstCompleted, Completed
<1>4. CASE NothingPending
  BY <1>4 DEF NothingPending
<1>5. CASE ResumeAfterReport
  BY <1>5 DEF ResumeAfterReport
<1>6. CASE BatchDrained
  BY <1>6 DEF BatchDrained, CancelQueued
<1>7. CASE Finish
  BY <1>7 DEF Finish, NoRunningWorker
<1>8. CASE Interrupt
  BY <1>8 DEF Interrupt
<1>9. CASE SetStopEvent
  BY <1>9 DEF SetStopEvent
<1>10. CASE CancelAll
  BY <1>10 DEF CancelAll, CancelQueued
<1>11. CASE InterruptShutdown
  BY <1>11 DEF InterruptShutdown
<1>12. CASE ReportFails
  BY <1>12 DEF ReportFails
<1>13. CASE LeaveProcess
  BY <1>13 DEF LeaveProcess
<1>14. ASSUME NEW u \in Units, SkipCancelled(u) PROVE PhaseInv'
  BY <1>14 DEF SkipCancelled
<1>15. ASSUME NEW u \in Units, YieldResult(u) PROVE PhaseInv'
  BY <1>15 DEF YieldResult
<1>16. ASSUME NEW u \in Units, StartWork(u) PROVE PhaseInv'
  BY <1>16 DEF StartWork
<1>17. ASSUME NEW u \in Units, NotifyCancelled(u) PROVE PhaseInv'
  BY <1>17 DEF NotifyCancelled
<1>18. ASSUME NEW u \in Units, SpawnFails(u) PROVE PhaseInv'
  BY <1>18 DEF SpawnFails, Settle
<1>19. ASSUME NEW u \in Units, ChildReaped(u) PROVE PhaseInv'
  BY <1>19 DEF ChildReaped, Settle, Gone
<1>20. ASSUME NEW u \in Units, LeaderIsGone(u) PROVE PhaseInv'
  BY <1>20 DEF LeaderIsGone, Settle, Gone
<1>21. ASSUME NEW u \in Units, WorkerReturns(u) PROVE PhaseInv'
  BY <1>21 DEF WorkerReturns
<1>22. CASE
         \/ UNCHANGED vars
         \/ \E u \in Units :
              \/ Spawn(u) \/ CheckStop(u) \/ PollExpires(u) \/ Escalate(u)
              \/ DeadlinePasses(u) \/ LeaderExits(u) \/ HelperStarts(u)
              \/ HelperExits(u) \/ HelperObeys(u) \/ GroupKilled(u)
  <2>1. UNCHANGED <<mainAt, batch, reported, stopSubmitting, stopEvent, tempDir,
      interrupts, exitCode, future, verdict>>
    BY <1>22 DEF vars, Spawn, CheckStop, PollExpires, Gone, Escalate,
      DeadlinePasses, LeaderExits, HelperStarts, HelperExits, HelperAlive,
      HelperObeys, GroupKilled
  <2> QED
    BY <2>1
<1> QED
  BY <1>1, <1>2, <1>3, <1>4, <1>5, <1>6, <1>7, <1>8, <1>9, <1>10, <1>11, <1>12,
      <1>13, <1>14, <1>15, <1>16, <1>17, <1>18, <1>19, <1>20, <1>21, <1>22
  DEF Next, MainStep, WorkerStep, KernelStep, ProcessStep, Environment, Terminated

\* Every freed slot is refilled while units are left.
LEMMA RefillStep == TypeOK /\ AccountInv /\ PhaseInv /\ RefillInv /\ [Next]_vars => RefillInv'
<1> SUFFICES ASSUME TypeOK /\ AccountInv /\ PhaseInv /\ RefillInv, [Next]_vars PROVE RefillInv'
  OBVIOUS
<1> USE RunnerAssumption DEF RefillInv, PhaseInv, AccountInv, TypeOK, Units,
      NoUnit, vars, mainVars, workerVars, childVars
<1>1. CASE SubmitNext
  BY <1>1 DEF SubmitNext
<1>2. CASE Submitted
  BY <1>2 DEF Submitted
<1>3. CASE FirstCompleted
  BY <1>3 DEF FirstCompleted, Completed
<1>4. CASE NothingPending
  BY <1>4 DEF NothingPending
<1>5. CASE ResumeAfterReport
  BY <1>5 DEF ResumeAfterReport
<1>6. CASE BatchDrained
  BY <1>6 DEF BatchDrained, CancelQueued
<1>7. CASE Finish
  BY <1>7 DEF Finish, NoRunningWorker
<1>8. CASE Interrupt
  BY <1>8 DEF Interrupt
<1>9. CASE SetStopEvent
  BY <1>9 DEF SetStopEvent
<1>10. CASE CancelAll
  BY <1>10 DEF CancelAll, CancelQueued
<1>11. CASE InterruptShutdown
  BY <1>11 DEF InterruptShutdown
<1>12. CASE ReportFails
  BY <1>12 DEF ReportFails
<1>13. CASE LeaveProcess
  BY <1>13 DEF LeaveProcess
<1>14. ASSUME NEW u \in Units, SkipCancelled(u) PROVE RefillInv'
  BY <1>14 DEF SkipCancelled
<1>15. ASSUME NEW u \in Units, YieldResult(u) PROVE RefillInv'
  BY <1>15 DEF YieldResult
<1>16. ASSUME NEW u \in Units, StartWork(u) PROVE RefillInv'
  BY <1>16 DEF StartWork
<1>17. ASSUME NEW u \in Units, NotifyCancelled(u) PROVE RefillInv'
  BY <1>17 DEF NotifyCancelled
<1>18. ASSUME NEW u \in Units, WorkerReturns(u) PROVE RefillInv'
  BY <1>18 DEF WorkerReturns
<1>19. CASE
         \/ UNCHANGED vars
         \/ \E u \in Units :
              \/ Spawn(u) \/ SpawnFails(u) \/ CheckStop(u) \/ ChildReaped(u)
              \/ PollExpires(u) \/ LeaderIsGone(u) \/ Escalate(u) \/ DeadlinePasses(u)
              \/ LeaderExits(u) \/ HelperStarts(u) \/ HelperExits(u) \/ HelperObeys(u)
              \/ GroupKilled(u)
  <2>1. UNCHANGED <<mainAt, nextUnit, pending, batch, slots, stopSubmitting,
      stopEvent, future>>
    BY <1>19 DEF vars, Spawn, SpawnFails, Settle, CheckStop, ChildReaped, Gone,
      PollExpires, LeaderIsGone, Escalate, DeadlinePasses, LeaderExits,
      HelperStarts, HelperExits, HelperAlive, HelperObeys, GroupKilled
  <2> QED
    BY <2>1
<1> QED
  BY <1>1, <1>2, <1>3, <1>4, <1>5, <1>6, <1>7, <1>8, <1>9, <1>10, <1>11, <1>12,
      <1>13, <1>14, <1>15, <1>16, <1>17, <1>18, <1>19
  DEF Next, MainStep, WorkerStep, KernelStep, ProcessStep, Environment, Terminated

\* An undisturbed shutdown starts with nothing pending.
LEMMA ShutdownStep == TypeOK /\ PhaseInv /\ ShutdownInv /\ [Next]_vars => ShutdownInv'
<1> SUFFICES ASSUME TypeOK /\ PhaseInv /\ ShutdownInv, [Next]_vars PROVE ShutdownInv'
  OBVIOUS
<1> USE RunnerAssumption DEF ShutdownInv, PhaseInv, TypeOK, Units, vars, mainVars,
      workerVars, childVars
<1>1. CASE SubmitNext
  BY <1>1 DEF SubmitNext
<1>2. CASE Submitted
  BY <1>2 DEF Submitted
<1>3. CASE FirstCompleted
  BY <1>3 DEF FirstCompleted, Completed
<1>4. CASE NothingPending
  BY <1>4 DEF NothingPending
<1>5. CASE ResumeAfterReport
  BY <1>5 DEF ResumeAfterReport
<1>6. CASE BatchDrained
  BY <1>6 DEF BatchDrained, CancelQueued
<1>7. CASE Finish
  BY <1>7 DEF Finish, NoRunningWorker
<1>8. CASE Interrupt
  BY <1>8 DEF Interrupt
<1>9. CASE SetStopEvent
  BY <1>9 DEF SetStopEvent
<1>10. CASE CancelAll
  BY <1>10 DEF CancelAll, CancelQueued
<1>11. CASE InterruptShutdown
  BY <1>11 DEF InterruptShutdown
<1>12. CASE ReportFails
  BY <1>12 DEF ReportFails
<1>13. CASE LeaveProcess
  BY <1>13 DEF LeaveProcess
<1>14. ASSUME NEW u \in Units, SkipCancelled(u) PROVE ShutdownInv'
  BY <1>14 DEF SkipCancelled
<1>15. ASSUME NEW u \in Units, YieldResult(u) PROVE ShutdownInv'
  BY <1>15 DEF YieldResult
<1>16. CASE
         \/ UNCHANGED vars
         \/ \E u \in Units :
              \/ StartWork(u) \/ NotifyCancelled(u) \/ Spawn(u) \/ SpawnFails(u)
              \/ CheckStop(u) \/ ChildReaped(u) \/ PollExpires(u) \/ LeaderIsGone(u)
              \/ Escalate(u) \/ WorkerReturns(u) \/ DeadlinePasses(u)
              \/ LeaderExits(u) \/ HelperStarts(u) \/ HelperExits(u) \/ HelperObeys(u)
              \/ GroupKilled(u)
  <2>1. UNCHANGED <<mainAt, pending, batch, stopEvent>>
    BY <1>16 DEF vars, StartWork, NotifyCancelled, Spawn, SpawnFails, Settle,
      CheckStop, ChildReaped, Gone, PollExpires, LeaderIsGone, Escalate,
      WorkerReturns, DeadlinePasses, LeaderExits, HelperStarts, HelperExits,
      HelperAlive, HelperObeys, GroupKilled
  <2> QED
    BY <2>1
<1> QED
  BY <1>1, <1>2, <1>3, <1>4, <1>5, <1>6, <1>7, <1>8, <1>9, <1>10, <1>11, <1>12,
      <1>13, <1>14, <1>15, <1>16
  DEF Next, MainStep, WorkerStep, KernelStep, ProcessStep, Environment, Terminated

\* A reported failure is not forgotten.
LEMMA FailFastStep == TypeOK /\ WorkerInv /\ AccountInv /\ PhaseInv /\ FailFastInv /\ [Next]_vars => FailFastInv'
<1> SUFFICES ASSUME TypeOK /\ WorkerInv /\ AccountInv /\ PhaseInv /\ FailFastInv, [Next]_vars PROVE FailFastInv'
  OBVIOUS
<1> USE RunnerAssumption DEF FailFastInv, WorkerInv, AccountInv, PhaseInv, TypeOK,
      Units, NoUnit, vars, mainVars, workerVars, childVars
<1>1. CASE Submitted
  BY <1>1 DEF Submitted
<1>2. CASE FirstCompleted
  BY <1>2 DEF FirstCompleted, Completed
<1>3. CASE NothingPending
  BY <1>3 DEF NothingPending
<1>4. CASE ResumeAfterReport
  BY <1>4 DEF ResumeAfterReport
<1>5. CASE BatchDrained
  BY <1>5 DEF BatchDrained, CancelQueued
<1>6. CASE Finish
  BY <1>6 DEF Finish, NoRunningWorker
<1>7. CASE Interrupt
  BY <1>7 DEF Interrupt
<1>8. CASE SetStopEvent
  BY <1>8 DEF SetStopEvent
<1>9. CASE CancelAll
  BY <1>9 DEF CancelAll, CancelQueued
<1>10. CASE InterruptShutdown
  BY <1>10 DEF InterruptShutdown
<1>11. CASE ReportFails
  BY <1>11 DEF ReportFails
<1>12. CASE LeaveProcess
  BY <1>12 DEF LeaveProcess
<1>13. ASSUME NEW u \in Units, YieldResult(u) PROVE FailFastInv'
  BY <1>13 DEF YieldResult
<1>14. ASSUME NEW u \in Units, SpawnFails(u) PROVE FailFastInv'
  BY <1>14 DEF SpawnFails, Settle
<1>15. ASSUME NEW u \in Units, ChildReaped(u) PROVE FailFastInv'
  BY <1>15 DEF ChildReaped, Settle, Gone
<1>16. ASSUME NEW u \in Units, LeaderIsGone(u) PROVE FailFastInv'
  <2>1. u \notin reported
    BY <1>16 DEF LeaderIsGone
  <2>2. \A v \in reported : verdict'[v] = verdict[v]
    BY <2>1, <1>16 DEF LeaderIsGone, Settle
  <2> QED
    BY <2>2, <1>16 DEF LeaderIsGone
<1>17. ASSUME NEW u \in Units, WorkerReturns(u) PROVE FailFastInv'
  <2>1. u \notin reported
    BY <1>17 DEF WorkerReturns
  <2>2. \A v \in reported : verdict'[v] = verdict[v]
    BY <2>1, <1>17 DEF WorkerReturns
  <2> QED
    BY <2>2, <1>17 DEF WorkerReturns
<1>18. CASE
         \/ SubmitNext \/ UNCHANGED vars
         \/ \E u \in Units :
              \/ SkipCancelled(u) \/ StartWork(u) \/ NotifyCancelled(u) \/ Spawn(u)
              \/ CheckStop(u) \/ PollExpires(u) \/ Escalate(u) \/ DeadlinePasses(u)
              \/ LeaderExits(u) \/ HelperStarts(u) \/ HelperExits(u) \/ HelperObeys(u)
              \/ GroupKilled(u)
  <2>1. UNCHANGED <<mainAt, current, reported, stopSubmitting, verdict>>
    BY <1>18 DEF vars, SubmitNext, SkipCancelled, StartWork, NotifyCancelled,
      Spawn, CheckStop, PollExpires, Gone, Escalate, DeadlinePasses, LeaderExits,
      HelperStarts, HelperExits, HelperAlive, HelperObeys, GroupKilled
  <2> QED
    BY <2>1
<1> QED
  BY <1>1, <1>2, <1>3, <1>4, <1>5, <1>6, <1>7, <1>8, <1>9, <1>10, <1>11, <1>12,
      <1>13, <1>14, <1>15, <1>16, <1>17, <1>18
  DEF Next, MainStep, WorkerStep, KernelStep, ProcessStep, Environment, Terminated

\* Exit status 0 is decided only when every unit passed.
LEMMA ExitZeroStep == TypeOK /\ WorkerInv /\ AccountInv /\ PhaseInv /\ RefillInv /\ ShutdownInv
        /\ ExitZeroMeansAllPassed /\ [Next]_vars => ExitZeroMeansAllPassed'
<1> SUFFICES ASSUME TypeOK /\ WorkerInv /\ AccountInv /\ PhaseInv /\ RefillInv /\ ShutdownInv
        /\ ExitZeroMeansAllPassed, [Next]_vars PROVE ExitZeroMeansAllPassed'
  OBVIOUS
<1> USE RunnerAssumption DEF ExitZeroMeansAllPassed, WorkerInv, AccountInv,
      PhaseInv, RefillInv, ShutdownInv, TypeOK, Units, Interrupted, Running, vars,
      mainVars, workerVars, childVars
<1>1. CASE Finish
  <2> SUFFICES ASSUME exitCode' = 0
               PROVE  reported = Units /\ \A u \in Units : verdict[u] = "ok" /\ leader[u] = "ok"
    BY <1>1 DEF Finish
  <2>1. ~stopEvent /\ \A u \in reported : verdict[u] = "ok"
    BY <1>1 DEF Finish
  <2>2. ~stopSubmitting /\ pending = {} /\ batch = {}
    BY <2>1, <1>1 DEF Finish
  <2>3. \A u \in Units : u < nextUnit
    BY <2>1, <2>2, <1>1 DEF Finish
  <2>4. ASSUME NEW u \in Units PROVE u \in reported
    <3>1. future[u] # "none"
      BY <2>3
    <3>2. future[u] # "notified"
      BY <2>1, <2>2
    <3> QED
      BY <2>2, <3>1, <3>2
  <2>5. reported = Units
    BY <2>4
  <2>6. \A u \in Units : leader[u] = "ok"
    BY <2>1, <2>4
  <2> QED
    BY <2>1, <2>5, <2>6
<1>2. CASE InterruptShutdown
  BY <1>2 DEF InterruptShutdown
<1>3. CASE ReportFails
  BY <1>3 DEF ReportFails
<1>4. ASSUME NEW u \in Units, YieldResult(u) PROVE ExitZeroMeansAllPassed'
  BY <1>4 DEF YieldResult
<1>5. ASSUME NEW u \in Units, Spawn(u) PROVE ExitZeroMeansAllPassed'
  BY <1>5 DEF Spawn
<1>6. ASSUME NEW u \in Units, SpawnFails(u) PROVE ExitZeroMeansAllPassed'
  BY <1>6 DEF SpawnFails, Settle
<1>7. ASSUME NEW u \in Units, ChildReaped(u) PROVE ExitZeroMeansAllPassed'
  BY <1>7 DEF ChildReaped, Settle, Gone
<1>8. ASSUME NEW u \in Units, LeaderIsGone(u) PROVE ExitZeroMeansAllPassed'
  BY <1>8 DEF LeaderIsGone, Settle, Gone
<1>9. ASSUME NEW u \in Units, WorkerReturns(u) PROVE ExitZeroMeansAllPassed'
  BY <1>9 DEF WorkerReturns
<1>10. ASSUME NEW u \in Units, LeaderExits(u) PROVE ExitZeroMeansAllPassed'
  BY <1>10 DEF LeaderExits
<1>11. ASSUME NEW u \in Units, GroupKilled(u) PROVE ExitZeroMeansAllPassed'
  BY <1>11 DEF GroupKilled, HelperAlive
<1>12. CASE
         \/ SubmitNext \/ Submitted \/ FirstCompleted \/ NothingPending
         \/ ResumeAfterReport \/ BatchDrained \/ Interrupt \/ SetStopEvent
         \/ CancelAll \/ LeaveProcess \/ UNCHANGED vars
         \/ \E u \in Units :
              \/ SkipCancelled(u) \/ StartWork(u) \/ NotifyCancelled(u)
              \/ CheckStop(u) \/ PollExpires(u) \/ Escalate(u) \/ DeadlinePasses(u)
              \/ HelperStarts(u) \/ HelperExits(u) \/ HelperObeys(u)
  <2>1. UNCHANGED <<reported, exitCode, verdict, leader>>
    BY <1>12 DEF vars, SubmitNext, Submitted, FirstCompleted, Completed,
      NothingPending, ResumeAfterReport, BatchDrained, CancelQueued, Interrupt,
      SetStopEvent, CancelAll, LeaveProcess, SkipCancelled, StartWork,
      NotifyCancelled, CheckStop, PollExpires, Gone, Escalate, DeadlinePasses,
      HelperStarts, HelperExits, HelperAlive, HelperObeys
  <2> QED
    BY <2>1
<1> QED
  BY <1>1, <1>2, <1>3, <1>4, <1>5, <1>6, <1>7, <1>8, <1>9, <1>10, <1>11, <1>12
  DEF Next, MainStep, WorkerStep, KernelStep, ProcessStep, Environment, Terminated

\* The busy units can be counted.
LEMMA BusyIsFinite == IsFiniteSet(BusyWorkers) /\ Cardinality(BusyWorkers) \in Nat
<1>1. IsFiniteSet(1..NumUnits)
  BY FS_Interval, RunnerAssumption
<1> QED
  BY <1>1, FS_Subset, FS_CardinalityType DEF BusyWorkers, Units

\* Only StartWork makes a unit busy, and only when a thread is free.
LEMMA PoolStep == TypeOK /\ PoolInv /\ [Next]_vars => PoolInv'
<1> SUFFICES ASSUME TypeOK, PoolInv, [Next]_vars PROVE PoolInv'
  OBVIOUS
<1> USE RunnerAssumption
<1>1. IsFiniteSet(BusyWorkers) /\ Cardinality(BusyWorkers) \in Nat
  BY BusyIsFinite
<1>2. CASE \E u \in Units : StartWork(u)
  <2>1. PICK u \in Units : StartWork(u)
    BY <1>2
  <2>2. BusyWorkers' = BusyWorkers \cup {u}
    BY <2>1 DEF StartWork, BusyWorkers, TypeOK
  <2>3. u \notin BusyWorkers /\ Cardinality(BusyWorkers) < Jobs
    BY <2>1 DEF StartWork, BusyWorkers, PoolTakes
  <2>4. Cardinality(BusyWorkers') = Cardinality(BusyWorkers) + 1
    BY <1>1, <2>2, <2>3, FS_AddElement
  <2>5. Jobs \in Nat
    OBVIOUS
  <2> QED
    BY <1>1, <2>3, <2>4, <2>5 DEF PoolInv
<1>3. CASE ~\E u \in Units : StartWork(u)
  <2>1. \A v \in Units : future'[v] = "running" => future[v] = "running"
    BY <1>3 DEF Next, MainStep, WorkerStep, KernelStep, ProcessStep, Environment,
      Terminated, SubmitNext, Submitted, FirstCompleted, NothingPending, SkipCancelled,
      YieldResult, ResumeAfterReport, BatchDrained, CancelQueued, SetStopEvent, CancelAll,
      Finish, LeaveProcess, NotifyCancelled, Spawn, SpawnFails, CheckStop, ChildReaped,
      PollExpires, LeaderIsGone, Escalate, WorkerReturns, DeadlinePasses, HelperObeys,
      GroupKilled, Interrupt, InterruptShutdown, ReportFails, LeaderExits, HelperStarts,
      HelperExits, TypeOK, Units, vars, mainVars
  <2>2. BusyWorkers' \subseteq BusyWorkers
    BY <2>1 DEF BusyWorkers
  <2> QED
    BY <1>1, <2>2, FS_Subset, FS_CardinalityType DEF PoolInv
<1> QED
  BY <1>2, <1>3

\* The initial state satisfies the inductive invariant.
LEMMA InitIInv == Init => IInv
<1> SUFFICES ASSUME Init PROVE IInv
  OBVIOUS
<1> USE RunnerAssumption DEF Init, Units
<1>1. TypeOK
  <2>1. nextUnit \in 1..(NumUnits + 1) /\ slots \in Nat /\ interrupts \in 0..MaxInterrupts
    OBVIOUS
  <2> QED
    BY <2>1 DEF TypeOK, NoUnit, FutureStates, Verdicts, Running, Interrupted
<1>2. WorkerInv /\ CauseInv
  BY DEF WorkerInv, CauseInv
<1>3. AccountInv
  BY DEF AccountInv, NoUnit
<1>4. PhaseInv /\ RefillInv /\ ShutdownInv /\ FailFastInv
  BY DEF PhaseInv, RefillInv, ShutdownInv, FailFastInv, Running
<1>5. PoolInv
  <2>1. BusyWorkers = {}
    BY DEF BusyWorkers
  <2> QED
    BY <2>1, FS_EmptySet DEF PoolInv
<1>6. ExitZeroMeansAllPassed
  BY DEF ExitZeroMeansAllPassed, Running
<1> QED
  BY <1>1, <1>2, <1>3, <1>4, <1>5, <1>6 DEF IInv

\* Every step preserves the inductive invariant.
LEMMA StepIInv == IInv /\ [Next]_vars => IInv'
BY TypeStep, WorkerStepInv, CauseStep, AccountStep, PhaseStep, RefillStep, ShutdownStep,
   FailFastStep, PoolStep, ExitZeroStep DEF IInv

\* The driver's inductive invariant holds in every reachable state.
THEOREM Invariance == SafetySpec => []IInv
BY InitIInv, StepIInv, PTL DEF SafetySpec

\* Type correctness of the driver.
THEOREM TypeCorrect == SafetySpec => []TypeOK
<1>1. IInv => TypeOK
  BY DEF IInv
<1> QED
  BY <1>1, Invariance, PTL

\* Exit status 0 is given only when each selected unit was reported with
\* status 0 by an analyzer that really ended, for any number of units and jobs.
THEOREM ExitZeroIsHonest == SafetySpec => []ExitZeroMeansAllPassed
<1>1. IInv => ExitZeroMeansAllPassed
  BY DEF IInv
<1> QED
  BY <1>1, Invariance, PTL

\* The number of live analyzers never exceeds --jobs.
THEOREM FrontendsAreBounded == SafetySpec => []BoundedFrontends
<1>1. ASSUME IInv PROVE BoundedFrontends
  <2> DEFINE Alive == {u \in Units : leader[u] = "alive"}
  <2>1. Alive \subseteq BusyWorkers
    BY <1>1 DEF IInv, WorkerInv, BusyWorkers
  <2>2. IsFiniteSet(BusyWorkers)
    BY BusyIsFinite
  <2>3. Cardinality(Alive) <= Cardinality(BusyWorkers)
    BY <2>1, <2>2, FS_Subset
  <2>4. Cardinality(Alive) \in Nat /\ Cardinality(BusyWorkers) \in Nat
    BY <2>1, <2>2, FS_Subset, FS_CardinalityType
  <2> QED
    BY <1>1, <2>3, <2>4, RunnerAssumption DEF IInv, PoolInv, BoundedFrontends
<1> QED
  BY <1>1, Invariance, PTL

\* However the run ends, no analyzer is left alive behind it.
THEOREM NoAnalyzerIsLeft == SafetySpec => []NoAnalyzerOutlivesRun
<1>1. IInv => NoAnalyzerOutlivesRun
  BY DEF IInv, NoAnalyzerOutlivesRun, PhaseInv, WorkerInv
<1> QED
  BY <1>1, Invariance, PTL

\* No reported verdict comes from an analyzer that Ctrl-C cut short.
THEOREM ReportsAreComplete == SafetySpec => []NoCutShortVerdictReported
<1> DEFINE J == IInv /\ NoCutShortVerdictReported
<1>1. Init => J
  BY InitIInv DEF Init, NoCutShortVerdictReported
<1>2. J /\ [Next]_vars => J'
  <2> SUFFICES ASSUME J, [Next]_vars PROVE NoCutShortVerdictReported'
    BY StepIInv
  <2>1. ASSUME NEW u \in Units, YieldResult(u) PROVE NoCutShortVerdictReported'
    BY <2>1 DEF YieldResult, NoCutShortVerdictReported, IInv, CauseInv, PhaseInv, workerVars
  <2>2. CASE ~\E u \in Units : YieldResult(u)
    <3>1. reported' = reported
      BY <2>2 DEF Next, MainStep, WorkerStep, KernelStep, ProcessStep, Environment,
        Terminated, SubmitNext, Submitted, FirstCompleted, NothingPending, SkipCancelled,
        ResumeAfterReport, BatchDrained, SetStopEvent, CancelAll, Finish, LeaveProcess,
        StartWork, NotifyCancelled, Spawn, SpawnFails, CheckStop, ChildReaped,
        PollExpires, LeaderIsGone, Escalate, WorkerReturns, DeadlinePasses, HelperObeys,
        GroupKilled, Interrupt, InterruptShutdown, ReportFails, LeaderExits, HelperStarts,
        HelperExits, vars, mainVars
    <3>2. \A v \in reported : future[v] = "finished" /\ workerAt[v] = "idle" /\ v \in Units
      BY DEF IInv, AccountInv, WorkerInv, TypeOK, Units
    <3>3. \A v \in reported : verdict'[v] = verdict[v]
      BY <3>2 DEF Next, MainStep, WorkerStep, KernelStep, ProcessStep, Environment,
        Terminated, SubmitNext, Submitted, FirstCompleted, NothingPending, SkipCancelled,
        YieldResult, ResumeAfterReport, BatchDrained, SetStopEvent, CancelAll, Finish,
        LeaveProcess, StartWork, NotifyCancelled, Spawn, SpawnFails, Settle, CheckStop,
        ChildReaped, PollExpires, LeaderIsGone, Escalate, WorkerReturns, DeadlinePasses,
        HelperObeys, GroupKilled, Interrupt, InterruptShutdown, ReportFails, LeaderExits,
        HelperStarts, HelperExits, vars, workerVars, IInv, TypeOK
    <3> QED
      BY <3>1, <3>3 DEF NoCutShortVerdictReported
  <2> QED
    BY <2>1, <2>2
<1> QED
  BY <1>1, <1>2, PTL DEF SafetySpec

\* --fail-fast never signals a running analyzer on its own account.
THEOREM SignalsHaveACause == SafetySpec => []SignalledForCause
<1>1. IInv => SignalledForCause
  BY DEF IInv, SignalledForCause, CauseInv, PhaseInv, TypeOK
<1> QED
  BY <1>1, Invariance, PTL

\* After a reported failure --fail-fast submits nothing more, whatever the
\* results that were already waiting in the same batch.
THEOREM FailFastIsFinal == SafetySpec => FailFastStopsSubmitting
<1>1. IInv /\ [Next]_vars =>
       [FailFast /\ mainAt # "report" /\ (\E u \in reported : verdict[u] # "ok")
          => nextUnit' = nextUnit]_vars
  <2> SUFFICES ASSUME IInv, [Next]_vars, FailFast, mainAt # "report",
                      \E u \in reported : verdict[u] # "ok"
               PROVE  nextUnit' = nextUnit
    BY DEF vars, mainVars
  <2>1. mainAt # "fill"
    BY DEF IInv, FailFastInv, PhaseInv
  <2> QED
    BY <2>1 DEF Next, MainStep, WorkerStep, KernelStep, ProcessStep, Environment,
      Terminated, SubmitNext, Submitted, FirstCompleted, NothingPending, SkipCancelled,
      YieldResult, ResumeAfterReport, BatchDrained, SetStopEvent, CancelAll, Finish,
      LeaveProcess, StartWork, NotifyCancelled, Spawn, SpawnFails, CheckStop,
      ChildReaped, PollExpires, LeaderIsGone, Escalate, WorkerReturns, DeadlinePasses,
      HelperObeys, GroupKilled, Interrupt, InterruptShutdown, ReportFails, LeaderExits,
      HelperStarts, HelperExits, vars, mainVars
<1> QED
  BY <1>1, Invariance, PTL DEF SafetySpec, FailFastStopsSubmitting

\* With one Ctrl-C at most and no failure while reporting, the output directory
\* is removed only when every worker is done with it.
THEOREM OutputDirIsSafe ==
  ASSUME MaxInterrupts <= 1, ~ReportFaults
  PROVE  SafetySpec => []OutputDirOutlivesWorkers
<1> DEFINE AllDone == ~tempDir => \A u \in Units : future[u] \notin {"queued", "running"}
           J == IInv /\ AllDone
<1>1. Init => J
  BY InitIInv DEF Init
<1>2. J /\ [Next]_vars => J'
  <2> SUFFICES ASSUME J, [Next]_vars PROVE AllDone'
    BY StepIInv
  <2>1. CASE Finish
    <3>1. CASE stopEvent
      BY <2>1, <3>1 DEF Finish, NoRunningWorker, IInv, PhaseInv
    <3>2. CASE ~stopEvent
      BY <2>1, <3>2 DEF Finish, NoRunningWorker, IInv, AccountInv, ShutdownInv
    <3> QED
      BY <3>1, <3>2
  <2>2. CASE InterruptShutdown
    <3>1. ~stopEvent
      BY <2>2, RunnerAssumption DEF InterruptShutdown, IInv, PhaseInv, TypeOK
    <3> QED
      BY <2>2, <3>1 DEF InterruptShutdown, IInv, ShutdownInv, AccountInv
  <2>3. CASE SubmitNext
    BY <2>3 DEF SubmitNext, IInv, PhaseInv
  <2>4. CASE UNCHANGED vars
    BY <2>4 DEF vars, mainVars
  <2>5. CASE Next /\ ~Finish /\ ~InterruptShutdown /\ ~SubmitNext
    <3>1. tempDir' = tempDir
      BY <2>5 DEF Next, MainStep, WorkerStep, KernelStep, ProcessStep, Environment,
        Terminated, Submitted, FirstCompleted, NothingPending, SkipCancelled,
        YieldResult, ResumeAfterReport, BatchDrained, SetStopEvent, CancelAll,
        LeaveProcess, StartWork, NotifyCancelled, Spawn, SpawnFails, CheckStop,
        ChildReaped, PollExpires, LeaderIsGone, Escalate, WorkerReturns, DeadlinePasses,
        HelperObeys, GroupKilled, Interrupt, ReportFails, LeaderExits, HelperStarts,
        HelperExits, vars, mainVars
    <3>2. ASSUME NEW v \in Units, future[v] \notin {"queued", "running"}
          PROVE  future'[v] \notin {"queued", "running"}
      BY <2>5, <3>2 DEF Next, MainStep, WorkerStep, KernelStep, ProcessStep, Environment,
        Terminated, Submitted, FirstCompleted, NothingPending, SkipCancelled,
        YieldResult, ResumeAfterReport, BatchDrained, CancelQueued, SetStopEvent,
        CancelAll, LeaveProcess, StartWork, NotifyCancelled, Spawn, SpawnFails,
        CheckStop, ChildReaped, PollExpires, LeaderIsGone, Escalate, WorkerReturns,
        DeadlinePasses, HelperObeys, GroupKilled, Interrupt, ReportFails, LeaderExits,
        HelperStarts, HelperExits, vars, mainVars, IInv, TypeOK
    <3> QED
      BY <3>1, <3>2
  <2> QED
    BY <2>1, <2>2, <2>3, <2>4, <2>5
<1>3. J => OutputDirOutlivesWorkers
  BY DEF OutputDirOutlivesWorkers, NoRunningWorker
<1> QED
  BY <1>1, <1>2, <1>3, PTL DEF SafetySpec

-----------------------------------------------------------------------------
\* The driver implements BatchContract.

\* A step that decides no exit status and moves units, if any, only from
\* unreported to abandoned is the contract's Abandon.
LEMMA AbandonOrStutter ==
  ASSUME mainAt # "exited", mainAt' # "exited",
         \A u \in Units : \/ UnitStatus(u)' = UnitStatus(u)
                          \/ /\ UnitStatus(u)' = "abandoned"
                             /\ UnitStatus(u) \notin {"passed", "failed"}
  PROVE  Contract!Abandon
<1> DEFINE St == [u \in Units |-> UnitStatus(u)]
           dropped == {u \in Units : UnitStatus(u)' # UnitStatus(u)}
<1>1. dropped \in SUBSET {u \in Units : St[u] \notin {"passed", "failed"}}
  OBVIOUS
<1>2. St' = [u \in Units |-> IF u \in dropped THEN "abandoned" ELSE St[u]]
  OBVIOUS
<1> QED
  BY <1>1, <1>2 DEF Contract!Abandon, Contract!Reported, Contract!Passed, Contract!Failed,
    Contract!Running, Running

\* Only an uncaught error while reporting leaves main with another status.
LeaveInv == mainAt = "leave" => exitCode = Interrupted

LEMMA LeaveStep == ~ReportFaults /\ LeaveInv /\ [Next]_vars => LeaveInv'
BY DEF LeaveInv, Next, MainStep, WorkerStep, KernelStep, ProcessStep, Environment,
   Terminated, SubmitNext, Submitted, FirstCompleted, NothingPending, SkipCancelled,
   YieldResult, ResumeAfterReport, BatchDrained, SetStopEvent, CancelAll, Finish,
   LeaveProcess, StartWork, NotifyCancelled, Spawn, SpawnFails, CheckStop, ChildReaped,
   PollExpires, LeaderIsGone, Escalate, WorkerReturns, DeadlinePasses, HelperObeys,
   GroupKilled, Interrupt, InterruptShutdown, ReportFails, LeaderExits, HelperStarts,
   HelperExits, vars, mainVars

\* One step of the driver is one step of the contract, or none.
LEMMA StepRefines ==
  ASSUME ~ReportFaults, IInv, IInv', LeaveInv, [Next]_vars
  PROVE  [Contract!Next]_(Contract!vars)
<1> USE DEF UnitStatus, Ending
<1> DEFINE Kept == \A u \in Units : UnitStatus(u)' = UnitStatus(u)
           Weaker == \A u \in Units : \/ UnitStatus(u)' = UnitStatus(u)
                                      \/ /\ UnitStatus(u)' = "abandoned"
                                         /\ UnitStatus(u) \notin {"passed", "failed"}
           St == [u \in Units |-> UnitStatus(u)]
<1>a. ASSUME Weaker, mainAt # "exited", mainAt' # "exited" PROVE Contract!Next
  BY <1>a, AbandonOrStutter DEF Contract!Next
<1>1. CASE SubmitNext
  <2>1. PICK u \in Units : u = nextUnit
    BY <1>1 DEF SubmitNext
  <2>2. future[u] = "none" /\ u \notin reported
    BY <2>1 DEF IInv, AccountInv, Units
  <2>3. St[u] = "waiting" /\ UnitStatus(u)' = "active"
    BY <1>1, <2>1, <2>2 DEF SubmitNext, IInv, TypeOK, Units
  <2>4. \A v \in Units : v # u => UnitStatus(v)' = UnitStatus(v)
    BY <1>1, <2>1 DEF SubmitNext, IInv, TypeOK, Units, workerVars
  <2>5. St' = [St EXCEPT ![u] = "active"]
    BY <2>3, <2>4
  <2>6. Contract!Start(u)
    BY <1>1, <2>3, <2>5 DEF SubmitNext, Contract!Start, Contract!Running, Running
  <2> QED
    BY <2>6 DEF Contract!Next
<1>2. ASSUME NEW u \in Units, YieldResult(u) PROVE Contract!Next
  <2>1. u \notin reported /\ future[u] = "finished" /\ u < nextUnit
    BY <1>2 DEF YieldResult, IInv, AccountInv
  <2>2. St[u] = "active" /\ UnitStatus(u)' \in {"passed", "failed"}
    BY <1>2, <2>1 DEF YieldResult, IInv, TypeOK, Units
  <2>3. \A v \in Units : v # u => UnitStatus(v)' = UnitStatus(v)
    BY <1>2 DEF YieldResult, workerVars
  <2>4. St' = [St EXCEPT ![u] = UnitStatus(u)']
    BY <2>3
  <2>5. Contract!Report(u)
    BY <1>2, <2>2, <2>4 DEF YieldResult, Contract!Report, Contract!Running, Running,
      Contract!Reported, Contract!Passed, Contract!Failed
  <2> QED
    BY <2>5 DEF Contract!Next
<1>3. ASSUME Kept, mainAt # "exited", mainAt' # "exited" PROVE UNCHANGED Contract!vars
  BY <1>3 DEF Contract!vars
<1>4. CASE \/ Submitted \/ FirstCompleted \/ ResumeAfterReport
          \/ SetStopEvent \/ CancelAll \/ InterruptShutdown
          \/ \E u \in Units : SkipCancelled(u)
  <2>1. mainAt # "exited" /\ mainAt' # "exited"
    BY <1>4 DEF Submitted, FirstCompleted, ResumeAfterReport, SetStopEvent, CancelAll,
      InterruptShutdown, SkipCancelled
  <2>2. Kept
    BY <1>4 DEF Submitted, FirstCompleted, ResumeAfterReport, SetStopEvent, CancelAll,
      CancelQueued, InterruptShutdown, SkipCancelled, workerVars
  <2> QED
    BY <1>3, <2>1, <2>2
<1>5. CASE NothingPending \/ BatchDrained \/ Interrupt
  <2>1. mainAt # "exited" /\ mainAt' # "exited"
    BY <1>5 DEF NothingPending, BatchDrained, Interrupt
  <2>2. Weaker
    BY <1>5 DEF NothingPending, BatchDrained, CancelQueued, Interrupt, workerVars, IInv, TypeOK
  <2> QED
    BY <1>a, <2>1, <2>2
<1>6. CASE Finish \/ LeaveProcess
  <2>1. Kept /\ mainAt # "exited" /\ mainAt' = "exited"
    BY <1>6 DEF Finish, LeaveProcess, workerVars
  <2>2. \A u \in Units : St[u] # "active"
    BY <1>6 DEF Finish, LeaveProcess
  <2>3. exitCode' \in {0, 1, 130}
    BY <1>6 DEF Finish, LeaveProcess, LeaveInv, Interrupted
  <2>4. exitCode' = 0 => \A u \in Units : St[u] = "passed"
    <3>1. exitCode' = 0 => reported' = Units /\ \A u \in Units : verdict'[u] = "ok"
      BY DEF IInv, ExitZeroMeansAllPassed
    <3>2. reported' = reported /\ verdict' = verdict
      BY <1>6 DEF Finish, LeaveProcess, workerVars
    <3> QED
      BY <3>1, <3>2
  <2>5. exitCode' = 1 => \E u \in Units : St[u] = "failed"
    BY <1>6 DEF Finish, LeaveProcess, LeaveInv, Interrupted, IInv, TypeOK
  <2>6. Contract!Exit(exitCode')
    BY <2>1, <2>2, <2>4, <2>5 DEF Contract!Exit, Contract!Running, Contract!Passed,
      Contract!Failed, Running
  <2> QED
    BY <2>3, <2>6 DEF Contract!Next
<1>7. CASE \/ Terminated \/ UNCHANGED vars
  BY <1>7 DEF Terminated, vars, mainVars, workerVars, Contract!vars
<1>8. ASSUME NEW u \in Units,
             WorkerStep(u) \/ DeadlinePasses(u) \/ KernelStep(u) \/ ProcessStep(u)
      PROVE  UNCHANGED Contract!vars
  <2>1. UNCHANGED mainVars
    BY <1>8 DEF WorkerStep, KernelStep, ProcessStep, StartWork, NotifyCancelled, Spawn,
      SpawnFails, CheckStop, ChildReaped, PollExpires, LeaderIsGone, Escalate,
      WorkerReturns, DeadlinePasses, HelperObeys, GroupKilled, LeaderExits, HelperStarts,
      HelperExits
  <2>2. \A v \in Units : (future'[v] \in {"cancelled", "notified"})
                          <=> (future[v] \in {"cancelled", "notified"})
    BY <1>8 DEF WorkerStep, KernelStep, ProcessStep, StartWork, NotifyCancelled, Spawn,
      SpawnFails, CheckStop, ChildReaped, PollExpires, LeaderIsGone, Escalate,
      WorkerReturns, DeadlinePasses, HelperObeys, GroupKilled, LeaderExits, HelperStarts,
      HelperExits, IInv, WorkerInv, TypeOK
  <2>3. \A v \in reported : future[v] = "finished" /\ workerAt[v] = "idle" /\ v \in Units
    BY DEF IInv, AccountInv, WorkerInv, TypeOK, Units
  <2>4. \A v \in reported : verdict'[v] = verdict[v]
    BY <1>8, <2>3 DEF WorkerStep, KernelStep, ProcessStep, StartWork, NotifyCancelled,
      Spawn, SpawnFails, Settle, CheckStop, ChildReaped, PollExpires, LeaderIsGone,
      Escalate, WorkerReturns, DeadlinePasses, HelperObeys, GroupKilled, LeaderExits,
      HelperStarts, HelperExits, workerVars, IInv, TypeOK
  <2>5. Kept
    BY <2>1, <2>2, <2>4 DEF mainVars
  <2> QED
    BY <2>1, <2>5 DEF mainVars, Contract!vars
<1> QED
  <2>1. CASE ReportFails
    BY <2>1 DEF ReportFails
  <2> QED
    BY <2>1, <1>1, <1>2, <1>4, <1>5, <1>6, <1>7, <1>8
    DEF Next, MainStep, Environment

\* Unless copying a log fails, the driver keeps the contract of BatchContract.
THEOREM RunnerKeepsContract ==
  ASSUME ~ReportFaults
  PROVE  SafetySpec => ImplementsContract
<1>1. Init => Contract!Init /\ LeaveInv
  BY RunnerAssumption DEF Init, Contract!Init, Contract!Running, Running, UnitStatus, Ending,
    Units, LeaveInv
<1>2. IInv /\ IInv' /\ LeaveInv /\ [Next]_vars => [Contract!Next]_(Contract!vars)
  BY StepRefines
<1>3. LeaveInv /\ [Next]_vars => LeaveInv'
  BY LeaveStep
<1> QED
  BY <1>1, <1>2, <1>3, Invariance, PTL DEF SafetySpec, ImplementsContract, Contract!Spec
=============================================================================

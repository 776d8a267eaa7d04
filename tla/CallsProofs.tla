----------------------------- MODULE CallsProofs -----------------------------
(***************************************************************************)
(* CallVerdicts: below every path, the verdict on a call fits what becomes *)
(* of its value, and transfers that may be short are reported.             *)
(* ReturnDomains: for every program, a finite domain holds every value the *)
(* function may return, and the order of the questions does not matter.    *)
(*                                                                         *)
(* A search meets itself in circles, and what it answers there is not what *)
(* it would find.  For soundness it is enough that each answer holds in    *)
(* every context the program may run in (HoldInv), not only in the one it  *)
(* has run in so far.  For the order, the program alone determines a       *)
(* domain for every operand (Determined), where circles are cut wherever a *)
(* search may cut them; outside unsteady circles a search finds no other.  *)
(***************************************************************************)
EXTENDS CallVerdicts, ReturnDomains, FiniteSetTheorems, WellFoundedInduction, TLAPS

\* Induction: a set of numbers that has 0 and the successor of each is all of Nat.
LEMMA NatSetInduction ==
  ASSUME NEW T \in SUBSET Nat, 0 \in T, \A n \in T : n + 1 \in T
  PROVE  T = Nat
<1> SUFFICES ASSUME Nat \ T # {} PROVE FALSE
  OBVIOUS
<1>1. PICK n \in Nat \ T : \A m \in Nat \ T : ~(<<m, n>> \in OpToRel(<, Nat))
  BY NatLessThanWellFounded, WFMin
<1>2. n # 0 /\ n - 1 \in Nat /\ n = (n - 1) + 1
  OBVIOUS
<1>3. n - 1 \in Nat \ T
  BY <1>2
<1>4. <<n - 1, n>> \in OpToRel(<, Nat)
  BY <1>2 DEF OpToRel
<1> QED BY <1>1, <1>3, <1>4

-----------------------------------------------------------------------------
\* CallVerdicts: what the nodes above a call do with its value.

\* The fates that the node at place k adds to those further up.
FateAt(path, k, above) ==
  IF k > Len(path) THEN {"discarded"}
  ELSE CASE path[k] \in {"if", "loop", "switch", "choice"} -> {"tested"}
         [] path[k] = "logical left" -> {"tested"} \cup above
         [] path[k] \in {"assign", "assign member"} -> {"stored"} \cup above
         [] path[k] = "init" -> {"stored"}
         [] path[k] = "return" -> {"returned"}
         [] path[k] = "void" -> {"dismissed"} \cup above
         [] path[k] = "operand" -> {"passed"}
         [] path[k] \in {"compound", "body", "comma left"} -> {"discarded"}
         [] OTHER -> above

\* The recursive function of FatesOf has a value at every place.
LEMMA FateLaw ==
  ASSUME NEW path \in Seq(Nodes)
  PROVE  \E f : /\ FatesOf(path) = f[1]
                /\ \A k \in 1..(Len(path) + 1) : f[k] = FateAt(path, k, f[k + 1])
<1> DEFINE N == Len(path)
           Solves(m, f) == f = [k \in (N + 1 - m)..(N + 1) |-> FateAt(path, k, f[k + 1])]
           T == {m \in Nat : \E f : Solves(m, f)}
<1>1. 0 \in T
  <2> DEFINE f == [k \in (N + 1 - 0)..(N + 1) |-> {"discarded"}]
  <2>1. f = [k \in (N + 1 - 0)..(N + 1) |-> FateAt(path, k, f[k + 1])]
    <3>1. \A k \in (N + 1 - 0)..(N + 1) : k > Len(path)
      OBVIOUS
    <3>2. ASSUME NEW k \in (N + 1 - 0)..(N + 1), NEW a PROVE FateAt(path, k, a) = {"discarded"}
      BY <3>1 DEF FateAt
    <3> QED BY <3>2
  <2> HIDE DEF f
  <2> QED BY <2>1
<1>2. ASSUME NEW m \in T PROVE m + 1 \in T
  <2>1. m \in Nat
    OBVIOUS
  <2>2. PICK f : Solves(m, f)
    OBVIOUS
  <2> DEFINE first == N + 1 - (m + 1)
             g == [k \in first..(N + 1) |-> IF k = first THEN FateAt(path, first, f[first + 1]) ELSE f[k]]
  <2>3. ASSUME NEW k \in first..(N + 1) PROVE g[k] = FateAt(path, k, g[k + 1])
    <3>1. CASE k = first
      <4>1. k + 1 \in first..(N + 1) /\ k + 1 # first
        BY <2>1, <3>1
      <4>2. g[k + 1] = f[k + 1]
        BY <4>1
      <4> QED BY <3>1, <4>2
    <3>2. CASE k # first
      <4>1. k \in (N + 1 - m)..(N + 1)
        BY <2>1, <3>2
      <4>2. f[k] = FateAt(path, k, f[k + 1])
        BY <2>2, <4>1
      <4>3. CASE k = N + 1
        <5>1. k > Len(path)
          BY <4>3
        <5>2. FateAt(path, k, f[k + 1]) = FateAt(path, k, g[k + 1])
          BY <5>1 DEF FateAt
        <5> QED BY <3>2, <4>2, <5>2
      <4>4. CASE k # N + 1
        <5>1. k + 1 \in first..(N + 1) /\ k + 1 # first
          BY <2>1, <3>2, <4>4
        <5>2. g[k + 1] = f[k + 1]
          BY <5>1
        <5> QED BY <3>2, <4>2, <5>2
      <4> QED BY <4>3, <4>4
    <3> QED BY <3>1, <3>2
  <2>4. Solves(m + 1, g)
    <3>1. g = [k \in first..(N + 1) |-> g[k]]
      OBVIOUS
    <3> HIDE DEF g
    <3> QED BY <2>3, <3>1
  <2> HIDE DEF g, Solves
  <2> QED BY <2>1, <2>4
<1>3. T = Nat
  <2> HIDE DEF T
  <2>1. T \in SUBSET Nat
    BY DEF T
  <2> QED BY <1>1, <1>2, <2>1, NatSetInduction
<1>4. N \in Nat /\ N + 1 - N = 1
  OBVIOUS
<1> DEFINE fate == CHOOSE f : f = [k \in 1..(N + 1) |-> FateAt(path, k, f[k + 1])]
<1>5. FatesOf(path) = fate[1]
  BY DEF FatesOf, FateAt
<1>6. \E f : f = [k \in 1..(N + 1) |-> FateAt(path, k, f[k + 1])]
  <2>1. PICK f : Solves(N, f)
    BY <1>3, <1>4
  <2> QED BY <1>4, <2>1
<1>7. fate = [k \in 1..(N + 1) |-> FateAt(path, k, fate[k + 1])]
  BY <1>6
<1> HIDE DEF fate
<1> QED BY <1>5, <1>7
LEMMA LeastElement ==
  ASSUME NEW S \in SUBSET Nat, S # {}
  PROVE  \E n \in S : \A m \in S : n <= m
<1>1. PICK n \in S : \A m \in S : ~(<<m, n>> \in OpToRel(<, Nat))
  BY NatLessThanWellFounded, WFMin
<1>2. ASSUME NEW m \in S PROVE n <= m
  <2>1. m \in Nat /\ n \in Nat
    OBVIOUS
  <2>2. ~(<<m, n>> \in OpToRel(<, Nat))
    BY <1>1
  <2>3. ~(m < n)
    BY <2>1, <2>2 DEF OpToRel
  <2> QED BY <2>1, <2>3
<1> QED BY <1>2

\* The nodes that hand the value on to the next one.
Passing ==
  Nodes \ {"if", "loop", "switch", "choice", "init", "return", "operand", "compound", "body",
           "comma left"}

LEMMA FatesFromAbove ==
  ASSUME NEW path \in Seq(Nodes), NEW f,
         \A k \in 1..(Len(path) + 1) : f[k] = FateAt(path, k, f[k + 1]),
         NEW k \in DOMAIN path, Below(path, k, Passing)
  PROVE  f[k] \subseteq f[1]
<1> DEFINE T == {m \in Nat : m < k => f[k] \subseteq f[k - m]}
<1>1. k \in Nat \ {0} /\ k <= Len(path) /\ Len(path) \in Nat /\ DOMAIN path = 1..Len(path)
  OBVIOUS
<1>2. 0 \in T
  BY <1>1
<1>3. ASSUME NEW m \in T PROVE m + 1 \in T
  <2> SUFFICES ASSUME m + 1 < k PROVE f[k] \subseteq f[k - (m + 1)]
    OBVIOUS
  <2> DEFINE j == k - (m + 1)
  <2>1. m \in Nat /\ j \in 1..(k - 1) /\ j + 1 = k - m /\ j \in 1..Len(path) /\ j \in 1..(Len(path) + 1)
    BY <1>1
  <2>2. path[j] \in Passing /\ f[k] \subseteq f[j + 1] /\ f[j] = FateAt(path, j, f[j + 1])
    BY <1>1, <2>1 DEF Below
  <2>3. ~(j > Len(path))
    BY <1>1, <2>1
  <2> HIDE DEF j
  <2>4. f[j + 1] \subseteq f[j]
    BY <2>2, <2>3 DEF FateAt, Passing, Nodes
  <2> QED BY <2>2, <2>4 DEF j
<1>4. T = Nat
  <2> HIDE DEF T
  <2>1. T \in SUBSET Nat
    BY DEF T
  <2> QED BY <1>2, <1>3, <2>1, NatSetInduction
<1>5. k - 1 \in Nat /\ k - 1 < k /\ k - (k - 1) = 1
  BY <1>1
<1> QED BY <1>4, <1>5

\* What a node does with a value that reaches it.
LEMMA FateReached ==
  ASSUME NEW path \in Seq(Nodes), NEW k \in DOMAIN path, Below(path, k, Passing)
  PROVE  /\ path[k] \in {"if", "loop", "switch", "choice"} => "tested" \in FatesOf(path)
         /\ path[k] \in {"assign", "init"} => "stored" \in FatesOf(path)
         /\ path[k] = "return" => "returned" \in FatesOf(path)
         /\ path[k] = "void" => "dismissed" \in FatesOf(path)
<1>1. PICK f : /\ FatesOf(path) = f[1]
               /\ \A i \in 1..(Len(path) + 1) : f[i] = FateAt(path, i, f[i + 1])
  BY FateLaw
<1>2. f[k] \subseteq f[1]
  BY <1>1, FatesFromAbove
<1>3. k \in 1..(Len(path) + 1) /\ ~(k > Len(path))
  OBVIOUS
<1>4. f[k] = FateAt(path, k, f[k + 1])
  BY <1>1, <1>3
<1> QED BY <1>1, <1>2, <1>3, <1>4 DEF FateAt

\* A test is reached through other tests, too: the first one tests the value.
LEMMA FirstTest ==
  ASSUME NEW path \in Seq(Nodes), NEW k \in DOMAIN path,
         path[k] \in {"if", "loop", "switch", "choice"},
         Below(path, k, Passing \cup {"choice"})
  PROVE  "tested" \in FatesOf(path)
<1> DEFINE S == {j \in DOMAIN path : j <= k /\ path[j] \in {"if", "loop", "switch", "choice"}}
<1>1. k \in S /\ S \in SUBSET Nat
  OBVIOUS
<1>2. PICK n \in S : \A m \in S : n <= m
  <2> HIDE DEF S
  <2> QED BY <1>1, LeastElement
<1>3. Below(path, n, Passing)
  <2> SUFFICES ASSUME NEW j \in 1..(n - 1) PROVE path[j] \in Passing
    BY DEF Below
  <2>1. j \in DOMAIN path /\ j \in 1..(k - 1) /\ ~(n <= j)
    OBVIOUS
  <2>2. j \notin S
    BY <1>2, <2>1
  <2>3. path[j] # "choice"
    BY <2>1, <2>2
  <2> QED BY <2>1, <2>3 DEF Below
<1>4. n \in DOMAIN path /\ path[n] \in {"if", "loop", "switch", "choice"}
  OBVIOUS
<1> QED BY <1>3, <1>4, FateReached

LEMMA PlaceFacts ==
  ASSUME NEW path \in Seq(Nodes), NEW k \in DOMAIN path
  PROVE  /\ k \in Nat \ {0} /\ k <= Len(path) /\ Len(path) \in Nat /\ DOMAIN path = 1..Len(path)
         /\ k - 0 = k /\ k - 1 \in Nat /\ k - 1 < k /\ k - (k - 1) = 1
         /\ ~(k > Len(path)) /\ k \in 1..(Len(path) + 1)
         /\ \A m \in Nat :
              m + 1 < k =>
                /\ m < k /\ (k - (m + 1)) + 1 = k - m /\ k - (m + 1) \in 1..(k - 1)
                /\ k - (m + 1) \in 1..(Len(path) + 1) /\ ~(k - (m + 1) > Len(path))
OBVIOUS

\* A value that only goes through parentheses and casts to the end of a
\* statement is looked at by nothing.
LEMMA NothingLooks ==
  ASSUME NEW path \in Seq(Nodes), NEW k \in DOMAIN path, path[k] \in {"compound", "comma left"},
         Below(path, k, Transparent \cup {"comma right"})
  PROVE  FatesOf(path) \subseteq {"dismissed", "discarded"}
<1>1. PICK f : /\ FatesOf(path) = f[1]
               /\ \A i \in 1..(Len(path) + 1) : f[i] = FateAt(path, i, f[i + 1])
  BY FateLaw
<1> DEFINE T == {m \in Nat : m < k => f[k - m] \subseteq {"dismissed", "discarded"}}
<1>3. 0 \in T
  <2>1. f[k] = FateAt(path, k, f[k + 1]) /\ ~(k > Len(path)) /\ k - 0 = k
    BY <1>1, PlaceFacts
  <2>2. f[k] \subseteq {"dismissed", "discarded"}
    BY <2>1 DEF FateAt
  <2> QED BY <2>1, <2>2
<1>4. ASSUME NEW m \in T PROVE m + 1 \in T
  <2> DEFINE j == k - (m + 1)
  <2>1. m \in Nat /\ (m < k => f[k - m] \subseteq {"dismissed", "discarded"})
    OBVIOUS
  <2>2. ASSUME m + 1 < k PROVE f[j] \subseteq {"dismissed", "discarded"}
    <3>1. /\ m < k /\ j \in 1..(k - 1) /\ j + 1 = k - m
          /\ j \in 1..(Len(path) + 1) /\ ~(j > Len(path))
      BY <2>1, <2>2, PlaceFacts
    <3>2. /\ path[j] \in Transparent \cup {"comma right"} /\ f[j + 1] \subseteq {"dismissed", "discarded"}
          /\ f[j] = FateAt(path, j, f[j + 1])
      BY <1>1, <2>1, <3>1 DEF Below
    <3> HIDE DEF j
    <3> QED BY <3>1, <3>2 DEF FateAt, Transparent
  <2>3. m + 1 \in Nat
    <3>1. m \in Nat
      BY <2>1
    <3> QED BY ONLY <3>1
  <2> QED BY <2>2, <2>3
<1>5. T = Nat
  <2> HIDE DEF T
  <2>1. T \in SUBSET Nat
    BY DEF T
  <2> QED BY <1>3, <1>4, <2>1, NatSetInduction
<1> HIDE DEF T
<1>2. k - (k - 1) = 1
  BY PlaceFacts
<1>6. k - 1 \in T
  BY <1>5, PlaceFacts
<1>7. f[k - (k - 1)] \subseteq {"dismissed", "discarded"}
  BY <1>6, PlaceFacts DEF T
<1>8. f[1] \subseteq {"dismissed", "discarded"}
  BY <1>2, <1>7
<1> QED BY <1>1, <1>8

-----------------------------------------------------------------------------
\* Climbs find exactly the first node that is not passed.

LEMMA ClimbEnds ==
  ASSUME call.path \in Seq(Nodes), NEW i, NEW carriers, NEW ends, NEW depth,
         ClimbFrom(i, carriers, ends, depth) # 0
  PROVE  \E k \in DOMAIN call.path :
           /\ k = ClimbFrom(i, carriers, ends, depth) /\ k > i /\ k <= depth /\ call.path[k] \in ends
           /\ \A j \in DOMAIN call.path : i < j /\ j < k => call.path[j] \in carriers \ ends
<1> DEFINE stops == {k \in DOMAIN call.path :
                       k > i /\ (call.path[k] \in ends \/ call.path[k] \notin carriers)}
           First(k) == \A j \in stops : k <= j
<1>1. PICK k \in stops : k <= depth /\ call.path[k] \in ends /\ First(k)
  BY DEF ClimbFrom
<1>2. ClimbFrom(i, carriers, ends, depth) = CHOOSE n \in stops : First(n)
  BY DEF ClimbFrom
<1>3. ASSUME NEW n \in stops, First(n) PROVE n = k
  <2>1. n <= k /\ k <= n /\ n \in Nat /\ k \in Nat
    BY <1>1, <1>3
  <2> QED BY <2>1
<1>4. ClimbFrom(i, carriers, ends, depth) = k
  <2> HIDE DEF stops, First
  <2> QED BY <1>1, <1>2, <1>3
<1>5. ASSUME NEW j \in DOMAIN call.path, i < j, j < k PROVE call.path[j] \in carriers \ ends
  <2>1. j \notin stops
    <3>1. j \in Nat /\ k \in Nat /\ ~(k <= j)
      BY <1>5
    <3> QED BY <1>1, <3>1
  <2> QED BY <1>5, <2>1
<1> QED BY <1>1, <1>4, <1>5

LEMMA ClimbReaches ==
  ASSUME call.path \in Seq(Nodes), NEW i \in Nat, NEW carriers, NEW ends, NEW depth \in Nat,
         NEW k \in DOMAIN call.path, k > i, k <= depth, call.path[k] \in ends,
         \A j \in DOMAIN call.path : i < j /\ j < k => call.path[j] \in carriers \ ends
  PROVE  ClimbFrom(i, carriers, ends, depth) = k
<1> DEFINE stops == {n \in DOMAIN call.path :
                       n > i /\ (call.path[n] \in ends \/ call.path[n] \notin carriers)}
           First(n) == \A j \in stops : n <= j
<1>1. k \in stops /\ First(k)
  <2>1. ASSUME NEW j \in stops PROVE k <= j
    <3>1. j \in Nat /\ k \in Nat /\ ~(i < j /\ j < k)
      OBVIOUS
    <3> QED BY <3>1
  <2> QED BY <2>1
<1>2. ASSUME NEW n \in stops, First(n) PROVE n = k
  <2>1. n <= k /\ k <= n /\ n \in Nat /\ k \in Nat
    BY <1>1, <1>2
  <2> QED BY <2>1
<1>3. ClimbFrom(i, carriers, ends, depth) = CHOOSE n \in stops : First(n)
  BY <1>1 DEF ClimbFrom
<1> HIDE DEF stops, First
<1> QED BY <1>1, <1>2, <1>3

\* If there is a node to end at and only carriers below it, the climb finds one.
LEMMA ClimbFinds ==
  ASSUME call.path \in Seq(Nodes), NEW i \in Nat, NEW carriers, NEW ends, NEW depth \in Nat,
         NEW k \in DOMAIN call.path, k > i, k <= depth, call.path[k] \in ends,
         \A j \in DOMAIN call.path : i < j /\ j < k => call.path[j] \in carriers
  PROVE  ClimbFrom(i, carriers, ends, depth) # 0
<1> DEFINE S == {j \in DOMAIN call.path : i < j /\ j <= k /\ call.path[j] \in ends}
<1>1. k \in S /\ S \in SUBSET Nat
  OBVIOUS
<1>2. PICK n \in S : \A m \in S : n <= m
  <2> HIDE DEF S
  <2> QED BY <1>1, LeastElement
<1>3. n \in DOMAIN call.path /\ n > i /\ n <= depth /\ call.path[n] \in ends /\ n # 0
  OBVIOUS
<1>4. ASSUME NEW j \in DOMAIN call.path, i < j, j < n PROVE call.path[j] \in carriers \ ends
  <2>1. j < k /\ ~(n <= j) /\ j <= k
    BY <1>4
  <2>2. j \notin S
    BY <1>2, <2>1
  <2> QED BY <1>4, <2>1, <2>2
<1>5. ClimbFrom(i, carriers, ends, depth) = n
  <2> HIDE DEF S
  <2> QED BY <1>3, <1>4, ClimbReaches
<1> QED BY <1>3, <1>5
-----------------------------------------------------------------------------
\* What is known of the call that is analysed.
Analysed ==
  /\ Possible(call)
  /\ options.mode \in {"ignored-only", "practical", "strict"} /\ options.explicitVoid \in BOOLEAN

CallInv ==
  /\ Analysed
  /\ \/ handling.kind \in {"none", "skipped"}
     \/ handling = ClassifyCall /\ reported = ShouldReport(handling.kind, options.mode)

LEMMA CallInit == InitCall => CallInv
BY CallsAssumption, OptionsAssumption DEF InitCall, CallInv, Analysed, ResultOf

LEMMA CallStep == CallInv /\ [NextCall]_callVars => CallInv'
<1> SUFFICES ASSUME CallInv, [NextCall]_callVars PROVE CallInv'
  OBVIOUS
<1>1. CASE Skip
  <2>1. UNCHANGED <<call, options>> /\ handling'.kind = "skipped"
    BY <1>1 DEF Skip, ResultOf
  <2>2. Analysed'
    BY <2>1 DEF CallInv, Analysed
  <2> QED BY <2>1, <2>2 DEF CallInv
<1>2. CASE AnalyzeCall
  <2>1. call' = call /\ options' = options
    BY <1>2 DEF AnalyzeCall
  <2>2. handling' = ClassifyCall /\ reported' = ShouldReport(handling'.kind, options.mode)
    BY <1>2 DEF AnalyzeCall
  <2>3. Analysed'
    BY <2>1 DEF CallInv, Analysed
  <2>4. ClassifyCall' = ClassifyCall
    BY <2>1 DEF ClassifyCall, IsExplicitVoidDiscard, Climb, ClimbFrom, Assigned, AssignmentDecides,
                InCondition, ByteCountOr, Stored, VariableVerdict
  <2>5. ShouldReport(handling.kind, options.mode)' = ShouldReport(handling'.kind, options.mode)
    BY <2>1 DEF ShouldReport, Excused
  <2> QED BY <2>1, <2>2, <2>3, <2>4, <2>5 DEF CallInv
<1>3. CASE UNCHANGED callVars
  <2>1. call' = call /\ options' = options /\ handling' = handling /\ reported' = reported
    BY <1>3 DEF callVars
  <2>2. ClassifyCall' = ClassifyCall
    BY <2>1 DEF ClassifyCall, IsExplicitVoidDiscard, Climb, ClimbFrom, Assigned, AssignmentDecides,
                InCondition, ByteCountOr, Stored, VariableVerdict
  <2>3. ShouldReport(handling.kind, options.mode)' = ShouldReport(handling.kind, options.mode)
    BY <2>1 DEF ShouldReport, Excused
  <2> QED BY <2>1, <2>2, <2>3 DEF CallInv, Analysed
<1> QED BY <1>1, <1>2, <1>3 DEF NextCall

-----------------------------------------------------------------------------
\* Every verdict fits what becomes of the value.

LEMMA ByteCountKinds ==
  ASSUME NEW comparisons, NEW leaves, NEW otherwise
  PROVE  LET result == ByteCountOr(comparisons, leaves, otherwise)
         IN \/ result = otherwise
            \/ call.bytes.known /\ result.kind \in {"ExhaustivelyChecked", "PartiallyChecked"}
BY DEF ByteCountOr, ResultOf, ShortTransfer

\* Where the value is tested, and the verdict is about that test.
LEMMA TestedFits ==
  ASSUME "tested" \in Fates, handling.kind \in {"ExhaustivelyChecked", "PartiallyChecked"}
  PROVE  VerdictMatchesFate
BY DEF VerdictMatchesFate

LEMMA StoredFits ==
  ASSUME Possible(call), "stored" \in Fates, handling = Stored
  PROVE  VerdictMatchesFate
<1> DEFINE result == VariableVerdict
<1>1. \/ call.bytes.known /\ result.kind \in {"ExhaustivelyChecked", "PartiallyChecked"}
      \/ result.kind \in {"ExhaustivelyChecked", "PartiallyChecked", "Forwarded", "Consumed"}
      \/ result.kind = "Ignored" /\ call.search = "Ignored"
  <2>1. ResultOf(call.search).kind = call.search
    BY DEF ResultOf
  <2>2. \/ ByteCountOr(call.bytes.after, TRUE, ResultOf(call.search)) = ResultOf(call.search)
        \/ /\ call.bytes.known
           /\ ByteCountOr(call.bytes.after, TRUE, ResultOf(call.search)).kind
                \in {"ExhaustivelyChecked", "PartiallyChecked"}
    BY ByteCountKinds
  <2>3. CASE ~call.localVariable \/ ~call.inFunction
    BY <2>3 DEF VariableVerdict, ResultOf
  <2>4. CASE call.localVariable /\ call.inFunction
    <3>1. result = ByteCountOr(call.bytes.after, TRUE, ResultOf(call.search))
      BY <2>4 DEF VariableVerdict
    <3>2. call.search \in {"ExhaustivelyChecked", "PartiallyChecked", "Forwarded", "Consumed", "Ignored"}
      BY DEF Possible
    <3> HIDE DEF result
    <3> QED BY <2>1, <2>2, <3>1, <3>2
  <2> QED BY <2>3, <2>4
<1> HIDE DEF result
<1>5. result.short => result.kind = "PartiallyChecked"
  BY DEF result, VariableVerdict, ByteCountOr, ResultOf, ShortTransfer
<1>2. CASE call.bytes.known /\ (result.kind = "ExhaustivelyChecked" \/ result.short)
  <2>1. handling = result
    BY <1>2 DEF Stored, result
  <2> QED BY <1>2, <1>5, <2>1 DEF VerdictMatchesFate, Confirmed
<1>3. CASE ~(call.bytes.known /\ (result.kind = "ExhaustivelyChecked" \/ result.short))
  <2>1. CASE call.flow # "none"
    <3>1. handling = ResultOf(call.flow)
      BY <1>3, <2>1 DEF Stored, result
    <3>2. call.flow \in {"ExhaustivelyChecked", "PartiallyChecked", "Forwarded", "Consumed"}
      BY <2>1 DEF Possible, FlowPossible
    <3> QED BY <3>1, <3>2 DEF VerdictMatchesFate, Confirmed, ResultOf
  <2>2. CASE call.flow = "none" /\ call.graph /\ result.kind \in {"ExhaustivelyChecked", "Forwarded"}
    <3>1. handling = ResultOf("Consumed")
      BY <1>3, <2>2 DEF Stored, result
    <3> QED BY <3>1 DEF VerdictMatchesFate, ResultOf
  <2>3. CASE call.flow = "none" /\ ~(call.graph /\ result.kind \in {"ExhaustivelyChecked", "Forwarded"})
    <3>1. handling = result
      BY <1>3, <2>3 DEF Stored, result
    <3> QED BY <1>1, <2>3, <3>1 DEF VerdictMatchesFate, Confirmed
  <2> QED BY <2>1, <2>2, <2>3
<1> QED BY <1>2, <1>3
\* Climbs over what carries a condition end at a test of the value.
LEMMA ClimbTested ==
  ASSUME call.path \in Seq(Nodes), NEW carriers \in SUBSET CarriesCondition,
         NEW ends \in SUBSET {"if", "loop", "switch", "choice"}, Climb(carriers, ends) # 0
  PROVE  "tested" \in Fates
<1>1. PICK k \in DOMAIN call.path :
        /\ call.path[k] \in ends
        /\ \A j \in DOMAIN call.path : 0 < j /\ j < k => call.path[j] \in carriers \ ends
  <2>1. ClimbFrom(0, carriers, ends, Depth) # 0
    BY DEF Climb
  <2> QED BY <2>1, ClimbEnds
<1>2. Below(call.path, k, Passing \cup {"choice"})
  <2> SUFFICES ASSUME NEW j \in 1..(k - 1) PROVE call.path[j] \in Passing \cup {"choice"}
    BY DEF Below
  <2>1. j \in DOMAIN call.path /\ 0 < j /\ j < k
    OBVIOUS
  <2>2. call.path[j] \in CarriesCondition
    BY <1>1, <2>1
  <2> QED BY <2>2 DEF CarriesCondition, Propagates, Transparent, Passing, Nodes
<1>3. call.path[k] \in {"if", "loop", "switch", "choice"}
  BY <1>1
<1> QED BY <1>2, <1>3, FirstTest DEF Fates

\* Where no ?: tests the value, a climb passes nodes that hand it on.
LEMMA ClimbPasses ==
  ASSUME call.path \in Seq(Nodes), Climb(CarriesCondition, {"choice"}) = 0,
         NEW carriers \in SUBSET CarriesCondition, NEW ends, Climb(carriers, ends) # 0
  PROVE  \E k \in DOMAIN call.path :
           k = Climb(carriers, ends) /\ call.path[k] \in ends /\ Below(call.path, k, Passing)
<1>1. PICK k \in DOMAIN call.path :
        /\ k = ClimbFrom(0, carriers, ends, Depth) /\ k <= Depth /\ call.path[k] \in ends
        /\ \A j \in DOMAIN call.path : 0 < j /\ j < k => call.path[j] \in carriers \ ends
  <2>1. ClimbFrom(0, carriers, ends, Depth) # 0
    BY DEF Climb
  <2> QED BY <2>1, ClimbEnds
<1>2. Below(call.path, k, Passing)
  <2> SUFFICES ASSUME NEW j \in 1..(k - 1) PROVE call.path[j] \in Passing
    BY DEF Below
  <2>1. j \in DOMAIN call.path /\ j > 0 /\ j < k /\ j <= Depth
    BY <1>1, DepthAssumption
  <2>2. call.path[j] \in CarriesCondition
    BY <1>1, <2>1
  <2>3. call.path[j] # "choice"
    <3> SUFFICES ASSUME call.path[j] \in {"choice"} PROVE FALSE
      OBVIOUS
    <3>1. \A i \in DOMAIN call.path : 0 < i /\ i < j => call.path[i] \in CarriesCondition
      <4> SUFFICES ASSUME NEW i \in DOMAIN call.path, 0 < i, i < j
                   PROVE  call.path[i] \in CarriesCondition
        OBVIOUS
      <4>1. i < k
        BY <2>1
      <4> QED BY <1>1, <4>1
    <3>2. ClimbFrom(0, CarriesCondition, {"choice"}, Depth) # 0
      BY <2>1, <3>1, DepthAssumption, ClimbFinds
    <3> QED BY <3>2 DEF Climb
  <2> QED BY <2>2, <2>3 DEF CarriesCondition, Propagates, Transparent, Passing, Nodes
<1> QED BY <1>1, <1>2 DEF Climb

\* An assignment that stands in a condition is tested there.
LEMMA AssignmentTested ==
  ASSUME call.path \in Seq(Nodes), Climb(CarriesCondition, {"choice"}) = 0, Assigned # 0,
         NEW ends \in SUBSET {"if", "loop", "choice"}, AssignmentDecides(ends)
  PROVE  "tested" \in Fates
<1>1. Propagates \in SUBSET CarriesCondition
  BY DEF CarriesCondition
<1>2. PICK a \in DOMAIN call.path :
        a = Assigned /\ call.path[a] \in {"assign"} /\ Below(call.path, a, Passing)
  BY <1>1, ClimbPasses DEF Assigned
<1>3. PICK k \in DOMAIN call.path :
        /\ k > a /\ call.path[k] \in ends
        /\ \A j \in DOMAIN call.path : a < j /\ j < k => call.path[j] \in CarriesCondition \ ends
  <2>1. ClimbFrom(a, CarriesCondition, ends, Depth) # 0
    BY <1>2 DEF AssignmentDecides
  <2> QED BY <2>1, ClimbEnds
<1>4. Below(call.path, k, Passing \cup {"choice"})
  <2> SUFFICES ASSUME NEW j \in 1..(k - 1) PROVE call.path[j] \in Passing \cup {"choice"}
    BY DEF Below
  <2>1. j \in DOMAIN call.path /\ j \in Nat /\ a \in Nat /\ j < k
    OBVIOUS
  <2>2. CASE j < a
    <3>1. j \in 1..(a - 1)
      BY <2>1, <2>2
    <3> QED BY <1>2, <3>1 DEF Below
  <2>3. CASE j = a
    BY <1>2, <2>3 DEF Passing, Nodes
  <2>4. CASE a < j
    <3>1. call.path[j] \in CarriesCondition
      BY <1>3, <2>1, <2>4
    <3> QED BY <3>1 DEF CarriesCondition, Propagates, Transparent, Passing, Nodes
  <2> QED BY <2>1, <2>2, <2>3, <2>4
<1>5. call.path[k] \in {"if", "loop", "switch", "choice"}
  BY <1>3
<1> QED BY <1>4, <1>5, FirstTest DEF Fates

LEMMA VerdictFits ==
  ASSUME Analysed, handling = ClassifyCall
  PROVE  VerdictMatchesFate
<1>1. /\ call.path \in Seq(Nodes) /\ call.check \in {"ExhaustivelyChecked", "PartiallyChecked"}
      /\ Possible(call) /\ options.explicitVoid \in BOOLEAN
  BY DEF Analysed, Possible
<1>2. \A kind : ResultOf(kind).kind = kind
  BY DEF ResultOf
<1>3. Propagates \in SUBSET CarriesCondition /\ CarriesCondition \in SUBSET CarriesCondition
  BY DEF CarriesCondition
<1> DEFINE void == options.explicitVoid /\ IsExplicitVoidDiscard
           switch == Climb(Propagates, {"switch"}) # 0
           inIf == Climb(CarriesCondition, {"if"}) # 0
           inLoop == Climb(CarriesCondition, {"loop"}) # 0
           inChoice == Climb(CarriesCondition, {"choice"}) # 0
           inits == Climb(Propagates, {"init"}) # 0
           assigns == Assigned # 0
           returns == Climb(Propagates, {"return"}) # 0
           discards == Climb(Transparent \cup {"comma right"}, {"compound", "comma left"}) # 0
<1>4. CASE void
  <2>1. PICK k \in DOMAIN call.path :
          /\ call.path[k] \in {"void"}
          /\ \A j \in DOMAIN call.path : 0 < j /\ j < k => call.path[j] \in {"paren"} \ {"void"}
    <3>1. ClimbFrom(0, {"paren"}, {"void"}, VoidDepth) # 0
      BY <1>4 DEF IsExplicitVoidDiscard
    <3> QED BY <1>1, <3>1, ClimbEnds
  <2>2. Below(call.path, k, Passing)
    <3> SUFFICES ASSUME NEW j \in 1..(k - 1) PROVE call.path[j] \in Passing
      BY DEF Below
    <3>1. j \in DOMAIN call.path /\ 0 < j /\ j < k
      BY <1>1
    <3>2. call.path[j] = "paren"
      BY <2>1, <3>1
    <3> QED BY <3>2 DEF Passing, Nodes
  <2>3. "dismissed" \in Fates
    BY <1>1, <2>1, <2>2, FateReached DEF Fates
  <2>4. handling = ResultOf("ExplicitlyIgnored")
    BY <1>4 DEF ClassifyCall
  <2> QED BY <1>2, <2>3, <2>4 DEF VerdictMatchesFate
<1>5. CASE ~void /\ switch
  <2>1. "tested" \in Fates
    BY <1>1, <1>3, <1>5, ClimbTested
  <2>2. handling = ResultOf(call.check)
    BY <1>5 DEF ClassifyCall
  <2> QED BY <1>1, <1>2, <2>1, <2>2, TestedFits
<1>6. CASE ~void /\ ~switch /\ inIf
  <2>1. "tested" \in Fates
    BY <1>1, <1>3, <1>6, ClimbTested
  <2>2. handling = InCondition(call.bytes.settled, ResultOf(call.check))
    BY <1>6 DEF ClassifyCall
  <2>3. ResultOf(call.check).kind \in {"ExhaustivelyChecked", "PartiallyChecked"}
    BY <1>1, <1>2
  <2>4. handling.kind \in {"ExhaustivelyChecked", "PartiallyChecked"}
    BY <2>2, <2>3 DEF InCondition, ByteCountOr, ResultOf, ShortTransfer
  <2> QED BY <2>1, <2>4, TestedFits
<1>7. CASE ~void /\ ~switch /\ ~inIf /\ inLoop
  <2>1. "tested" \in Fates
    BY <1>1, <1>3, <1>7, ClimbTested
  <2>2. handling = InCondition(TRUE, ResultOf(call.check))
    BY <1>7 DEF ClassifyCall
  <2>3. ResultOf(call.check).kind \in {"ExhaustivelyChecked", "PartiallyChecked"}
    BY <1>1, <1>2
  <2>4. handling.kind \in {"ExhaustivelyChecked", "PartiallyChecked"}
    BY <2>2, <2>3 DEF InCondition, ByteCountOr, ResultOf, ShortTransfer
  <2> QED BY <2>1, <2>4, TestedFits
<1>8. CASE ~void /\ ~switch /\ ~inIf /\ ~inLoop /\ inChoice
  <2>1. "tested" \in Fates
    BY <1>1, <1>3, <1>8, ClimbTested
  <2>2. handling = InCondition(TRUE, ResultOf("ExhaustivelyChecked"))
    BY <1>8 DEF ClassifyCall
  <2>3. ResultOf("ExhaustivelyChecked").kind \in {"ExhaustivelyChecked", "PartiallyChecked"}
    BY <1>2
  <2>4. handling.kind \in {"ExhaustivelyChecked", "PartiallyChecked"}
    BY <2>2, <2>3 DEF InCondition, ByteCountOr, ResultOf, ShortTransfer
  <2> QED BY <2>1, <2>4, TestedFits
<1> DEFINE untested == ~void /\ ~switch /\ ~inIf /\ ~inLoop /\ ~inChoice
<1>9. CASE untested /\ inits
  <2>1. PICK k \in DOMAIN call.path : call.path[k] \in {"init"} /\ Below(call.path, k, Passing)
    BY <1>1, <1>3, <1>9, ClimbPasses
  <2>2. "stored" \in Fates
    BY <1>1, <2>1, FateReached DEF Fates
  <2>3. handling = Stored
    BY <1>9 DEF ClassifyCall
  <2> QED BY <1>1, <2>2, <2>3, StoredFits
<1>10. CASE untested /\ ~inits /\ assigns
  <2>1. CASE AssignmentDecides({"choice"})
    <3>1. "tested" \in Fates
      BY <1>1, <1>10, <2>1, AssignmentTested
    <3>2. handling = InCondition(TRUE, ResultOf("ExhaustivelyChecked"))
      BY <1>10, <2>1 DEF ClassifyCall
    <3>3. ResultOf("ExhaustivelyChecked").kind \in {"ExhaustivelyChecked", "PartiallyChecked"}
      BY <1>2
    <3>4. handling.kind \in {"ExhaustivelyChecked", "PartiallyChecked"}
      BY <3>2, <3>3 DEF InCondition, ByteCountOr, ResultOf, ShortTransfer
    <3> QED BY <3>1, <3>4, TestedFits
  <2>2. CASE ~AssignmentDecides({"choice"}) /\ AssignmentDecides({"if", "loop"})
    <3>1. "tested" \in Fates
      BY <1>1, <1>10, <2>2, AssignmentTested
    <3>2. handling = InCondition(TRUE, ResultOf(call.check))
      BY <1>10, <2>2 DEF ClassifyCall
    <3>3. ResultOf(call.check).kind \in {"ExhaustivelyChecked", "PartiallyChecked"}
      BY <1>1, <1>2
    <3>4. handling.kind \in {"ExhaustivelyChecked", "PartiallyChecked"}
      BY <3>2, <3>3 DEF InCondition, ByteCountOr, ResultOf, ShortTransfer
    <3> QED BY <3>1, <3>4, TestedFits
  <2>3. CASE ~AssignmentDecides({"choice"}) /\ ~AssignmentDecides({"if", "loop"})
    <3>1. PICK k \in DOMAIN call.path : call.path[k] \in {"assign"} /\ Below(call.path, k, Passing)
      BY <1>1, <1>3, <1>10, ClimbPasses DEF Assigned
    <3>2. "stored" \in Fates
      BY <1>1, <3>1, FateReached DEF Fates
    <3>3. handling = Stored
      BY <1>10, <2>3 DEF ClassifyCall
    <3> QED BY <1>1, <3>2, <3>3, StoredFits
  <2> QED BY <2>1, <2>2, <2>3
<1> DEFINE unstored == untested /\ ~inits /\ ~assigns
<1>11. CASE unstored /\ returns
  <2>1. PICK k \in DOMAIN call.path : call.path[k] \in {"return"} /\ Below(call.path, k, Passing)
    BY <1>1, <1>3, <1>11, ClimbPasses
  <2>2. "returned" \in Fates
    BY <1>1, <2>1, FateReached DEF Fates
  <2>3. handling = ResultOf("Forwarded")
    BY <1>11 DEF ClassifyCall
  <2> QED BY <1>2, <2>2, <2>3 DEF VerdictMatchesFate
<1>12. CASE unstored /\ ~returns /\ call.flow # "none"
  <2>1. handling = ResultOf(call.flow)
    BY <1>12 DEF ClassifyCall
  <2>2. FlowPossible(call)
    BY <1>1 DEF Possible
  <2>3. handling.kind = call.flow
    BY <1>2, <2>1
  <2>4. \/ "stored" \in Fates /\ call.flow \in {"ExhaustivelyChecked", "PartiallyChecked", "Forwarded", "Consumed"}
        \/ InChoice(call.path) /\ call.flow \in {"ExhaustivelyChecked", "Consumed"}
    BY <1>12, <2>2 DEF FlowPossible, Fates
  <2> QED BY <2>3, <2>4 DEF VerdictMatchesFate, Confirmed, TakenForTested
<1>13. CASE unstored /\ ~returns /\ call.flow = "none" /\ discards
  <2>1. PICK k \in DOMAIN call.path :
          /\ call.path[k] \in {"compound", "comma left"}
          /\ \A j \in DOMAIN call.path : 0 < j /\ j < k =>
               call.path[j] \in (Transparent \cup {"comma right"}) \ {"compound", "comma left"}
    <3> DEFINE carriers == Transparent \cup {"comma right"}
               ends == {"compound", "comma left"}
    <3>1. ClimbFrom(0, carriers, ends, Depth) # 0
      BY <1>13 DEF Climb
    <3> HIDE DEF carriers, ends
    <3>2. \E k \in DOMAIN call.path :
            /\ call.path[k] \in ends
            /\ \A j \in DOMAIN call.path : 0 < j /\ j < k => call.path[j] \in carriers \ ends
      BY <1>1, <3>1, ClimbEnds
    <3> QED BY <3>2 DEF carriers, ends
  <2>2. Below(call.path, k, Transparent \cup {"comma right"})
    <3> SUFFICES ASSUME NEW j \in 1..(k - 1) PROVE call.path[j] \in Transparent \cup {"comma right"}
      BY DEF Below
    <3>1. j \in DOMAIN call.path /\ 0 < j /\ j < k
      BY <1>1
    <3> QED BY <2>1, <3>1
  <2>3. Fates \subseteq {"dismissed", "discarded"}
    BY <1>1, <2>1, <2>2, NothingLooks DEF Fates
  <2>4. handling = ResultOf("Ignored")
    BY <1>13 DEF ClassifyCall
  <2> QED BY <1>2, <2>3, <2>4 DEF VerdictMatchesFate
<1>14. CASE unstored /\ ~returns /\ call.flow = "none" /\ ~discards
  <2>1. handling = ResultOf("Consumed")
    BY <1>14 DEF ClassifyCall
  <2> QED BY <1>2, <2>1 DEF VerdictMatchesFate
<1> HIDE DEF void, switch, inIf, inLoop, inChoice, inits, assigns, returns, discards
<1> QED BY <1>4, <1>5, <1>6, <1>7, <1>8, <1>9, <1>10, <1>11, <1>12, <1>13, <1>14

\* For every call, however the other analyses answer of it, the verdict fits what
\* the program does with the value (Analyzer::classify_call).
THEOREM VerdictsMatchFates == CallSpec => []VerdictMatchesFate
<1>1. CallInv => VerdictMatchesFate
  <2>1. CASE handling.kind \in {"none", "skipped"}
    BY <2>1 DEF VerdictMatchesFate
  <2> QED BY <2>1, VerdictFits DEF CallInv
<1> QED BY <1>1, CallInit, CallStep, PTL DEF CallSpec
-----------------------------------------------------------------------------
\* Reads and writes of which only a failure is told from the rest.

TellsOnlyFailures(comparisons) ==
  /\ comparisons # {} /\ comparisons \subseteq Comparisons
  /\ \A c \in comparisons : OnlyTellsFailure(c) /\ ~GreaterThanMinusOne(c)

\* Every way to write such a comparison is recognised, but for > -1.
LEMMA FailureRecognised ==
  ASSUME NEW c \in Comparisons, OnlyTellsFailure(c), ~GreaterThanMinusOne(c)
  PROVE  c.against # <<"count">> /\ ComparesWithFailure({c})
<1> DEFINE n == c.against[2]
           Meant(r, l) == CASE c.op = "<" -> r < l  [] c.op = "<=" -> r <= l
                            [] c.op = ">" -> r > l  [] c.op = ">=" -> r >= l
                            [] c.op = "==" -> r = l [] c.op = "!=" -> r # l
           Holds(r) == Meant(IF c.turned THEN n ELSE r, IF c.turned THEN r ELSE n)
<1>1. c.against # <<"count">>
  BY DEF OnlyTellsFailure
<1>2. /\ c.op \in {"<", "<=", ">", ">=", "==", "!="} /\ c.turned \in BOOLEAN
      /\ c.against \in {"constant"} \X Int /\ n \in Int
  BY <1>1 DEF Comparisons
<1>3. (Holds(1) <=> Holds(0)) /\ ~(Holds(-1) <=> Holds(0))
  <2>1. (\A r \in 0..3 : Holds(r) <=> Holds(0)) /\ ~(Holds(-1) <=> Holds(0))
    BY DEF OnlyTellsFailure
  <2> HIDE DEF Holds
  <2> QED BY <2>1
<1> HIDE DEF n
<1>4. c.op \in {"<=", ">=", "==", "!="} \/ c.op = (IF c.turned THEN ">" ELSE "<")
  BY <1>2 DEF GreaterThanMinusOne
<1>5. \/ Normalized(c) = "<" /\ n >= 0
      \/ Normalized(c) \in {"<=", "==", "!="} /\ n < 0
      \/ Normalized(c) = ">=" /\ n = 0
  <2>1. CASE c.turned
    BY <1>2, <1>3, <1>4, <2>1 DEF Normalized, Reversed
  <2>2. CASE ~c.turned
    BY <1>2, <1>3, <1>4, <2>2 DEF Normalized
  <2> QED BY <2>1, <2>2
<1> QED BY <1>1, <1>5 DEF ComparesWithFailure, n

LEMMA FailuresAreShort ==
  ASSUME call.bytes.known, NEW comparisons, TellsOnlyFailures(comparisons), NEW leaves, NEW otherwise
  PROVE  ByteCountOr(comparisons, leaves, otherwise) = ShortTransfer
<1>1. ~ComparesWithCount(comparisons)
  BY FailureRecognised DEF TellsOnlyFailures, ComparesWithCount
<1>2. PICK c \in comparisons : c \in Comparisons /\ ComparesWithFailure({c})
  BY FailureRecognised DEF TellsOnlyFailures
<1>3. ComparesWithFailure(comparisons)
  BY <1>2 DEF ComparesWithFailure
<1> QED BY <1>1, <1>3 DEF ByteCountOr

\* Where the classification comes to a condition of an if, a loop or a ?:, or to
\* the variable, and that says short, so does the verdict.
LEMMA ConditionIsShort ==
  ASSUME call.path \in Seq(Nodes), Len(call.path) <= Depth, \E k \in DOMAIN call.path : ComparedIn(call.path, k),
         \A leaves, otherwise : InCondition(leaves, otherwise) = ShortTransfer
  PROVE  ClassifyCall = ShortTransfer
<1>1. PICK k \in DOMAIN call.path : ComparedIn(call.path, k)
  OBVIOUS
<1>2. k \in Nat /\ k > 0 /\ k <= Depth /\ Len(call.path) \in Nat /\ DOMAIN call.path = 1..Len(call.path)
  BY DepthAssumption
<1>3. PICK b \in 1..(k - 1) :
        /\ call.path[b] \in {"comparison", "assign"}
        /\ \A j \in DOMAIN call.path : j < b => call.path[j] \notin {"void", "switch"}
  <2>1. CASE /\ Below(call.path, k, CarriesCondition \ {"void"})
             /\ \E j \in 1..(k - 1) : call.path[j] = "comparison"
    <3>1. PICK b \in 1..(k - 1) : call.path[b] = "comparison"
      BY <2>1
    <3>2. ASSUME NEW j \in DOMAIN call.path, j < b PROVE call.path[j] \notin {"void", "switch"}
      <4>1. j \in 1..(k - 1)
        BY <1>2, <3>2
      <4>2. call.path[j] \in CarriesCondition \ {"void"}
        BY <2>1, <4>1 DEF Below
      <4> QED BY <4>2 DEF CarriesCondition, Propagates, Transparent
    <3> QED BY <3>1, <3>2
  <2>2. CASE \E a \in 1..(k - 1) : call.path[a] = "assign" /\ StoredAt(call.path, a)
    <3>1. PICK b \in 1..(k - 1) : call.path[b] = "assign" /\ StoredAt(call.path, b)
      BY <2>2
    <3>2. ASSUME NEW j \in DOMAIN call.path, j < b PROVE call.path[j] \notin {"void", "switch"}
      <4>1. j \in 1..(b - 1)
        BY <1>2, <3>2
      <4>2. call.path[j] \in Propagates \ {"void"}
        BY <3>1, <4>1 DEF StoredAt, Below
      <4> QED BY <4>2 DEF Propagates, Transparent
    <3> QED BY <3>1, <3>2
  <2> QED BY <1>1, <2>1, <2>2 DEF ComparedIn
<1>4. b \in DOMAIN call.path /\ b > 0
  BY <1>2
<1>5. ~IsExplicitVoidDiscard
  <2> SUFFICES ASSUME IsExplicitVoidDiscard PROVE FALSE
    OBVIOUS
  <2>1. ClimbFrom(0, {"paren"}, {"void"}, VoidDepth) # 0
    BY DEF IsExplicitVoidDiscard
  <2>2. PICK v \in DOMAIN call.path :
          /\ call.path[v] \in {"void"}
          /\ \A j \in DOMAIN call.path : 0 < j /\ j < v => call.path[j] \in {"paren"} \ {"void"}
    BY <2>1, ClimbEnds
  <2>3. ~(v < b)
    BY <1>3, <2>2
  <2>4. ~(b < v)
    BY <1>3, <1>4, <2>2
  <2>5. v # b
    BY <1>3, <2>2
  <2> QED BY <1>2, <1>4, <2>3, <2>4, <2>5
<1>6. Climb(Propagates, {"switch"}) = 0
  <2> SUFFICES ASSUME Climb(Propagates, {"switch"}) # 0 PROVE FALSE
    OBVIOUS
  <2>1. ClimbFrom(0, Propagates, {"switch"}, Depth) # 0
    BY DEF Climb
  <2>2. PICK v \in DOMAIN call.path :
          /\ call.path[v] \in {"switch"}
          /\ \A j \in DOMAIN call.path : 0 < j /\ j < v => call.path[j] \in Propagates \ {"switch"}
    BY <2>1, ClimbEnds
  <2>3. ~(v < b)
    BY <1>3, <2>2
  <2>4. ~(b < v)
    BY <1>3, <1>4, <2>2 DEF Propagates, Transparent
  <2>5. v # b
    BY <1>3, <2>2
  <2> QED BY <1>2, <1>4, <2>3, <2>4, <2>5
<1>7. CASE \/ Climb(CarriesCondition, {"if"}) # 0 \/ Climb(CarriesCondition, {"loop"}) # 0
           \/ Climb(CarriesCondition, {"choice"}) # 0
  BY <1>5, <1>6, <1>7 DEF ClassifyCall
<1>8. CASE /\ Climb(CarriesCondition, {"if"}) = 0 /\ Climb(CarriesCondition, {"loop"}) = 0
           /\ Climb(CarriesCondition, {"choice"}) = 0
  <2>1. ~Below(call.path, k, CarriesCondition)
    <3> SUFFICES ASSUME Below(call.path, k, CarriesCondition) PROVE FALSE
      OBVIOUS
    <3>1. \A j \in DOMAIN call.path : 0 < j /\ j < k => call.path[j] \in CarriesCondition
      BY <1>2 DEF Below
    <3>2. ASSUME NEW end \in {"if", "loop", "choice"}, call.path[k] = end
          PROVE  ClimbFrom(0, CarriesCondition, {end}, Depth) # 0
      <4>1. call.path[k] \in {end}
        BY <3>2
      <4> QED BY <1>2, <3>1, <4>1, DepthAssumption, ClimbFinds
    <3>3. call.path[k] \in {"if", "loop", "choice"}
      BY <1>1 DEF ComparedIn
    <3> QED BY <1>8, <3>2, <3>3 DEF Climb
  <2>2. PICK a \in 1..(k - 1) :
          /\ call.path[a] = "assign" /\ StoredAt(call.path, a)
          /\ \A j \in (a + 1)..(k - 1) : call.path[j] \in CarriesCondition
    <3>1. Below(call.path, k, CarriesCondition \ {"void"}) => Below(call.path, k, CarriesCondition)
      BY DEF Below
    <3> QED BY <1>1, <2>1, <3>1 DEF ComparedIn
  <2>3. a \in DOMAIN call.path /\ a > 0 /\ a < k /\ a <= Depth /\ a \in Nat
    BY <1>2, DepthAssumption
  <2>4. \A j \in DOMAIN call.path : 0 < j /\ j < a => call.path[j] \in Propagates
    BY <1>2, <2>2 DEF StoredAt, Below
  <2>5. Assigned = a
    <3>1. \A j \in DOMAIN call.path : 0 < j /\ j < a => call.path[j] \in Propagates \ {"assign"}
      BY <2>4 DEF Propagates, Transparent
    <3>2. call.path[a] \in {"assign"}
      BY <2>2
    <3>3. ClimbFrom(0, Propagates, {"assign"}, Depth) = a
      BY <2>3, <3>1, <3>2, DepthAssumption, ClimbReaches
    <3> QED BY <3>3 DEF Assigned, Climb
  <2>6. Climb(Propagates, {"init"}) = 0
    <3> SUFFICES ASSUME Climb(Propagates, {"init"}) # 0 PROVE FALSE
      OBVIOUS
    <3>1. ClimbFrom(0, Propagates, {"init"}, Depth) # 0
      BY DEF Climb
    <3>2. PICK v \in DOMAIN call.path :
            /\ call.path[v] \in {"init"}
            /\ \A j \in DOMAIN call.path : 0 < j /\ j < v => call.path[j] \in Propagates \ {"init"}
      BY <3>1, ClimbEnds
    <3>3. ~(v < a)
      <4>1. v < a => call.path[v] \in Propagates
        BY <1>2, <2>4
      <4> QED BY <3>2, <4>1 DEF Propagates, Transparent
    <3>4. ~(a < v)
      BY <2>2, <2>3, <3>2 DEF Propagates, Transparent
    <3>5. v # a
      BY <2>2, <3>2
    <3> QED BY <1>2, <2>3, <3>3, <3>4, <3>5
  <2>7. AssignmentDecides({"choice"}) \/ AssignmentDecides({"if", "loop"})
    <3>1. \A j \in DOMAIN call.path : a < j /\ j < k => call.path[j] \in CarriesCondition
      BY <1>2, <2>2, <2>3
    <3>2. ASSUME NEW ends, call.path[k] \in ends PROVE AssignmentDecides(ends)
      <4>1. ClimbFrom(a, CarriesCondition, ends, Depth) # 0
        BY <1>2, <2>3, <3>1, <3>2, DepthAssumption, ClimbFinds
      <4> QED BY <2>5, <4>1 DEF AssignmentDecides
    <3>3. call.path[k] \in {"choice"} \/ call.path[k] \in {"if", "loop"}
      BY <1>1 DEF ComparedIn
    <3> QED BY <3>2, <3>3
  <2>8. Assigned # 0
    BY <2>3, <2>5
  <2> QED BY <1>5, <1>6, <1>8, <2>6, <2>7, <2>8 DEF ClassifyCall
<1> QED BY <1>7, <1>8
LEMMA StoreIsShort ==
  ASSUME call.path \in Seq(Nodes), Len(call.path) <= Depth, "tested" \notin Fates,
         \E k \in DOMAIN call.path : StoredAt(call.path, k), Stored = ShortTransfer
  PROVE  ClassifyCall = ShortTransfer
<1>1. PICK k \in DOMAIN call.path : StoredAt(call.path, k)
  OBVIOUS
<1>2. k \in Nat /\ k > 0 /\ k <= Depth /\ Len(call.path) \in Nat /\ DOMAIN call.path = 1..Len(call.path)
  BY DepthAssumption
<1>3. \A j \in DOMAIN call.path : 0 < j /\ j < k => call.path[j] \in Propagates \ {"void"}
  BY <1>1, <1>2 DEF StoredAt, Below
<1>4. call.path[k] \in {"init", "assign"}
  BY <1>1 DEF StoredAt
<1>5. ~IsExplicitVoidDiscard
  <2> SUFFICES ASSUME IsExplicitVoidDiscard PROVE FALSE
    OBVIOUS
  <2>1. ClimbFrom(0, {"paren"}, {"void"}, VoidDepth) # 0
    BY DEF IsExplicitVoidDiscard
  <2>2. PICK v \in DOMAIN call.path :
          /\ call.path[v] \in {"void"}
          /\ \A j \in DOMAIN call.path : 0 < j /\ j < v => call.path[j] \in {"paren"} \ {"void"}
    BY <2>1, ClimbEnds
  <2>3. v \in Nat /\ v > 0
    BY <1>2
  <2>4. ~(v < k)
    BY <1>3, <2>2, <2>3
  <2>5. ~(k < v)
    BY <1>2, <1>4, <2>2
  <2>6. v # k
    BY <1>4, <2>2
  <2> QED BY <1>2, <2>3, <2>4, <2>5, <2>6
<1>6. Propagates \in SUBSET CarriesCondition /\ CarriesCondition \in SUBSET CarriesCondition
  BY DEF CarriesCondition
<1>7. /\ Climb(Propagates, {"switch"}) = 0 /\ Climb(CarriesCondition, {"if"}) = 0
      /\ Climb(CarriesCondition, {"loop"}) = 0 /\ Climb(CarriesCondition, {"choice"}) = 0
  BY <1>6, ClimbTested
<1>8. CASE Climb(Propagates, {"init"}) # 0
  BY <1>5, <1>7, <1>8 DEF ClassifyCall
<1>9. CASE Climb(Propagates, {"init"}) = 0
  <2>1. \A j \in DOMAIN call.path : 0 < j /\ j < k => call.path[j] \in Propagates
    BY <1>3
  <2>2. ASSUME NEW ends, call.path[k] \in ends PROVE ClimbFrom(0, Propagates, ends, Depth) # 0
    BY <1>2, <2>1, <2>2, DepthAssumption, ClimbFinds
  <2>3. call.path[k] \in {"assign"}
    <3>1. call.path[k] \notin {"init"}
      BY <1>9, <2>2 DEF Climb
    <3> QED BY <1>4, <3>1
  <2>4. Assigned # 0
    BY <2>2, <2>3 DEF Assigned, Climb
  <2>5. ~AssignmentDecides({"choice"}) /\ ~AssignmentDecides({"if", "loop"})
    <3>1. \A ends \in SUBSET {"if", "loop", "choice"} : ~AssignmentDecides(ends)
      BY <1>7, <2>4, AssignmentTested
    <3> QED BY <3>1
  <2> QED BY <1>5, <1>7, <1>9, <2>4, <2>5 DEF ClassifyCall
<1> QED BY <1>8, <1>9

\* For every read or write and however its comparisons are written, wherever they
\* stand: if they only tell a failure from the rest, the call is reported
\* (analyze_byte_count_condition, analyze_byte_count_variable).
THEOREM ShortTransfersAreReported == CallSpec => []ShortTransfersReported
<1>1. CallInv => ShortTransfersReported
  <2> SUFFICES ASSUME CallInv,
                      handling.kind \notin {"none", "skipped"}, options.mode # "ignored-only",
                      call.bytes.known, call.fallible, call.localVariable, call.inFunction,
                      Len(call.path) <= Depth,
                      TellsOnlyFailures(IF call.bytes.condition # {}
                                        THEN call.bytes.condition \cup call.bytes.after
                                        ELSE IF "tested" \in Fates THEN {} ELSE call.bytes.after)
               PROVE  reported
    <3>1. CallInv => call.bytes.condition \subseteq Comparisons /\ call.bytes.after \subseteq Comparisons
      BY DEF CallInv, Analysed, Possible, BytesPossible
    <3> QED BY <3>1 DEF ShortTransfersReported, TellsOnlyFailures
  <2>1. handling = ClassifyCall /\ reported = ShouldReport(handling.kind, options.mode) /\ Analysed
    BY DEF CallInv
  <2>2. /\ call.path \in Seq(Nodes) /\ BytesPossible(call)
        /\ options.mode \in {"ignored-only", "practical", "strict"}
    BY <2>1 DEF Analysed, Possible
  <2>3. ClassifyCall = ShortTransfer
    <3>1. CASE call.bytes.condition # {}
      <4>1. TellsOnlyFailures(call.bytes.condition)
        BY <3>1 DEF TellsOnlyFailures
      <4>2. \A leaves, otherwise : InCondition(leaves, otherwise) = ShortTransfer
        BY <4>1, FailuresAreShort DEF InCondition
      <4>3. \E k \in DOMAIN call.path : ComparedIn(call.path, k)
        BY <2>2, <3>1 DEF BytesPossible
      <4> QED BY <2>2, <4>2, <4>3, ConditionIsShort
    <3>2. CASE call.bytes.condition = {}
      <4>1. TellsOnlyFailures(call.bytes.after) /\ "tested" \notin Fates
        BY <3>2 DEF TellsOnlyFailures
      <4>2. VariableVerdict = ShortTransfer
        BY <4>1, FailuresAreShort DEF VariableVerdict
      <4>3. Stored = ShortTransfer
        BY <4>2 DEF Stored, ShortTransfer
      <4>4. \E k \in DOMAIN call.path : StoredAt(call.path, k)
        BY <2>2, <4>1 DEF BytesPossible, TellsOnlyFailures
      <4> QED BY <2>2, <4>1, <4>3, <4>4, StoreIsShort
    <3> QED BY <3>1, <3>2
  <2>4. handling.kind = "PartiallyChecked"
    BY <2>1, <2>3 DEF ShortTransfer
  <2>5. ShouldReport(handling.kind, options.mode)
    BY <2>2, <2>4 DEF ShouldReport, Excused
  <2> QED BY <2>1, <2>5, Zenon
<1> QED BY <1>1, CallInit, CallStep, PTL DEF CallSpec

-----------------------------------------------------------------------------
\* The program is one of those that may be said of.
ProgramOK ==
  /\ \A f \in DOMAIN program.functions : PossibleFunction(program, program.functions[f])
  /\ \A v \in DOMAIN program.variables : PossibleVariable(program, program.variables[v])

AnyDomain == [finite : BOOLEAN, values : SUBSET Int, fallible : BOOLEAN]

AnyOperand == Operands(program)

LEMMA ArgumentsAre ==
  ASSUME ProgramOK, NEW v \in DOMAIN program.variables
  PROVE  /\ Arguments(program.variables[v]) \in Seq(Expressions(program))
         /\ DOMAIN Arguments(program.variables[v])
              = DOMAIN program.functions[program.variables[v].of].sites
<1> DEFINE w == program.variables[v]
           f == program.functions[w.of]
<1>1. f.sites \in Seq(Seq(Expressions(program))) /\ w.place \in Nat \ {0}
  BY DEF ProgramOK, PossibleFunction, PossibleVariable
<1>2. <<>> \in Expressions(program)
  BY DEF Expressions
<1>3. ASSUME NEW k \in DOMAIN f.sites
      PROVE  (IF w.place <= Len(f.sites[k]) THEN f.sites[k][w.place] ELSE <<>>) \in Expressions(program)
  <2>1. f.sites[k] \in Seq(Expressions(program))
    BY <1>1, <1>3
  <2> QED BY <1>1, <1>2, <2>1
<1>4. Arguments(w) = [k \in DOMAIN f.sites |-> IF w.place <= Len(f.sites[k]) THEN f.sites[k][w.place] ELSE <<>>]
  BY DEF Arguments
<1> HIDE DEF f, w
<1>5. Arguments(w) \in Seq(Expressions(program)) /\ DOMAIN Arguments(w) = DOMAIN f.sites
  <2>1. DOMAIN f.sites = 1..Len(f.sites) /\ Len(f.sites) \in Nat
    BY <1>1
  <2> QED BY <1>3, <1>4, <2>1
<1> QED BY <1>5 DEF f, w

LEMMA QuestionKinds ==
  ASSUME ProgramOK, NEW x \in Questions
  PROVE  /\ x \in AnyOperand
         /\ \/ x.kind = "call" /\ x.of \in DOMAIN program.functions /\ x = Call(x.of)
            \/ x.kind = "variable" /\ x.of \in DOMAIN program.variables
            \/ /\ x.kind = "pointer" /\ x.of \in DOMAIN program.variables
               /\ VariableOf(x).scope = "parameter"
BY DEF Questions, AnyOperand, Operands, Call, VariableOf

LEMMA CalledAre ==
  ASSUME NEW argument \in Expressions(program)
  PROVE  /\ Called(argument) \in Expressions(program)
         /\ \A j \in DOMAIN Called(argument) : Called(argument)[j].kind \in {"call", "opaque"}
<1>1. [kind |-> "opaque"] \in AnyOperand /\ <<>> \in Seq(AnyOperand)
  BY DEF AnyOperand, Operands
<1>2. ASSUME Len(argument) = 1, argument[1].kind = "function"
      PROVE  Call(argument[1].of) \in AnyOperand
  <2>1. argument[1] \in AnyOperand
    BY <1>2 DEF Expressions, AnyOperand
  <2>2. argument[1].of \in DOMAIN program.functions
    BY <1>2, <2>1 DEF AnyOperand, Operands
  <2> QED BY <2>2 DEF AnyOperand, Operands, Call
<1>3. argument = <<>> => Called(argument) = <<>>
  BY DEF Called
<1>4. CASE argument = <<>>
  <2>1. Called(argument) = <<>> /\ DOMAIN Called(argument) = {}
    BY <1>3, <1>4
  <2>2. <<>> \in Expressions(program)
    BY DEF Expressions
  <2> QED BY <2>1, <2>2
<1>5. CASE argument # <<>> /\ Len(argument) = 1 /\ argument[1].kind = "function"
  <2>1. Called(argument) = <<Call(argument[1].of)>>
    BY <1>5 DEF Called
  <2> QED BY <1>2, <1>5, <2>1 DEF Expressions, AnyOperand, Call
<1>6. CASE argument # <<>> /\ ~(Len(argument) = 1 /\ argument[1].kind = "function")
  <2>1. Called(argument) = <<[kind |-> "opaque"]>>
    BY <1>6 DEF Called
  <2> QED BY <1>1, <2>1 DEF Expressions, AnyOperand
<1> QED BY <1>4, <1>5, <1>6

LEMMA PartsAre ==
  ASSUME ProgramOK, NEW x \in Questions
  PROVE  /\ Parts(x) \in Seq(Expressions(program))
         /\ x.kind = "pointer" =>
              \A k \in DOMAIN Parts(x) : \A j \in DOMAIN Parts(x)[k] :
                Parts(x)[k][j].kind \in {"call", "opaque"}
<1>1. CASE x.kind = "call"
  <2>1. Parts(x) = CalleeOf(x).returns /\ x.of \in DOMAIN program.functions
    BY <1>1, QuestionKinds DEF Parts
  <2> QED BY <1>1, <2>1 DEF ProgramOK, PossibleFunction, CalleeOf
<1>2. CASE x.kind = "pointer"
  <2> DEFINE passed == Arguments(VariableOf(x))
  <2>1. Parts(x) = [k \in DOMAIN passed |-> Called(passed[k])] /\ x.of \in DOMAIN program.variables
    BY <1>2, QuestionKinds DEF Parts
  <2>2. passed \in Seq(Expressions(program))
    BY <2>1, ArgumentsAre DEF VariableOf
  <2> HIDE DEF passed
  <2>3. DOMAIN passed = 1..Len(passed) /\ Len(passed) \in Nat /\ \A k \in DOMAIN passed : passed[k] \in Expressions(program)
    BY <2>2
  <2>4. \A k \in DOMAIN passed : /\ Called(passed[k]) \in Expressions(program)
                                 /\ \A j \in DOMAIN Called(passed[k]) : Called(passed[k])[j].kind \in {"call", "opaque"}
    BY <2>3, CalledAre
  <2> QED BY <2>1, <2>3, <2>4
<1>3. CASE x.kind = "variable"
  <2> DEFINE v == VariableOf(x)
  <2>1. x.of \in DOMAIN program.variables
    BY <1>3, QuestionKinds
  <2>2. CASE v.scope = "parameter"
    <3>1. Parts(x) = Arguments(v)
      BY <1>3, <2>2 DEF Parts
    <3> QED BY <1>3, <2>1, <3>1, ArgumentsAre DEF VariableOf
  <2>3. CASE v.scope # "parameter"
    <3>1. Parts(x) = [k \in DOMAIN v.writes |-> IF Relevant(v, k) THEN v.writes[k].value ELSE <<>>]
      BY <1>3, <2>3 DEF Parts
    <3>2. v.writes \in Seq([value : Expressions(program), how : {"initial", "plain", "other"}, before : BOOLEAN])
      BY <2>1 DEF ProgramOK, PossibleVariable, VariableOf
    <3> DEFINE writes == v.writes
    <3>3. <<>> \in Expressions(program)
      BY DEF Expressions
    <3>4. DOMAIN writes = 1..Len(writes) /\ Len(writes) \in Nat
      BY <3>2
    <3>5. \A k \in DOMAIN writes : writes[k].value \in Expressions(program)
      <4> DEFINE W == [value : Expressions(program), how : {"initial", "plain", "other"}, before : BOOLEAN]
      <4>1. writes \in Seq(W)
        BY <3>2
      <4>2. \A w \in W : w.value \in Expressions(program)
        OBVIOUS
      <4> HIDE DEF W, writes
      <4> QED BY <4>1, <4>2
    <3>6. Parts(x) = [k \in DOMAIN writes |-> IF Relevant(v, k) THEN writes[k].value ELSE <<>>]
      BY <3>1
    <3> HIDE DEF writes, v
    <3> QED BY <1>3, <3>6, <3>3, <3>4, <3>5
  <2> QED BY <2>2, <2>3
<1> QED BY <1>1, <1>2, <1>3, QuestionKinds

\* What is searched is a question.
LEMMA SearchedAsked ==
  ASSUME NEW y \in AnyOperand, y.kind = "call" \/ Searched(y)
  PROVE  y \in Questions
<1>2. y.kind = "call" => y \in Questions
  BY DEF AnyOperand, Operands, Questions, Call
<1>3. Searched(y) => y \in Questions
  <2>1. y.kind \in {"value", "opaque", "call", "function", "variable", "pointer"}
    BY DEF AnyOperand, Operands
  <2>2. Searched(y) => y.kind \in {"call", "variable", "pointer"}
    BY <2>1 DEF Searched
  <2>3. CASE y.kind = "variable"
    BY <2>3 DEF AnyOperand, Operands, Questions
  <2>4. CASE y.kind = "pointer" /\ Searched(y)
    <3>1. VariableOf(y).scope = "parameter"
      BY <2>4 DEF Searched
    <3>2. y = [kind |-> "pointer", of |-> y.of] /\ y.of \in DOMAIN program.variables
      BY <2>4 DEF AnyOperand, Operands
    <3> QED BY <3>1, <3>2 DEF Questions, VariableOf
  <2> QED BY <1>2, <2>2, <2>3, <2>4
<1> QED BY <1>2, <1>3

\* What is asked of an operand is a question, and among what is read.
LEMMA OperandsAre ==
  ASSUME ProgramOK, NEW x \in Questions, NEW k \in DOMAIN Parts(x), NEW j \in DOMAIN Parts(x)[k]
  PROVE  LET y == Parts(x)[k][j]
         IN /\ y \in AnyOperand
            /\ y.kind = "call" \/ Searched(y) => y \in Questions
            /\ y \in Questions /\ Searched(x) => y \in Reads(x)
<1> DEFINE y == Parts(x)[k][j]
<1>1. y \in AnyOperand
  <2>1. Parts(x) \in Seq(Expressions(program))
    BY PartsAre
  <2>2. Parts(x)[k] \in Expressions(program)
    BY <2>1
  <2>3. Parts(x)[k] \in Seq(AnyOperand)
    BY <2>2 DEF Expressions, AnyOperand
  <2> QED BY <2>3
<1>2. y.kind = "call" \/ Searched(y) => y \in Questions
  BY <1>1, SearchedAsked
<1>3. y \in Questions /\ Searched(x) => y \in Reads(x)
  BY DEF Reads
<1> QED BY <1>1, <1>2, <1>3

-----------------------------------------------------------------------------
\* What is reached by links, and what an answer rests on.
ReachedBy(links, x) ==
  {y \in Questions : \A names \in SUBSET Questions :
     x \in names /\ (\A link \in links : link[1] \in names => link[2] \in names) => y \in names}

Links == UNION {{y} \X Reads(y) : y \in Questions}

LEMMA LinksAre == \A y, z : <<y, z>> \in Links <=> y \in Questions /\ z \in Reads(y)
BY DEF Links

LEMMA RestsOnIsReached == \A x : RestsOn(x) = ReachedBy(Links, x)
BY DEF RestsOn, ReachedBy, Links

LEMMA ReachedSelf ==
  ASSUME NEW links, NEW x \in Questions
  PROVE  x \in ReachedBy(links, x)
BY DEF ReachedBy

LEMMA ReachedStep ==
  ASSUME NEW links, NEW x, NEW y \in ReachedBy(links, x), NEW z \in Questions, <<y, z>> \in links
  PROVE  z \in ReachedBy(links, x)
<1>1. ASSUME NEW names \in SUBSET Questions, x \in names,
             \A link \in links : link[1] \in names => link[2] \in names
      PROVE  z \in names
  <2>1. y \in names
    BY <1>1 DEF ReachedBy
  <2> QED BY <1>1, <2>1
<1> QED BY <1>1 DEF ReachedBy

LEMMA ReachedWithin ==
  ASSUME NEW links, NEW names \in SUBSET Questions, NEW x \in names,
         \A link \in links : link[1] \in names => link[2] \in names
  PROVE  ReachedBy(links, x) \subseteq names
BY DEF ReachedBy

LEMMA ReachedOnwards ==
  ASSUME NEW links \in SUBSET (Questions \X Questions), NEW x, NEW y \in ReachedBy(links, x)
  PROVE  ReachedBy(links, y) \subseteq ReachedBy(links, x)
<1> DEFINE names == ReachedBy(links, x)
<1>1. names \subseteq Questions
  BY DEF ReachedBy
<1>2. ASSUME NEW link \in links, link[1] \in names PROVE link[2] \in names
  <2>1. link = <<link[1], link[2]>> /\ link[2] \in Questions
    OBVIOUS
  <2> QED BY <1>2, <2>1, ReachedStep
<1> HIDE DEF names
<1>3. y \in names
  BY DEF names
<1>4. ReachedBy(links, y) \subseteq names
  BY <1>1, <1>2, <1>3, ReachedWithin
<1> QED BY <1>4 DEF names

\* What is reached is the beginning, or reached from what it is linked to.
LEMMA ReachedFirst ==
  ASSUME NEW links \in SUBSET (Questions \X Questions), NEW x \in Questions,
         NEW y \in ReachedBy(links, x), y # x
  PROVE  \E z \in Questions : <<x, z>> \in links /\ y \in ReachedBy(links, z)
<1> DEFINE names == {x} \cup {w \in Questions : \E z \in Questions : <<x, z>> \in links /\ w \in ReachedBy(links, z)}
<1>1. ASSUME NEW link \in links, link[1] \in names PROVE link[2] \in names
  <2>1. link = <<link[1], link[2]>> /\ link[2] \in Questions
    OBVIOUS
  <2>2. CASE link[1] = x
    <3>1. link[2] \in ReachedBy(links, link[2])
      BY <2>1, ReachedSelf
    <3> QED BY <2>1, <2>2, <3>1
  <2>3. CASE link[1] # x
    <3>1. PICK z \in Questions : <<x, z>> \in links /\ link[1] \in ReachedBy(links, z)
      BY <1>1, <2>3
    <3>2. link[2] \in ReachedBy(links, z)
      BY <2>1, <3>1, ReachedStep
    <3> QED BY <2>1, <3>1, <3>2
  <2> QED BY <2>2, <2>3
<1>2. names \in SUBSET Questions /\ x \in names
  OBVIOUS
<1> HIDE DEF names
<1>3. y \in names
  BY <1>1, <1>2, ReachedWithin
<1> QED BY <1>3 DEF names

-----------------------------------------------------------------------------
\* Where a question stands.
QuestionRecords == [of : Questions, at : Nat \ {0}, operand : Nat \ {0}, known : AnyDomain]

QuestionOK(q) ==
  /\ q \in QuestionRecords /\ Searched(q.of)
  /\ q.operand = 1 \/ (q.at \in DOMAIN Parts(q.of) /\ q.operand <= Len(Parts(q.of)[q.at]))

\* A question waits for the answer to an operand.
Waiting(q, x) ==
  /\ q.at \in DOMAIN Parts(q.of) /\ Parts(q.of)[q.at] # <<>>
  /\ x = Parts(q.of)[q.at][q.operand]

\* The operands looked at so far.
Passed(q, k, j) == k < q.at \/ (k = q.at /\ j < q.operand)

LEMMA PartsShape ==
  ASSUME ProgramOK, NEW x \in Questions
  PROVE  /\ Len(Parts(x)) \in Nat /\ DOMAIN Parts(x) = 1..Len(Parts(x))
         /\ \A k \in DOMAIN Parts(x) :
              /\ Len(Parts(x)[k]) \in Nat /\ DOMAIN Parts(x)[k] = 1..Len(Parts(x)[k])
              /\ Parts(x)[k] = <<>> <=> Len(Parts(x)[k]) = 0
<1> DEFINE S == Operands(program)
           parts == Parts(x)
<1>1. parts \in Seq(Seq(S))
  BY PartsAre DEF Expressions
<1> HIDE DEF S, parts
<1>2. Len(parts) \in Nat /\ DOMAIN parts = 1..Len(parts)
  BY <1>1
<1>3. ASSUME NEW k \in DOMAIN parts
      PROVE  /\ Len(parts[k]) \in Nat /\ DOMAIN parts[k] = 1..Len(parts[k])
             /\ parts[k] = <<>> <=> Len(parts[k]) = 0
  <2>1. parts[k] \in Seq(S)
    BY <1>1, <1>3
  <2> QED BY <2>1
<1> QED BY <1>2, <1>3 DEF parts

LEMMA DomainsJoin ==
  ASSUME NEW d \in AnyDomain, NEW e \in AnyDomain
  PROVE  /\ Joined(d, e) \in AnyDomain
         /\ Joined(d, e).finite <=> d.finite /\ e.finite
         /\ d.finite /\ e.finite => Joined(d, e) = Finite(d.values \cup e.values)
         /\ ~(d.finite /\ e.finite) => Joined(d, e) = Open
BY DEF Joined, AnyDomain, Finite, Open

LEMMA FurtherIs ==
  ASSUME ProgramOK, NEW q, QuestionOK(q), NEW x, Waiting(q, x), NEW d \in AnyDomain
  PROVE  LET n == Further(q, d)
         IN /\ QuestionOK(n) /\ n.of = q.of /\ n.known = Joined(q.known, d)
            /\ q.operand \in DOMAIN Parts(q.of)[q.at]
            /\ \A k \in DOMAIN Parts(q.of) : \A j \in DOMAIN Parts(q.of)[k] :
                 Passed(n, k, j) <=> Passed(q, k, j) \/ (k = q.at /\ j = q.operand)
<1> DEFINE parts == Parts(q.of)
           last == q.operand = Len(parts[q.at])
           at == IF last THEN q.at + 1 ELSE q.at
           operand == IF last THEN 1 ELSE q.operand + 1
           n == [of |-> q.of, at |-> at, operand |-> operand, known |-> Joined(q.known, d)]
<1>1. q = [of |-> q.of, at |-> q.at, operand |-> q.operand, known |-> q.known]
      /\ q.of \in Questions /\ q.at \in Nat \ {0} /\ q.operand \in Nat \ {0} /\ q.known \in AnyDomain
  BY DEF QuestionOK, QuestionRecords
<1>2. Further(q, d) = n
  BY DEF Further
<1>3. /\ Len(parts) \in Nat /\ DOMAIN parts = 1..Len(parts) /\ q.at \in DOMAIN parts
      /\ \A k \in DOMAIN parts : /\ Len(parts[k]) \in Nat /\ DOMAIN parts[k] = 1..Len(parts[k])
                                 /\ parts[k] = <<>> <=> Len(parts[k]) = 0
  BY <1>1, PartsShape DEF Waiting
<1>4. Len(parts[q.at]) # 0 /\ Len(parts[q.at]) \in Nat
  BY <1>3 DEF Waiting
<1>5. q.operand <= Len(parts[q.at])
  BY <1>1, <1>3, <1>4 DEF QuestionOK
<1>6. q.operand \in DOMAIN parts[q.at]
  BY <1>1, <1>3, <1>5
<1>7. n \in QuestionRecords
  <2>1. at \in Nat \ {0} /\ operand \in Nat \ {0} /\ Joined(q.known, d) \in AnyDomain
    <3>1. Joined(q.known, d) \in AnyDomain
      BY <1>1, DomainsJoin
    <3> HIDE DEF last
    <3> QED BY <1>1, <3>1
  <2> HIDE DEF at, operand
  <2> QED BY <1>1, <2>1 DEF QuestionRecords
<1>8. operand = 1 \/ (at \in DOMAIN parts /\ operand <= Len(parts[at]))
  BY <1>1, <1>3, <1>4, <1>5
<1>9. QuestionOK(n)
  BY <1>7, <1>8 DEF QuestionOK
<1>10. ASSUME NEW k \in DOMAIN parts, NEW j \in DOMAIN parts[k]
       PROVE  Passed(n, k, j) <=> Passed(q, k, j) \/ (k = q.at /\ j = q.operand)
  <2>1. k \in Nat /\ j \in Nat /\ j >= 1 /\ j <= Len(parts[k]) /\ Len(parts[k]) \in Nat
    BY <1>3, <1>10
  <2>2. n.at = at /\ n.operand = operand
    OBVIOUS
  <2>3. k = q.at => Len(parts[k]) = Len(parts[q.at])
    OBVIOUS
  <2> HIDE DEF n, parts
  <2> QED BY <1>1, <1>4, <1>5, <2>1, <2>2, <2>3 DEF Passed
<1> QED BY <1>2, <1>6, <1>9, <1>10

LEMMA PassOverIs ==
  ASSUME ProgramOK, NEW q, QuestionOK(q), q.at \in DOMAIN Parts(q.of), Parts(q.of)[q.at] = <<>>
  PROVE  LET n == [q EXCEPT !.at = @ + 1]
         IN /\ QuestionOK(n) /\ n.of = q.of /\ n.known = q.known
            /\ \A k \in DOMAIN Parts(q.of) : \A j \in DOMAIN Parts(q.of)[k] :
                 Passed(n, k, j) <=> Passed(q, k, j)
<1> DEFINE n == [q EXCEPT !.at = @ + 1]
<1>1. q = [of |-> q.of, at |-> q.at, operand |-> q.operand, known |-> q.known]
      /\ q.of \in Questions /\ q.at \in Nat \ {0} /\ q.operand \in Nat \ {0} /\ q.known \in AnyDomain
  BY DEF QuestionOK, QuestionRecords
<1>2. n = [of |-> q.of, at |-> q.at + 1, operand |-> q.operand, known |-> q.known]
  BY <1>1
<1>3. Len(Parts(q.of)[q.at]) = 0
  BY <1>1, PartsShape
<1>4. q.operand = 1
  BY <1>1, <1>3 DEF QuestionOK
<1>5. QuestionOK(n)
  BY <1>1, <1>2, <1>4 DEF QuestionOK, QuestionRecords
<1>6. ASSUME NEW k \in DOMAIN Parts(q.of), NEW j \in DOMAIN Parts(q.of)[k]
      PROVE  Passed(n, k, j) <=> Passed(q, k, j)
  <2>1. k \in Nat /\ j \in Nat /\ j >= 1 /\ k # q.at
    BY <1>1, <1>3, <1>6, PartsShape
  <2>2. n.at = q.at + 1 /\ n.operand = 1
    BY <1>2, <1>4
  <2> HIDE DEF n
  <2> QED BY <1>1, <1>4, <2>1, <2>2 DEF Passed
<1> QED BY <1>2, <1>5, <1>6

LEMMA NotDoneIs ==
  ASSUME ProgramOK, NEW q, QuestionOK(q), ~Done(q)
  PROVE  q.at \in DOMAIN Parts(q.of)
BY PartsShape DEF QuestionOK, QuestionRecords, Done

LEMMA DoneIs ==
  ASSUME ProgramOK, NEW q, QuestionOK(q), Done(q), q.known.finite,
         NEW k \in DOMAIN Parts(q.of), NEW j \in DOMAIN Parts(q.of)[k]
  PROVE  Passed(q, k, j)
BY PartsShape DEF QuestionOK, QuestionRecords, Done, Passed

-----------------------------------------------------------------------------
CacheOK(cache) ==
  DOMAIN cache \subseteq DOMAIN program.functions /\ \A f \in DOMAIN cache : cache[f] \in AnyDomain

StackOK ==
  /\ stack \in Seq(QuestionRecords)
  /\ \A k \in DOMAIN stack : QuestionOK(stack[k])
  /\ \A k \in DOMAIN stack : k + 1 \in DOMAIN stack => Waiting(stack[k], stack[k + 1].of)

DomainsTypeInv == ProgramOK /\ CacheOK(domains) /\ CacheOK(earlier) /\ StackOK

\* The domain of a type is all its values, the two classes of a contract, or open.
LEMMA TypesAre ==
  ASSUME NEW f
  PROVE  /\ DomainOfType(f) \in AnyDomain
         /\ ~DomainOfType(f).fallible =>
              DomainOfType(f) = IF f.type = "bool" THEN Finite({0, 1}) ELSE Open
<1>1. Finite({0, 1}) \in AnyDomain /\ Finite({-1, 0}) \in AnyDomain /\ Open \in AnyDomain
  BY DEF AnyDomain, Finite, Open
<1>2. ASSUME NEW d \in AnyDomain
      PROVE  [d EXCEPT !.fallible = TRUE] \in AnyDomain /\ [d EXCEPT !.fallible = TRUE].fallible
  BY DEF AnyDomain
<1>3. /\ [Finite({-1, 0}) EXCEPT !.fallible = TRUE] \in AnyDomain
      /\ [Finite({0, 1}) EXCEPT !.fallible = TRUE] \in AnyDomain
      /\ [Finite({-1, 0}) EXCEPT !.fallible = TRUE].fallible
      /\ [Finite({0, 1}) EXCEPT !.fallible = TRUE].fallible
  BY <1>1, <1>2
<1> QED BY <1>1, <1>3 DEF DomainOfType

LEMMA SearchedCall ==
  ASSUME NEW x, x.kind = "call", Searched(x)
  PROVE  /\ CalleeOf(x).annotated = {} /\ ~DomainOfType(CalleeOf(x)).fallible /\ CalleeOf(x).returns # <<>>
         /\ Provisional(x) = DomainOfType(CalleeOf(x))
BY DEF Searched, Provisional

LEMMA ProvisionalIs ==
  ASSUME NEW x
  PROVE  Provisional(x) \in AnyDomain /\ (x.kind # "call" => Provisional(x) = Open)
<1>1. Open \in AnyDomain
  BY DEF Open, AnyDomain
<1> QED BY <1>1, TypesAre DEF Provisional

LEMMA GivenIs ==
  ASSUME ProgramOK, NEW x \in AnyOperand
  PROVE  Given(x) \in AnyDomain
<1>1. CASE x.kind = "value"
  BY <1>1 DEF Given, AnyOperand, Operands, AnyDomain, Finite
<1>2. CASE x.kind = "call"
  <2>1. x.of \in DOMAIN program.functions
    BY <1>2 DEF AnyOperand, Operands
  <2>2. CalleeOf(x).annotated \subseteq Int
    BY <2>1 DEF ProgramOK, PossibleFunction, CalleeOf
  <2>3. Finite(CalleeOf(x).annotated) \in AnyDomain
    BY <2>2 DEF Finite, AnyDomain
  <2> QED BY <1>2, <2>3, TypesAre DEF Given
<1>3. CASE x.kind \notin {"value", "call"}
  BY <1>3 DEF Given, Open, AnyDomain
<1> QED BY <1>1, <1>2, <1>3

LEMMA AnswerIs ==
  ASSUME ProgramOK, CacheOK(domains), NEW x \in AnyOperand
  PROVE  AnswerAtOnce(x) \in AnyDomain
BY GivenIs, ProvisionalIs DEF AnswerAtOnce, Cached, CacheOK

LEMMA FoundIs ==
  ASSUME NEW q, QuestionOK(q)
  PROVE  Found(q) \in AnyDomain
BY ProvisionalIs DEF Found, QuestionOK, QuestionRecords

LEMMA KeepingIs ==
  ASSUME CacheOK(domains), NEW x, x.kind = "call" => x.of \in DOMAIN program.functions, NEW d \in AnyDomain
  PROVE  /\ CacheOK(Keeping(x, d))
         /\ \A f \in DOMAIN Keeping(x, d) :
              \/ f \in DOMAIN domains /\ Keeping(x, d)[f] = domains[f]
              \/ x.kind = "call" /\ f = x.of /\ Keeping(x, d)[f] = d
BY DEF Keeping, CacheOK

LEMMA FirstQuestion ==
  ASSUME NEW x \in Questions, Searched(x)
  PROVE  /\ QuestionOK(Question(x)) /\ Question(x).of = x /\ Question(x).known = Finite({})
         /\ \A k, j \in Nat \ {0} : ~Passed(Question(x), k, j)
<1>1. Finite({}) \in AnyDomain
  BY DEF Finite, AnyDomain
<1> QED BY <1>1 DEF QuestionOK, Question, QuestionRecords, Passed

-----------------------------------------------------------------------------
\* What the steps do to the stack.

LEMMA StackShape ==
  ASSUME StackOK, stack # <<>>
  PROVE  /\ Len(stack) \in Nat \ {0} /\ DOMAIN stack = 1..Len(stack)
         /\ Top = stack[Len(stack)] /\ QuestionOK(Top) /\ Top.of \in Questions
<1>1. stack \in Seq(QuestionRecords)
  BY DEF StackOK
<1>2. Len(stack) \in Nat \ {0} /\ DOMAIN stack = 1..Len(stack)
  BY <1>1
<1> QED BY <1>2 DEF StackOK, Top, QuestionOK, QuestionRecords

LEMMA PassOverShape ==
  ASSUME ProgramOK, StackOK, PassOver
  PROVE  /\ stack # <<>> /\ DOMAIN stack' = DOMAIN stack /\ stack' \in Seq(QuestionRecords)
         /\ stack'[Len(stack)] = [Top EXCEPT !.at = @ + 1]
         /\ \A k \in DOMAIN stack : k # Len(stack) => stack'[k] = stack[k]
         /\ Top.at \in DOMAIN Parts(Top.of) /\ Parts(Top.of)[Top.at] = <<>>
<1>1. stack # <<>> /\ ~Done(Top) /\ Parts(Top.of)[Top.at] = <<>>
      /\ stack' = [stack EXCEPT ![Len(stack)].at = @ + 1]
  BY DEF PassOver, Searching
<1>2. /\ Len(stack) \in Nat \ {0} /\ DOMAIN stack = 1..Len(stack) /\ Top = stack[Len(stack)]
      /\ QuestionOK(Top) /\ stack \in Seq(QuestionRecords)
  BY <1>1, StackShape DEF StackOK
<1>3. Top.at \in DOMAIN Parts(Top.of)
  BY <1>1, <1>2, NotDoneIs
<1>4. stack' = [stack EXCEPT ![Len(stack)] = [Top EXCEPT !.at = @ + 1]]
  BY <1>1, <1>2
<1>5. [Top EXCEPT !.at = @ + 1] \in QuestionRecords
  BY <1>1, <1>2, <1>3, PassOverIs DEF QuestionOK
<1> DEFINE n == [Top EXCEPT !.at = @ + 1]
<1> HIDE DEF n
<1>6. stack' = [stack EXCEPT ![Len(stack)] = n] /\ n \in QuestionRecords
  BY <1>4, <1>5 DEF n
<1>7. /\ DOMAIN stack' = DOMAIN stack /\ stack' \in Seq(QuestionRecords)
      /\ stack'[Len(stack)] = n
      /\ \A k \in DOMAIN stack : k # Len(stack) => stack'[k] = stack[k]
  BY <1>2, <1>6
<1> QED BY <1>1, <1>3, <1>7 DEF n

LEMMA AnswerShape ==
  ASSUME ProgramOK, CacheOK(domains), StackOK, AnswerOperand
  PROVE  /\ stack # <<>> /\ DOMAIN stack' = DOMAIN stack /\ stack' \in Seq(QuestionRecords)
         /\ stack'[Len(stack)] = Further(Top, AnswerAtOnce(Asked))
         /\ \A k \in DOMAIN stack : k # Len(stack) => stack'[k] = stack[k]
         /\ Waiting(Top, Asked) /\ Asked \in AnyOperand /\ AnswerAtOnce(Asked) \in AnyDomain
         /\ Top.at \in DOMAIN Parts(Top.of) /\ Top.operand \in DOMAIN Parts(Top.of)[Top.at]
<1>1. stack # <<>> /\ ~Done(Top) /\ Parts(Top.of)[Top.at] # <<>>
      /\ stack' = [stack EXCEPT ![Len(stack)] = Further(@, AnswerAtOnce(Asked))]
  BY DEF AnswerOperand, Searching
<1>2. /\ Len(stack) \in Nat \ {0} /\ DOMAIN stack = 1..Len(stack) /\ Top = stack[Len(stack)]
      /\ QuestionOK(Top) /\ stack \in Seq(QuestionRecords) /\ Top.of \in Questions
  BY <1>1, StackShape DEF StackOK
<1>3. Top.at \in DOMAIN Parts(Top.of)
  BY <1>1, <1>2, NotDoneIs
<1>4. Waiting(Top, Asked)
  BY <1>1, <1>3 DEF Waiting, Asked
<1>5. Top.operand \in DOMAIN Parts(Top.of)[Top.at]
  <2>1. Finite({}) \in AnyDomain
    BY DEF Finite, AnyDomain
  <2> QED BY <1>2, <1>4, <2>1, FurtherIs
<1>6. Asked \in AnyOperand
  BY <1>2, <1>3, <1>5, OperandsAre DEF Asked
<1>7. AnswerAtOnce(Asked) \in AnyDomain
  BY <1>6, AnswerIs
<1> DEFINE n == Further(Top, AnswerAtOnce(Asked))
<1>8. n \in QuestionRecords
  BY <1>2, <1>4, <1>7, FurtherIs DEF QuestionOK
<1>9. stack' = [stack EXCEPT ![Len(stack)] = n]
  BY <1>1, <1>2
<1> HIDE DEF n
<1>10. /\ DOMAIN stack' = DOMAIN stack /\ stack' \in Seq(QuestionRecords)
       /\ stack'[Len(stack)] = n
       /\ \A k \in DOMAIN stack : k # Len(stack) => stack'[k] = stack[k]
  BY <1>2, <1>8, <1>9
<1> QED BY <1>1, <1>3, <1>4, <1>5, <1>6, <1>7, <1>10 DEF n

LEMMA SearchShape ==
  ASSUME ProgramOK, StackOK, SearchOperand
  PROVE  /\ stack # <<>> /\ Waiting(Top, Asked) /\ Asked \in Reads(Top.of) /\ Asked \in Questions
         /\ Searched(Asked)
         /\ DOMAIN stack' = 1..(Len(stack) + 1) /\ stack' \in Seq(QuestionRecords)
         /\ stack'[Len(stack) + 1] = Question(Asked)
         /\ \A k \in DOMAIN stack : stack'[k] = stack[k]
<1>1. stack # <<>> /\ ~Done(Top) /\ Parts(Top.of)[Top.at] # <<>> /\ ~KnownAtOnce(Asked)
      /\ stack' = Append(stack, Question(Asked))
  BY DEF SearchOperand, Searching
<1>2. /\ Len(stack) \in Nat \ {0} /\ DOMAIN stack = 1..Len(stack) /\ Top = stack[Len(stack)]
      /\ QuestionOK(Top) /\ stack \in Seq(QuestionRecords) /\ Top.of \in Questions
  BY <1>1, StackShape DEF StackOK
<1>3. Top.at \in DOMAIN Parts(Top.of)
  BY <1>1, <1>2, NotDoneIs
<1>4. Waiting(Top, Asked)
  BY <1>1, <1>3 DEF Waiting, Asked
<1>5. Top.operand \in DOMAIN Parts(Top.of)[Top.at]
  <2>1. Finite({}) \in AnyDomain
    BY DEF Finite, AnyDomain
  <2> QED BY <1>2, <1>4, <2>1, FurtherIs
<1>6. Searched(Asked) /\ Searched(Top.of)
  BY <1>1, <1>2 DEF KnownAtOnce, QuestionOK
<1>7. Asked \in Questions /\ Asked \in Reads(Top.of)
  BY <1>2, <1>3, <1>5, <1>6, OperandsAre DEF Asked
<1>8. Question(Asked) \in QuestionRecords
  BY <1>6, <1>7, FirstQuestion DEF QuestionOK
<1> DEFINE n == Question(Asked)
<1> HIDE DEF n
<1>9. stack' = Append(stack, n) /\ n \in QuestionRecords
  BY <1>1, <1>8 DEF n
<1>10. /\ DOMAIN stack' = 1..(Len(stack) + 1) /\ stack' \in Seq(QuestionRecords)
       /\ stack'[Len(stack) + 1] = n
       /\ \A k \in DOMAIN stack : stack'[k] = stack[k]
  BY <1>2, <1>9
<1> QED BY <1>1, <1>4, <1>6, <1>7, <1>10 DEF n

LEMMA ReturnShape ==
  ASSUME ProgramOK, StackOK, ReturnDomain
  PROVE  /\ stack # <<>> /\ Done(Top) /\ Found(Top) \in AnyDomain
         /\ DOMAIN stack' = 1..(Len(stack) - 1) /\ stack' \in Seq(QuestionRecords)
         /\ \A k \in DOMAIN stack : k < Len(stack) - 1 => stack'[k] = stack[k]
         /\ Len(stack) - 1 \in DOMAIN stack =>
              LET q == stack[Len(stack) - 1]
              IN /\ stack'[Len(stack) - 1] = Further(q, Found(Top))
                 /\ QuestionOK(q) /\ Waiting(q, Top.of) /\ q.of \in Questions
                 /\ q.at \in DOMAIN Parts(q.of) /\ q.operand \in DOMAIN Parts(q.of)[q.at]
                 /\ Top.of \in Reads(q.of)
<1>1. stack # <<>> /\ Done(Top)
      /\ stack' = [k \in 1..(Len(stack) - 1) |->
                     IF k = Len(stack) - 1 THEN Further(stack[k], Found(Top)) ELSE stack[k]]
  BY DEF ReturnDomain, Searching
<1>2. /\ Len(stack) \in Nat \ {0} /\ DOMAIN stack = 1..Len(stack) /\ Top = stack[Len(stack)]
      /\ QuestionOK(Top) /\ stack \in Seq(QuestionRecords) /\ Top.of \in Questions
  BY <1>1, StackShape DEF StackOK
<1>3. Found(Top) \in AnyDomain
  BY <1>2, FoundIs
<1> DEFINE m == Len(stack) - 1
           q == stack[m]
<1>4. ASSUME m \in DOMAIN stack
      PROVE  /\ QuestionOK(q) /\ Waiting(q, Top.of) /\ q.of \in Questions
             /\ Further(q, Found(Top)) \in QuestionRecords
             /\ q.at \in DOMAIN Parts(q.of) /\ q.operand \in DOMAIN Parts(q.of)[q.at]
             /\ Top.of \in Reads(q.of)
  <2>1. m + 1 = Len(stack) /\ m + 1 \in DOMAIN stack
    BY <1>2, <1>4
  <2>2. QuestionOK(q) /\ Waiting(q, stack[m + 1].of)
    BY <1>4, <2>1 DEF StackOK
  <2>3. Waiting(q, Top.of) /\ q.of \in Questions /\ Searched(q.of)
    BY <1>2, <2>1, <2>2 DEF QuestionOK, QuestionRecords
  <2> HIDE DEF q, m
  <2>4. Further(q, Found(Top)) \in QuestionRecords /\ q.operand \in DOMAIN Parts(q.of)[q.at]
    BY <1>3, <2>2, <2>3, FurtherIs DEF QuestionOK
  <2>5. q.at \in DOMAIN Parts(q.of) /\ Top.of = Parts(q.of)[q.at][q.operand]
    BY <2>3 DEF Waiting
  <2>6. Top.of \in Reads(q.of)
    BY <1>2, <2>3, <2>4, <2>5, OperandsAre
  <2> QED BY <2>2, <2>3, <2>4, <2>5, <2>6
<1>5. \A k \in 1..m : (IF k = m THEN Further(stack[k], Found(Top)) ELSE stack[k]) \in QuestionRecords
  <2> SUFFICES ASSUME NEW k \in 1..m
               PROVE  (IF k = m THEN Further(stack[k], Found(Top)) ELSE stack[k]) \in QuestionRecords
    OBVIOUS
  <2>1. k \in DOMAIN stack /\ stack[k] \in QuestionRecords
    BY <1>2
  <2>2. CASE k = m
    <3>1. m \in DOMAIN stack
      BY <2>1, <2>2
    <3> QED BY <1>4, <2>2, <3>1
  <2>3. CASE k # m
    <3> HIDE DEF m
    <3> QED BY <2>1, <2>3
  <2> QED BY <2>2, <2>3
<1>6. m \in Nat /\ \A k \in DOMAIN stack : k < m => k \in 1..m /\ k # m
  BY <1>2
<1>7. DOMAIN stack' = 1..m /\ stack' \in Seq(QuestionRecords)
  BY <1>1, <1>5, <1>6
<1>8. m \in DOMAIN stack => stack'[m] = Further(q, Found(Top))
  <2>1. m \in DOMAIN stack => m \in 1..m
    BY <1>2
  <2>2. stack' = [k \in 1..m |-> IF k = m THEN Further(stack[k], Found(Top)) ELSE stack[k]]
    BY <1>1
  <2> HIDE DEF m
  <2> QED BY <2>1, <2>2
<1>9. \A k \in DOMAIN stack : k < m => stack'[k] = stack[k]
  BY <1>1, <1>6
<1> QED BY <1>1, <1>3, <1>4, <1>7, <1>8, <1>9

\* The program, the caches and the stack have their types, and each question
\* waits for the one above it.
LEMMA TypeStarts ==
  InitDomains => DomainsTypeInv
<1> SUFFICES ASSUME InitDomains PROVE DomainsTypeInv
  OBVIOUS
<1>1. ProgramOK
  BY ProgramsAssumption DEF InitDomains, ProgramOK
<1>2. domains = <<>> /\ earlier = <<>> /\ stack = <<>> /\ DOMAIN <<>> = {} /\ <<>> \in Seq(QuestionRecords)
  BY DEF InitDomains
<1> QED BY <1>1, <1>2 DEF DomainsTypeInv, CacheOK, StackOK

LEMMA ProgramStays ==
  ASSUME [NextDomains]_domainVars
  PROVE  program' = program /\ (ProgramOK => ProgramOK') /\ Questions' = Questions
<1>1. program' = program
  BY DEF NextDomains, domainVars, AskDomain, Searching, PassOver, AnswerOperand, SearchOperand, ReturnDomain,
         AnalyzeAgain, Run
<1> QED BY <1>1 DEF ProgramOK, Questions, PossibleFunction, PossibleVariable, Expressions, Operands

\* The program stays, and with it all that is said of it alone.
LEMMA SameParts ==
  ASSUME program' = program
  PROVE  /\ \A x : CalleeOf(x)' = CalleeOf(x) /\ VariableOf(x)' = VariableOf(x)
         /\ \A v : Arguments(v)' = Arguments(v)
         /\ \A x : Searched(x)' <=> Searched(x)
         /\ \A x : Parts(x)' = Parts(x)
         /\ \A x : Given(x)' = Given(x)
         /\ \A x : Provisional(x)' = Provisional(x)
         /\ Questions' = Questions
<1>1. \A x : CalleeOf(x)' = CalleeOf(x) /\ VariableOf(x)' = VariableOf(x)
  BY DEF CalleeOf, VariableOf
<1>2. \A v : Arguments(v)' = Arguments(v)
  BY DEF Arguments
<1>3. \A x : Searched(x)' <=> Searched(x)
  BY <1>1 DEF Searched
<1>4. \A x : Parts(x)' = Parts(x)
  BY <1>1, <1>2 DEF Parts
<1>5. \A x : Given(x)' = Given(x)
  BY <1>1 DEF Given
<1>6. \A x : Provisional(x)' = Provisional(x)
  BY <1>1 DEF Provisional
<1>7. Questions' = Questions
  BY DEF Questions
<1> QED BY <1>1, <1>2, <1>3, <1>4, <1>5, <1>6, <1>7

LEMMA SameReads ==
  ASSUME program' = program
  PROVE  /\ \A x : Reads(x)' = Reads(x)
         /\ QuestionRecords' = QuestionRecords
         /\ \A x : RestsOn(x)' = RestsOn(x)
         /\ \A q : QuestionOK(q)' <=> QuestionOK(q)
         /\ \A q, x : Waiting(q, x)' <=> Waiting(q, x)
<1>1. \A x : Reads(x)' = Reads(x)
  BY SameParts DEF Reads
<1>2. \A x : RestsOn(x)' = RestsOn(x)
  BY <1>1, SameParts DEF RestsOn
<1>3. QuestionRecords' = QuestionRecords
  BY SameParts DEF QuestionRecords
<1>4. \A q : QuestionOK(q)' <=> QuestionOK(q)
  BY <1>3, SameParts DEF QuestionOK
<1>5. \A q, x : Waiting(q, x)' <=> Waiting(q, x)
  BY SameParts DEF Waiting
<1> QED BY <1>1, <1>2, <1>3, <1>4, <1>5

LEMMA StackKept ==
  ASSUME program' = program, stack' \in Seq(QuestionRecords),
         \A k \in DOMAIN stack' : QuestionOK(stack'[k]),
         \A k \in DOMAIN stack' : k + 1 \in DOMAIN stack' => Waiting(stack'[k], stack'[k + 1].of)
  PROVE  StackOK'
BY SameReads DEF StackOK

LEMMA CachesKept ==
  ASSUME program' = program, CacheOK(domains'), CacheOK(earlier')
  PROVE  CacheOK(domains)' /\ CacheOK(earlier)'
BY DEF CacheOK

LEMMA TypeKept ==
  DomainsTypeInv /\ [NextDomains]_domainVars => DomainsTypeInv'
<1> SUFFICES ASSUME DomainsTypeInv, [NextDomains]_domainVars PROVE DomainsTypeInv'
  OBVIOUS
<1>1. program' = program /\ ProgramOK'
  BY ProgramStays DEF DomainsTypeInv
<1>2. ProgramOK /\ CacheOK(domains) /\ CacheOK(earlier) /\ StackOK
  BY DEF DomainsTypeInv
<1>3. ASSUME CacheOK(domains'), CacheOK(earlier'), StackOK' PROVE DomainsTypeInv'
  BY <1>1, <1>3, CachesKept DEF DomainsTypeInv
<1>4. ASSUME UNCHANGED stack PROVE StackOK'
  BY <1>1, <1>2, <1>4, StackKept DEF StackOK
<1>5. ASSUME NEW f \in DOMAIN program.functions, AskDomain(f)
      PROVE  DomainsTypeInv'
  <2>1. Call(f) \in Questions /\ Call(f).kind = "call" /\ Call(f).of = f
    BY DEF Questions, Call
  <2>2. Call(f) \in AnyOperand
    BY <1>2, <2>1, QuestionKinds
  <2>3. CASE Searched(Call(f))
    <3>1. stack' = <<Question(Call(f))>> /\ UNCHANGED <<domains, earlier>>
      BY <1>5, <2>3 DEF AskDomain
    <3>2. QuestionOK(Question(Call(f)))
      BY <2>1, <2>3, FirstQuestion
    <3>3. Question(Call(f)) \in QuestionRecords
      BY <3>2 DEF QuestionOK
    <3> DEFINE q == Question(Call(f))
    <3> HIDE DEF q
    <3>4. stack' = <<q>> /\ q \in QuestionRecords /\ QuestionOK(q)
      BY <3>1, <3>2, <3>3 DEF q
    <3>5. stack' \in Seq(QuestionRecords) /\ DOMAIN stack' = {1} /\ stack'[1] = q
      BY <3>4
    <3>6. StackOK'
      BY <1>1, <3>4, <3>5, StackKept
    <3> QED BY <1>2, <1>3, <3>1, <3>6
  <2>4. CASE ~Searched(Call(f))
    <3>1. domains' = Keeping(Call(f), Given(Call(f))) /\ UNCHANGED <<stack, earlier>>
      BY <1>5, <2>4 DEF AskDomain
    <3>2. CacheOK(domains')
      BY <1>2, <2>1, <2>2, <3>1, GivenIs, KeepingIs
    <3> QED BY <1>2, <1>3, <1>4, <3>1, <3>2
  <2> QED BY <2>3, <2>4
<1>6. CASE PassOver
  <2>1. UNCHANGED <<domains, earlier>>
    BY <1>6 DEF PassOver, Searching
  <2> DEFINE n == [Top EXCEPT !.at = @ + 1]
  <2>2. /\ stack # <<>> /\ DOMAIN stack' = DOMAIN stack /\ stack' \in Seq(QuestionRecords)
        /\ stack'[Len(stack)] = n
        /\ \A k \in DOMAIN stack : k # Len(stack) => stack'[k] = stack[k]
        /\ Top.at \in DOMAIN Parts(Top.of) /\ Parts(Top.of)[Top.at] = <<>>
    BY <1>2, <1>6, PassOverShape
  <2>3. Len(stack) \in Nat /\ DOMAIN stack = 1..Len(stack) /\ QuestionOK(Top) /\ Top = stack[Len(stack)]
    BY <1>2, <2>2, StackShape
  <2>4. QuestionOK(n) /\ n.of = Top.of
    BY <1>2, <2>2, <2>3, PassOverIs
  <2> HIDE DEF n
  <2>5. StackOK'
    BY <1>1, <1>2, <2>2, <2>3, <2>4, StackKept DEF StackOK
  <2> QED BY <1>2, <1>3, <2>1, <2>5
<1>7. CASE AnswerOperand
  <2>1. domains' = (IF Searched(Asked) THEN domains ELSE Keeping(Asked, AnswerAtOnce(Asked))) /\ UNCHANGED earlier
    BY <1>7 DEF AnswerOperand, Searching
  <2> DEFINE n == Further(Top, AnswerAtOnce(Asked))
  <2>2. /\ stack # <<>> /\ DOMAIN stack' = DOMAIN stack /\ stack' \in Seq(QuestionRecords)
        /\ stack'[Len(stack)] = n
        /\ \A k \in DOMAIN stack : k # Len(stack) => stack'[k] = stack[k]
        /\ Waiting(Top, Asked) /\ Asked \in AnyOperand /\ AnswerAtOnce(Asked) \in AnyDomain
    BY <1>2, <1>7, AnswerShape
  <2>3. Len(stack) \in Nat /\ DOMAIN stack = 1..Len(stack) /\ QuestionOK(Top) /\ Top = stack[Len(stack)]
    BY <1>2, <2>2, StackShape
  <2>4. QuestionOK(n) /\ n.of = Top.of
    BY <1>2, <2>2, <2>3, FurtherIs
  <2> HIDE DEF n
  <2>5. StackOK'
    BY <1>1, <1>2, <2>2, <2>3, <2>4, StackKept DEF StackOK
  <2>6. Asked.kind = "call" => Asked.of \in DOMAIN program.functions
    BY <2>2 DEF AnyOperand, Operands
  <2>7. CacheOK(domains')
    BY <1>2, <2>1, <2>2, <2>6, KeepingIs
  <2> QED BY <1>2, <1>3, <2>1, <2>5, <2>7
<1>8. CASE SearchOperand
  <2>1. UNCHANGED <<domains, earlier>>
    BY <1>8 DEF SearchOperand, Searching
  <2> DEFINE n == Question(Asked)
  <2>2. /\ stack # <<>> /\ Waiting(Top, Asked) /\ Asked \in Questions /\ Searched(Asked)
        /\ DOMAIN stack' = 1..(Len(stack) + 1) /\ stack' \in Seq(QuestionRecords)
        /\ stack'[Len(stack) + 1] = n
        /\ \A k \in DOMAIN stack : stack'[k] = stack[k]
    BY <1>2, <1>8, SearchShape
  <2>3. Len(stack) \in Nat /\ DOMAIN stack = 1..Len(stack) /\ Top = stack[Len(stack)]
    BY <1>2, <2>2, StackShape
  <2>4. QuestionOK(n) /\ n.of = Asked
    BY <2>2, FirstQuestion
  <2> HIDE DEF n
  <2>5. ASSUME NEW k \in DOMAIN stack', k + 1 \in DOMAIN stack'
        PROVE  Waiting(stack'[k], stack'[k + 1].of)
    <3>1. CASE k = Len(stack)
      <4>1. stack'[k] = Top /\ stack'[k + 1].of = Asked
        BY <2>2, <2>3, <2>4, <3>1
      <4> QED BY <2>2, <4>1
    <3>2. CASE k # Len(stack)
      <4>1. k \in DOMAIN stack /\ k + 1 \in DOMAIN stack
        BY <2>2, <2>3, <2>5, <3>2
      <4> QED BY <1>2, <2>2, <4>1 DEF StackOK
    <3> QED BY <3>1, <3>2
  <2>6. \A k \in DOMAIN stack' : QuestionOK(stack'[k])
    BY <1>2, <2>2, <2>3, <2>4 DEF StackOK
  <2>7. StackOK'
    BY <1>1, <2>2, <2>5, <2>6, StackKept
  <2> QED BY <1>2, <1>3, <2>1, <2>7
<1>9. CASE ReturnDomain
  <2> DEFINE m == Len(stack) - 1
             q == stack[m]
             n == Further(q, Found(Top))
  <2>1. domains' = Keeping(Top.of, Found(Top)) /\ UNCHANGED earlier
    BY <1>9 DEF ReturnDomain, Searching
  <2>2. /\ stack # <<>> /\ Found(Top) \in AnyDomain
        /\ DOMAIN stack' = 1..m /\ stack' \in Seq(QuestionRecords)
        /\ \A k \in DOMAIN stack : k < m => stack'[k] = stack[k]
        /\ m \in DOMAIN stack => stack'[m] = n /\ QuestionOK(q) /\ Waiting(q, Top.of)
    BY <1>2, <1>9, ReturnShape
  <2>3. Len(stack) \in Nat \ {0} /\ DOMAIN stack = 1..Len(stack) /\ QuestionOK(Top) /\ Top = stack[Len(stack)]
        /\ Top.of \in Questions
    BY <1>2, <2>2, StackShape
  <2>4. m \in DOMAIN stack => QuestionOK(n) /\ n.of = q.of
    BY <1>2, <2>2, FurtherIs
  <2>5. Top.of.kind = "call" => Top.of.of \in DOMAIN program.functions
    BY <1>2, <2>3, QuestionKinds
  <2>6. CacheOK(domains')
    BY <1>2, <2>1, <2>2, <2>5, KeepingIs
  <2> HIDE DEF n
  <2>7. ASSUME NEW k \in DOMAIN stack'
        PROVE  /\ QuestionOK(stack'[k])
               /\ k + 1 \in DOMAIN stack' => Waiting(stack'[k], stack'[k + 1].of)
    <3>1. k \in DOMAIN stack /\ m \in DOMAIN stack /\ (k < m \/ k = m)
      BY <2>2, <2>3, <2>7
    <3>2. CASE k = m
      BY <2>2, <2>3, <2>4, <3>1, <3>2
    <3>3. CASE k < m
      <4>1. k + 1 \in DOMAIN stack /\ stack'[k] = stack[k] /\ stack'[k + 1].of = stack[k + 1].of
        BY <2>2, <2>3, <2>4, <3>1, <3>3
      <4>2. QuestionOK(stack[k]) /\ Waiting(stack[k], stack[k + 1].of)
        BY <1>2, <3>1, <4>1 DEF StackOK
      <4> QED BY <4>1, <4>2
    <3> QED BY <3>1, <3>2, <3>3
  <2>8. StackOK'
    BY <1>1, <2>2, <2>7, StackKept
  <2> QED BY <1>2, <1>3, <2>1, <2>6, <2>8
<1>10. CASE AnalyzeAgain
  <2>1. CacheOK(<<>>)
    BY DEF CacheOK
  <2> QED BY <1>2, <1>3, <1>4, <1>10, <2>1 DEF AnalyzeAgain
<1>11. CASE Run \/ UNCHANGED domainVars
  BY <1>2, <1>3, <1>4, <1>11 DEF Run, domainVars
<1> QED BY <1>5, <1>6, <1>7, <1>8, <1>9, <1>10, <1>11 DEF NextDomains


-----------------------------------------------------------------------------
\* What holds in every context the program may run in.

\* Nothing is returned or held that does not come from somewhere.
Sourced(env) ==
  /\ \A f \in DOMAIN program.functions : env.functions[f] \subseteq Returned(program.functions[f], env)
  /\ \A v \in DOMAIN program.variables : env.variables[v] \subseteq HeldBy(program.variables[v], env)

Less(a, b) ==
  /\ \A f \in DOMAIN program.functions : a.functions[f] \subseteq b.functions[f]
  /\ \A v \in DOMAIN program.variables : a.variables[v] \subseteq b.variables[v]

ApproximateFor(x, env) ==
  IF x.kind = "call"
  THEN /\ CalleeOf(x).annotated = {}
       /\ \/ DomainOfType(CalleeOf(x)).fallible
          \/ CalleeOf(x).type = "bool" /\ ~(ValuesIn(CalleeOf(x).returns, env) \subseteq {0, 1})
  ELSE LET v == VariableOf(x)
       IN CASE v.scope = "parameter" -> v.writes # <<>> \/ program.functions[v.of].external
            [] v.scope = "local" -> \E k \in DOMAIN v.writes : ~v.writes[k].before
            [] OTHER -> ~\E k \in DOMAIN v.writes : v.writes[k].how = "initial"

Holds(x, d, env) ==
  d.finite => /\ x.kind # "opaque"
              /\ \/ ValuesOf(x, env) \subseteq d.values
                 \/ x \in Questions /\ \E y \in RestsOn(x) : ApproximateFor(y, env)

\* What is known while a question is open holds for the operands looked at.
Gathers(q, env) ==
  q.known.finite =>
    \A k \in DOMAIN Parts(q.of) : \A j \in DOMAIN Parts(q.of)[k] :
      Passed(q, k, j) =>
        /\ Parts(q.of)[k][j].kind # "opaque"
        /\ \/ ValuesOf(Parts(q.of)[k][j], env) \subseteq q.known.values
           \/ \E y \in RestsOn(q.of) : ApproximateFor(y, env)

CacheHolds(cache, env) == \A f \in DOMAIN cache : Holds(Call(f), cache[f], env)

HoldInv ==
  \A env : Sourced(env) => /\ CacheHolds(domains, env)
                           /\ \A k \in DOMAIN stack : Gathers(stack[k], env)

LEMMA LinksWithin == Links \in SUBSET (Questions \X Questions)
BY DEF Links, Reads

LEMMA RestsOnSelf ==
  ASSUME NEW x \in Questions
  PROVE  x \in RestsOn(x)
BY ReachedSelf, RestsOnIsReached

LEMMA RestsOnRead ==
  ASSUME NEW x \in Questions, NEW y \in Reads(x)
  PROVE  RestsOn(y) \subseteq RestsOn(x) /\ y \in Questions
<1>1. y \in Questions
  BY DEF Reads
<1>2. <<x, y>> \in Links
  BY LinksAre
<1>3. x \in ReachedBy(Links, x)
  BY ReachedSelf
<1>4. y \in ReachedBy(Links, x)
  BY <1>1, <1>2, <1>3, ReachedStep
<1>5. ReachedBy(Links, y) \subseteq ReachedBy(Links, x)
  BY <1>4, LinksWithin, ReachedOnwards
<1> QED BY <1>1, <1>5, RestsOnIsReached

\* A function returns what its annotation says, or what its type can hold.
LEMMA TypeHolds ==
  ASSUME ProgramOK, NEW env, Sourced(env), NEW x \in Questions, x.kind = "call",
         CalleeOf(x).annotated = {}, ~DomainOfType(CalleeOf(x)).fallible, DomainOfType(CalleeOf(x)).finite
  PROVE  ValuesOf(x, env) \subseteq DomainOfType(CalleeOf(x)).values
<1> DEFINE f == CalleeOf(x)
<1>1. DomainOfType(f) = Finite({0, 1}) /\ f.type = "bool"
  BY TypesAre DEF Open
<1>2. x.of \in DOMAIN program.functions /\ f = program.functions[x.of]
  BY QuestionKinds DEF CalleeOf
<1>3. ValuesOf(x, env) = env.functions[x.of]
  BY DEF ValuesOf
<1>4. ValuesOf(x, env) \subseteq Returned(f, env)
  BY <1>2, <1>3 DEF Sourced
<1>5. Returned(f, env) \subseteq {0, 1}
  BY <1>1 DEF Returned, TypedValue
<1> QED BY <1>1, <1>4, <1>5 DEF Finite

LEMMA GivenHolds ==
  ASSUME ProgramOK, NEW env, Sourced(env), NEW x \in AnyOperand, ~Searched(x)
  PROVE  Holds(x, Given(x), env)
<1>1. CASE x.kind = "value"
  BY <1>1 DEF Holds, Given, Finite, ValuesOf
<1>2. CASE x.kind = "call"
  <2>1. x \in Questions /\ x.of \in DOMAIN program.functions
    BY <1>2 DEF AnyOperand, Operands, Questions, Call
  <2>2. ValuesOf(x, env) = env.functions[x.of]
    BY <1>2 DEF ValuesOf
  <2>3. CASE CalleeOf(x).annotated # {}
    <3>1. env.functions[x.of] \subseteq CalleeOf(x).annotated
      BY <2>1, <2>3 DEF Sourced, Returned, CalleeOf
    <3> QED BY <1>2, <2>2, <2>3, <3>1 DEF Holds, Given, Finite
  <2>4. CASE CalleeOf(x).annotated = {}
    <3>1. Given(x) = DomainOfType(CalleeOf(x))
      BY <1>2, <2>4 DEF Given
    <3>2. CASE DomainOfType(CalleeOf(x)).fallible
      <4>1. ApproximateFor(x, env)
        BY <1>2, <2>4, <3>2 DEF ApproximateFor
      <4> QED BY <1>2, <2>1, <4>1, RestsOnSelf DEF Holds
    <3>3. CASE ~DomainOfType(CalleeOf(x)).fallible
      BY <1>2, <2>1, <2>4, <3>1, <3>3, TypeHolds DEF Holds
    <3> QED BY <3>2, <3>3
  <2> QED BY <2>3, <2>4
<1>3. CASE x.kind \notin {"value", "call"}
  BY <1>3 DEF Given, Open, Holds
<1> QED BY <1>1, <1>2, <1>3

LEMMA ProvisionalHolds ==
  ASSUME ProgramOK, NEW env, Sourced(env), NEW x \in Questions, Searched(x)
  PROVE  Holds(x, Provisional(x), env)
<1>1. CASE x.kind = "call"
  BY <1>1, SearchedCall, TypeHolds DEF Holds
<1>2. CASE x.kind # "call"
  BY <1>2, ProvisionalIs DEF Holds, Open
<1> QED BY <1>1, <1>2

LEMMA AnswerHolds ==
  ASSUME ProgramOK, NEW env, Sourced(env), CacheHolds(domains, env), NEW x \in AnyOperand,
         KnownAtOnce(x), Searched(x) => x \in Questions
  PROVE  Holds(x, AnswerAtOnce(x), env)
<1>1. CASE Cached(x)
  <2>1. x = Call(x.of) /\ x.of \in DOMAIN domains
    BY <1>1 DEF Cached, AnyOperand, Operands, Call
  <2> QED BY <1>1, <2>1 DEF CacheHolds, AnswerAtOnce
<1>2. CASE ~Cached(x) /\ ~Searched(x)
  BY <1>2, GivenHolds DEF AnswerAtOnce
<1>3. CASE ~Cached(x) /\ Searched(x)
  BY <1>3, ProvisionalHolds DEF AnswerAtOnce
<1> QED BY <1>1, <1>2, <1>3

\* What is looked at supplies all values, unless the answer is approximate.
LEMMA PointerSupplied ==
  ASSUME ProgramOK, NEW env, NEW x \in Questions, x.kind = "pointer",
         ~ApproximateFor(x, env),
         \A k \in DOMAIN Parts(x) : \A j \in DOMAIN Parts(x)[k] : Parts(x)[k][j].kind # "opaque"
  PROVE  ValuesOf(x, env) \subseteq ValuesIn(Parts(x), env)
<1> DEFINE v == VariableOf(x)
           passed == Arguments(v)
<1>1. v.scope = "parameter" /\ x.of \in DOMAIN program.variables /\ ~program.functions[v.of].external
  BY QuestionKinds DEF ApproximateFor
<1>2. passed \in Seq(Expressions(program))
  BY <1>1, ArgumentsAre DEF VariableOf
<1>3. Parts(x) = [k \in DOMAIN passed |-> Called(passed[k])]
  BY DEF Parts
<1>4. ValuesOf(x, env) =
        UNION {UNION {IF argument[j].kind = "function" THEN env.functions[argument[j].of]
                      ELSE Universe : j \in DOMAIN argument} : argument \in {passed[k] : k \in DOMAIN passed}}
  BY <1>1 DEF ValuesOf
<1> SUFFICES ASSUME NEW n \in ValuesOf(x, env) PROVE n \in ValuesIn(Parts(x), env)
  OBVIOUS
<1> HIDE DEF passed
<1>5. PICK k \in DOMAIN passed : \E j \in DOMAIN passed[k] :
        n \in (IF passed[k][j].kind = "function" THEN env.functions[passed[k][j].of] ELSE Universe)
  BY <1>4
<1>15. PICK j \in DOMAIN passed[k] :
        n \in (IF passed[k][j].kind = "function" THEN env.functions[passed[k][j].of] ELSE Universe)
  BY <1>5
<1>6. passed[k] \in Expressions(program)
  BY <1>2
<1>7. DOMAIN passed[k] = 1..Len(passed[k])
  BY <1>6 DEF Expressions
<1>8. passed[k] # <<>>
  BY <1>15, <1>7
<1>9. k \in DOMAIN Parts(x) /\ Parts(x)[k] = Called(passed[k])
  BY <1>3
<1>10. Len(passed[k]) = 1 /\ passed[k][1].kind = "function"
  <2>1. SUFFICES ASSUME ~(Len(passed[k]) = 1 /\ passed[k][1].kind = "function") PROVE FALSE
    OBVIOUS
  <2>2. Parts(x)[k] = <<[kind |-> "opaque"]>>
    BY <1>8, <1>9, <2>1 DEF Called
  <2>3. 1 \in DOMAIN Parts(x)[k] /\ Parts(x)[k][1].kind = "opaque"
    BY <2>2
  <2> QED BY <1>9, <2>3
<1>11. Parts(x)[k] = <<Call(passed[k][1].of)>>
  BY <1>8, <1>9, <1>10 DEF Called
<1>12. 1 \in DOMAIN Parts(x)[k] /\ ValuesOf(Parts(x)[k][1], env) = env.functions[passed[k][1].of]
  BY <1>11 DEF ValuesOf, Call
<1>13. j = 1
  BY <1>15, <1>7, <1>10
<1>14. n \in ValuesOf(Parts(x)[k][1], env)
  BY <1>15, <1>10, <1>12, <1>13
<1> QED BY <1>9, <1>12, <1>14 DEF ValuesIn

LEMMA CallSupplied ==
  ASSUME ProgramOK, NEW env, Sourced(env), NEW x \in Questions, x.kind = "call", Searched(x),
         ~ApproximateFor(x, env)
  PROVE  ValuesOf(x, env) \subseteq ValuesIn(Parts(x), env)
<1> DEFINE f == CalleeOf(x)
<1>1. f.annotated = {} /\ f.returns # <<>> /\ Parts(x) = f.returns
  BY SearchedCall DEF Parts
<1>2. x.of \in DOMAIN program.functions /\ f = program.functions[x.of]
  BY QuestionKinds DEF CalleeOf
<1>3. ValuesOf(x, env) \subseteq Returned(f, env)
  BY <1>2 DEF Sourced, ValuesOf
<1>4. Returned(f, env) = {TypedValue(f.type, n) : n \in ValuesIn(f.returns, env)}
  BY <1>1 DEF Returned
<1>5. f.type = "bool" => ValuesIn(f.returns, env) \subseteq {0, 1}
  BY <1>1 DEF ApproximateFor
<1>6. \A n \in ValuesIn(f.returns, env) : TypedValue(f.type, n) = n
  BY <1>5 DEF TypedValue
<1> QED BY <1>1, <1>3, <1>4, <1>6

LEMMA VariableSupplied ==
  ASSUME ProgramOK, NEW env, Sourced(env), NEW x \in Questions, x.kind = "variable", Searched(x),
         ~ApproximateFor(x, env)
  PROVE  ValuesOf(x, env) \subseteq ValuesIn(Parts(x), env)
<1> DEFINE v == VariableOf(x)
<1>1. x.of \in DOMAIN program.variables /\ v = program.variables[x.of]
  BY QuestionKinds DEF VariableOf
<1>2. v.scope \in {"local", "global", "parameter"} /\ v.writes \in Seq([value : Expressions(program), how : {"initial", "plain", "other"}, before : BOOLEAN])
  BY <1>1 DEF ProgramOK, PossibleVariable
<1>3. ValuesOf(x, env) \subseteq HeldBy(v, env)
  BY <1>1 DEF Sourced, ValuesOf
<1> DEFINE all == [k \in DOMAIN v.writes |-> v.writes[k].value]
<1>4. CASE v.scope = "parameter"
  <2>1. v.writes = <<>> /\ ~program.functions[v.of].external
    BY <1>4 DEF ApproximateFor
  <2>2. Parts(x) = Arguments(v)
    BY <1>4 DEF Parts
  <2>3. DOMAIN v.writes = {}
    BY <2>1
  <2>4. HeldBy(v, env) = ValuesIn(all, env) \cup ValuesIn(Arguments(v), env)
    BY <1>4, <2>1, <2>3 DEF HeldBy
  <2>5. ValuesIn(all, env) = {}
    BY <2>3 DEF ValuesIn
  <2> QED BY <1>3, <2>2, <2>4, <2>5
<1>5. CASE v.scope # "parameter"
  <2>1. ~NoSimpleWrites(v)
    BY <1>5 DEF Searched
  <2>2. \A k \in DOMAIN v.writes : Relevant(v, k)
    BY <1>2, <1>5 DEF ApproximateFor, Relevant
  <2>3. ~\E k \in DOMAIN v.writes : v.writes[k].how = "other"
    BY <2>1, <2>2 DEF NoSimpleWrites
  <2>4. v.scope = "global" => \E k \in DOMAIN v.writes : v.writes[k].how = "initial"
    BY <1>5 DEF ApproximateFor
  <2>5. HeldBy(v, env) = ValuesIn(all, env)
    BY <1>5, <2>3, <2>4 DEF HeldBy
  <2>6. Parts(x) = all
    BY <1>5, <2>2 DEF Parts
  <2> QED BY <1>3, <2>5, <2>6
<1> QED BY <1>4, <1>5

LEMMA FoundHolds ==
  ASSUME ProgramOK, NEW env, Sourced(env), NEW q, QuestionOK(q), Done(q), Gathers(q, env)
  PROVE  Holds(q.of, Found(q), env)
<1> DEFINE x == q.of
<1>1. x \in Questions /\ Searched(x)
  BY DEF QuestionOK, QuestionRecords
<1>2. CASE ~q.known.finite
  BY <1>1, <1>2, ProvisionalHolds DEF Found
<1>3. CASE q.known.finite
  <2>1. Found(q) = q.known
    BY <1>3 DEF Found
  <2>2. x.kind # "opaque"
    BY <1>1, QuestionKinds
  <2>3. CASE \E y \in RestsOn(x) : ApproximateFor(y, env)
    BY <1>1, <2>1, <2>2, <2>3 DEF Holds
  <2>4. CASE ~\E y \in RestsOn(x) : ApproximateFor(y, env)
    <3>1. \A k \in DOMAIN Parts(x) : \A j \in DOMAIN Parts(x)[k] :
            Parts(x)[k][j].kind # "opaque" /\ ValuesOf(Parts(x)[k][j], env) \subseteq q.known.values
      BY <1>3, <2>4, DoneIs DEF Gathers
    <3>2. ValuesIn(Parts(x), env) \subseteq q.known.values
      BY <3>1 DEF ValuesIn
    <3>3. ~ApproximateFor(x, env)
      BY <1>1, <2>4, RestsOnSelf
    <3>4. ValuesOf(x, env) \subseteq ValuesIn(Parts(x), env)
      BY <1>1, <3>1, <3>3, PointerSupplied, CallSupplied, VariableSupplied, QuestionKinds
    <3> QED BY <2>1, <2>2, <3>2, <3>4 DEF Holds
  <2> QED BY <2>3, <2>4
<1> QED BY <1>2, <1>3


-----------------------------------------------------------------------------
LEMMA SameHolds ==
  ASSUME program' = program
  PROVE  /\ \A x, env : ValuesOf(x, env)' = ValuesOf(x, env)
         /\ \A env : Sourced(env)' <=> Sourced(env)
         /\ \A x, d, env : Holds(x, d, env)' <=> Holds(x, d, env)
         /\ \A q, env : Gathers(q, env)' <=> Gathers(q, env)
         /\ \A cache, env : CacheHolds(cache, env)' <=> CacheHolds(cache, env)
<1>1. \A x, env : ValuesOf(x, env)' = ValuesOf(x, env)
  BY SameParts DEF ValuesOf
<1>2. \A e, env : ValuesIn(e, env)' = ValuesIn(e, env)
  BY <1>1 DEF ValuesIn
<1>3. \A f, env : Returned(f, env)' = Returned(f, env)
  BY <1>2 DEF Returned
<1>4. \A v, env : HeldBy(v, env)' = HeldBy(v, env)
  BY <1>2, SameParts DEF HeldBy
<1>5. \A env : Sourced(env)' <=> Sourced(env)
  BY <1>3, <1>4 DEF Sourced
<1>6. \A x, env : ApproximateFor(x, env)' <=> ApproximateFor(x, env)
  BY <1>2, SameParts DEF ApproximateFor
<1>7. \A x, d, env : Holds(x, d, env)' <=> Holds(x, d, env)
  BY <1>1, <1>6, SameParts, SameReads DEF Holds
<1>8. \A q, env : Gathers(q, env)' <=> Gathers(q, env)
  BY <1>1, <1>6, SameParts, SameReads DEF Gathers
<1>9. \A cache, env : CacheHolds(cache, env)' <=> CacheHolds(cache, env)
  BY <1>7 DEF CacheHolds
<1> QED BY <1>1, <1>5, <1>7, <1>8, <1>9

LEMMA HoldKeptIf ==
  ASSUME program' = program,
         \A env : Sourced(env) => /\ CacheHolds(domains', env)
                                  /\ \A k \in DOMAIN stack' : Gathers(stack'[k], env)
  PROVE  HoldInv'
BY SameHolds DEF HoldInv

LEMMA KeepingHolds ==
  ASSUME NEW env, CacheHolds(domains, env), NEW x, NEW d,
         x.kind = "call" => Holds(Call(x.of), d, env)
  PROVE  CacheHolds(Keeping(x, d), env)
BY DEF Keeping, CacheHolds

LEMMA FurtherGathers ==
  ASSUME ProgramOK, NEW env, NEW q, QuestionOK(q), Gathers(q, env), NEW x, Waiting(q, x), NEW d \in AnyDomain,
         Holds(x, d, env)
  PROVE  Gathers(Further(q, d), env)
<1> DEFINE n == Further(q, d)
<1>1. /\ n.of = q.of /\ n.known = Joined(q.known, d) /\ q.operand \in DOMAIN Parts(q.of)[q.at]
      /\ \A k \in DOMAIN Parts(q.of) : \A j \in DOMAIN Parts(q.of)[k] :
           Passed(n, k, j) <=> Passed(q, k, j) \/ (k = q.at /\ j = q.operand)
  BY FurtherIs
<1>2. q.known \in AnyDomain /\ q.of \in Questions /\ Searched(q.of)
  BY DEF QuestionOK, QuestionRecords
<1> HIDE DEF n
<1>3. SUFFICES ASSUME n.known.finite, NEW k \in DOMAIN Parts(q.of), NEW j \in DOMAIN Parts(q.of)[k], Passed(n, k, j)
      PROVE  /\ Parts(q.of)[k][j].kind # "opaque"
             /\ \/ ValuesOf(Parts(q.of)[k][j], env) \subseteq n.known.values
                \/ \E y \in RestsOn(q.of) : ApproximateFor(y, env)
  BY <1>1 DEF Gathers, n
<1>4. q.known.finite /\ d.finite /\ n.known.values = q.known.values \cup d.values
  <2>1. q.known.finite /\ d.finite
    <3>1. CASE ~(q.known.finite /\ d.finite)
      <4>1. n.known = Open
        BY <1>1, <1>2, <3>1, DomainsJoin
      <4> QED BY <1>3, <4>1 DEF Open
    <3> QED BY <3>1
  <2>2. n.known = Finite(q.known.values \cup d.values)
    BY <1>1, <1>2, <2>1, DomainsJoin
  <2> QED BY <2>1, <2>2 DEF Finite
<1>5. CASE Passed(q, k, j)
  BY <1>3, <1>4, <1>5 DEF Gathers
<1>6. CASE k = q.at /\ j = q.operand
  <2>1. Parts(q.of)[k][j] = x
    BY <1>6 DEF Waiting
  <2>2. x \in Questions => x \in Reads(q.of)
    BY <1>2, <2>1, OperandsAre
  <2>3. x \in Questions => RestsOn(x) \subseteq RestsOn(q.of)
    BY <1>2, <2>2, RestsOnRead
  <2> QED BY <1>4, <2>1, <2>3 DEF Holds
<1> QED BY <1>1, <1>3, <1>5, <1>6

LEMMA HoldStarts ==
  InitDomains => HoldInv
BY DEF InitDomains, HoldInv, CacheHolds

LEMMA HoldKept ==
  DomainsTypeInv /\ HoldInv /\ [NextDomains]_domainVars => HoldInv'
<1> SUFFICES ASSUME DomainsTypeInv, HoldInv, [NextDomains]_domainVars PROVE HoldInv'
  OBVIOUS
<1>1. program' = program
  BY ProgramStays
<1>2. ProgramOK /\ CacheOK(domains) /\ StackOK
  BY DEF DomainsTypeInv
<1> SUFFICES ASSUME NEW env, Sourced(env)
             PROVE  /\ CacheHolds(domains', env)
                    /\ \A k \in DOMAIN stack' : Gathers(stack'[k], env)
  BY <1>1, HoldKeptIf
<1>3. CacheHolds(domains, env) /\ \A k \in DOMAIN stack : Gathers(stack[k], env)
  BY DEF HoldInv
<1>4. ASSUME NEW f \in DOMAIN program.functions, AskDomain(f)
      PROVE  /\ CacheHolds(domains', env)
             /\ \A k \in DOMAIN stack' : Gathers(stack'[k], env)
  <2>1. Call(f) \in Questions /\ Call(f).kind = "call" /\ Call(f).of = f
    BY DEF Questions, Call
  <2>2. Call(f) \in AnyOperand
    BY <1>2, <2>1, QuestionKinds
  <2>3. CASE Searched(Call(f))
    <3> DEFINE q == Question(Call(f))
    <3>1. stack' = <<q>> /\ UNCHANGED domains
      BY <1>4, <2>3 DEF AskDomain
    <3>2. q.of = Call(f) /\ \A k, j \in Nat \ {0} : ~Passed(q, k, j)
      BY <2>1, <2>3, FirstQuestion
    <3> HIDE DEF q
    <3>3. Gathers(q, env)
      <4>1. \A k \in DOMAIN Parts(q.of) : k \in Nat \ {0} /\ \A j \in DOMAIN Parts(q.of)[k] : j \in Nat \ {0}
        BY <1>2, <2>1, <3>2, PartsShape
      <4> QED BY <3>2, <4>1 DEF Gathers
    <3>4. DOMAIN stack' = {1} /\ stack'[1] = q
      BY <3>1
    <3> QED BY <1>3, <3>1, <3>3, <3>4
  <2>4. CASE ~Searched(Call(f))
    <3>1. domains' = Keeping(Call(f), Given(Call(f))) /\ UNCHANGED stack
      BY <1>4, <2>4 DEF AskDomain
    <3>2. Holds(Call(f), Given(Call(f)), env)
      BY <1>2, <2>2, <2>4, GivenHolds
    <3>3. CacheHolds(domains', env)
      BY <1>3, <2>1, <3>1, <3>2, KeepingHolds
    <3> QED BY <1>3, <3>1, <3>3
  <2> QED BY <2>3, <2>4
<1>5. CASE PassOver
  <2> DEFINE n == [Top EXCEPT !.at = @ + 1]
  <2>1. /\ stack # <<>> /\ DOMAIN stack' = DOMAIN stack
        /\ stack'[Len(stack)] = n
        /\ \A k \in DOMAIN stack : k # Len(stack) => stack'[k] = stack[k]
        /\ Top.at \in DOMAIN Parts(Top.of) /\ Parts(Top.of)[Top.at] = <<>>
    BY <1>2, <1>5, PassOverShape
  <2>2. Len(stack) \in DOMAIN stack /\ QuestionOK(Top) /\ Top = stack[Len(stack)]
    BY <1>2, <2>1, StackShape
  <2>3. /\ n.of = Top.of /\ n.known = Top.known
        /\ \A k \in DOMAIN Parts(Top.of) : \A j \in DOMAIN Parts(Top.of)[k] : Passed(n, k, j) <=> Passed(Top, k, j)
    BY <1>2, <2>1, <2>2, PassOverIs
  <2> HIDE DEF n
  <2>4. Gathers(n, env)
    BY <1>3, <2>2, <2>3 DEF Gathers
  <2>5. UNCHANGED domains
    BY <1>5 DEF PassOver
  <2> QED BY <1>3, <2>1, <2>4, <2>5
<1>6. CASE AnswerOperand
  <2> DEFINE n == Further(Top, AnswerAtOnce(Asked))
  <2>1. /\ stack # <<>> /\ DOMAIN stack' = DOMAIN stack
        /\ stack'[Len(stack)] = n
        /\ \A k \in DOMAIN stack : k # Len(stack) => stack'[k] = stack[k]
        /\ Waiting(Top, Asked) /\ Asked \in AnyOperand /\ AnswerAtOnce(Asked) \in AnyDomain
        /\ Top.at \in DOMAIN Parts(Top.of) /\ Top.operand \in DOMAIN Parts(Top.of)[Top.at]
    BY <1>2, <1>6, AnswerShape
  <2>2. Len(stack) \in DOMAIN stack /\ QuestionOK(Top) /\ Top = stack[Len(stack)] /\ Top.of \in Questions
    BY <1>2, <2>1, StackShape
  <2>3. domains' = (IF Searched(Asked) THEN domains ELSE Keeping(Asked, AnswerAtOnce(Asked))) /\ KnownAtOnce(Asked)
    BY <1>6 DEF AnswerOperand
  <2>4. Searched(Asked) => Asked \in Questions
    BY <1>2, <2>1, <2>2, OperandsAre DEF Asked
  <2>5. Holds(Asked, AnswerAtOnce(Asked), env)
    BY <1>2, <1>3, <2>1, <2>3, <2>4, AnswerHolds
  <2>6. Gathers(n, env)
    BY <1>2, <1>3, <2>1, <2>2, <2>5, FurtherGathers
  <2>7. Asked.kind = "call" => Asked = Call(Asked.of)
    BY <2>1 DEF AnyOperand, Operands, Call
  <2>8. CacheHolds(domains', env)
    BY <1>3, <2>3, <2>5, <2>7, KeepingHolds
  <2> HIDE DEF n
  <2> QED BY <1>3, <2>1, <2>6, <2>8
<1>7. CASE SearchOperand
  <2> DEFINE q == Question(Asked)
  <2>1. /\ stack # <<>> /\ Asked \in Questions /\ Searched(Asked)
        /\ DOMAIN stack' = 1..(Len(stack) + 1)
        /\ stack'[Len(stack) + 1] = q
        /\ \A k \in DOMAIN stack : stack'[k] = stack[k]
    BY <1>2, <1>7, SearchShape
  <2>2. Len(stack) \in Nat /\ DOMAIN stack = 1..Len(stack)
    BY <1>2, <2>1, StackShape
  <2>3. q.of = Asked /\ \A k, j \in Nat \ {0} : ~Passed(q, k, j)
    BY <2>1, FirstQuestion
  <2> HIDE DEF q
  <2>4. Gathers(q, env)
    <3>1. \A k \in DOMAIN Parts(q.of) : k \in Nat \ {0} /\ \A j \in DOMAIN Parts(q.of)[k] : j \in Nat \ {0}
      BY <1>2, <2>1, <2>3, PartsShape
    <3> QED BY <2>3, <3>1 DEF Gathers
  <2>5. UNCHANGED domains
    BY <1>7 DEF SearchOperand
  <2>6. \A k \in DOMAIN stack' : k \in DOMAIN stack \/ k = Len(stack) + 1
    BY <2>1, <2>2
  <2> QED BY <1>3, <2>1, <2>4, <2>5, <2>6
<1>8. CASE ReturnDomain
  <2> DEFINE m == Len(stack) - 1
             q == stack[m]
             n == Further(q, Found(Top))
  <2>1. /\ stack # <<>> /\ Done(Top) /\ Found(Top) \in AnyDomain
        /\ DOMAIN stack' = 1..m
        /\ \A k \in DOMAIN stack : k < m => stack'[k] = stack[k]
        /\ m \in DOMAIN stack => stack'[m] = n /\ QuestionOK(q) /\ Waiting(q, Top.of)
    BY <1>2, <1>8, ReturnShape
  <2>2. Len(stack) \in Nat \ {0} /\ DOMAIN stack = 1..Len(stack) /\ QuestionOK(Top) /\ Top = stack[Len(stack)]
        /\ Top.of \in Questions
    BY <1>2, <2>1, StackShape
  <2>3. Holds(Top.of, Found(Top), env)
    BY <1>2, <1>3, <2>1, <2>2, FoundHolds
  <2>4. CacheHolds(domains', env)
    <3>1. domains' = Keeping(Top.of, Found(Top))
      BY <1>8 DEF ReturnDomain
    <3>2. Top.of.kind = "call" => Top.of = Call(Top.of.of)
      BY <1>2, <2>2, QuestionKinds
    <3> QED BY <1>3, <2>3, <3>1, <3>2, KeepingHolds
  <2>5. m \in DOMAIN stack => Gathers(n, env)
    BY <1>2, <1>3, <2>1, <2>3, FurtherGathers
  <2> HIDE DEF n
  <2>6. ASSUME NEW k \in DOMAIN stack' PROVE Gathers(stack'[k], env)
    <3>1. k \in DOMAIN stack /\ m \in DOMAIN stack /\ (k < m \/ k = m)
      BY <2>1, <2>2, <2>6
    <3> QED BY <1>3, <2>1, <2>5, <3>1
  <2> QED BY <2>4, <2>6
<1>9. CASE AnalyzeAgain
  BY <1>3, <1>9 DEF AnalyzeAgain, CacheHolds
<1>10. CASE Run \/ UNCHANGED domainVars
  BY <1>3, <1>10 DEF Run, domainVars
<1> QED BY <1>4, <1>5, <1>6, <1>7, <1>8, <1>9, <1>10 DEF NextDomains

-----------------------------------------------------------------------------
\* What the program has returned and held.

LEMMA MoreValues ==
  ASSUME ProgramOK, NEW a, NEW b, Less(a, b), NEW x \in AnyOperand
  PROVE  ValuesOf(x, a) \subseteq ValuesOf(x, b)
<1>1. CASE x.kind = "call"
  <2>1. x.of \in DOMAIN program.functions
    BY <1>1 DEF AnyOperand, Operands
  <2> QED BY <1>1, <2>1 DEF ValuesOf, Less
<1>2. CASE x.kind = "variable"
  <2>1. x.of \in DOMAIN program.variables
    BY <1>2 DEF AnyOperand, Operands
  <2> QED BY <1>2, <2>1 DEF ValuesOf, Less
<1>3. CASE x.kind = "pointer"
  <2> DEFINE v == VariableOf(x)
             passed == Arguments(v)
  <2>1. x.of \in DOMAIN program.variables
    BY <1>3 DEF AnyOperand, Operands
  <2>2. passed \in Seq(Expressions(program))
    BY <2>1, ArgumentsAre DEF VariableOf
  <2>3. \A k \in DOMAIN passed : \A j \in DOMAIN passed[k] : passed[k][j] \in AnyOperand
    <3> DEFINE S == AnyOperand
    <3>1. passed \in Seq(Seq(S))
      BY <2>2 DEF Expressions, AnyOperand
    <3> HIDE DEF S, passed
    <3>2. \A k \in DOMAIN passed : passed[k] \in Seq(S)
      BY <3>1
    <3> QED BY <3>2 DEF S
  <2> HIDE DEF passed
  <2>4. \A k \in DOMAIN passed : \A j \in DOMAIN passed[k] :
          (IF passed[k][j].kind = "function" THEN a.functions[passed[k][j].of] ELSE Universe)
            \subseteq (IF passed[k][j].kind = "function" THEN b.functions[passed[k][j].of] ELSE Universe)
    BY <2>3 DEF AnyOperand, Operands, Less
  <2>5. UNION {UNION {IF argument[j].kind = "function" THEN a.functions[argument[j].of]
                      ELSE Universe : j \in DOMAIN argument} : argument \in {passed[k] : k \in DOMAIN passed}}
          \subseteq UNION {UNION {IF argument[j].kind = "function" THEN b.functions[argument[j].of]
                      ELSE Universe : j \in DOMAIN argument} : argument \in {passed[k] : k \in DOMAIN passed}}
    BY <2>4
  <2> QED BY <1>3, <2>5 DEF ValuesOf, passed
<1>4. CASE x.kind \notin {"call", "variable", "pointer"}
  BY <1>4 DEF ValuesOf
<1> QED BY <1>1, <1>2, <1>3, <1>4

LEMMA MoreIn ==
  ASSUME ProgramOK, NEW a, NEW b, Less(a, b), NEW e \in Seq(Expressions(program))
  PROVE  ValuesIn(e, a) \subseteq ValuesIn(e, b)
<1>1. \A k \in DOMAIN e : \A j \in DOMAIN e[k] : e[k][j] \in AnyOperand
  <2> DEFINE S == AnyOperand
  <2>1. e \in Seq(Seq(S))
    BY DEF Expressions, AnyOperand
  <2> HIDE DEF S
  <2>2. \A k \in DOMAIN e : e[k] \in Seq(S)
    BY <2>1
  <2> QED BY <2>2 DEF S
<1>2. \A k \in DOMAIN e : \A j \in DOMAIN e[k] : ValuesOf(e[k][j], a) \subseteq ValuesOf(e[k][j], b)
  BY <1>1, MoreValues
<1> QED BY <1>2 DEF ValuesIn

LEMMA MoreReturned ==
  ASSUME ProgramOK, NEW a, NEW b, Less(a, b)
  PROVE  /\ \A f \in DOMAIN program.functions :
              Returned(program.functions[f], a) \subseteq Returned(program.functions[f], b)
         /\ \A v \in DOMAIN program.variables :
              HeldBy(program.variables[v], a) \subseteq HeldBy(program.variables[v], b)
<1>1. ASSUME NEW f \in DOMAIN program.functions
      PROVE  Returned(program.functions[f], a) \subseteq Returned(program.functions[f], b)
  <2>1. ValuesIn(program.functions[f].returns, a) \subseteq ValuesIn(program.functions[f].returns, b)
    BY <1>1, MoreIn DEF ProgramOK, PossibleFunction
  <2> QED BY <2>1 DEF Returned
<1>2. ASSUME NEW w \in DOMAIN program.variables
      PROVE  HeldBy(program.variables[w], a) \subseteq HeldBy(program.variables[w], b)
  <2> DEFINE v == program.variables[w]
             writes == v.writes
             all == [k \in DOMAIN writes |-> writes[k].value]
             W == [value : Expressions(program), how : {"initial", "plain", "other"}, before : BOOLEAN]
             S == Expressions(program)
  <2>1. Arguments(v) \in Seq(S)
    BY <1>2, ArgumentsAre
  <2>2. writes \in Seq(W)
    BY <1>2 DEF ProgramOK, PossibleVariable
  <2>3. \A u \in W : u.value \in S
    OBVIOUS
  <2>4. all \in Seq(S)
    <3> HIDE DEF W, writes, S
    <3> QED BY <2>2, <2>3
  <2>5. ValuesIn(all, a) \subseteq ValuesIn(all, b)
    BY <2>4, MoreIn
  <2>6. ValuesIn(Arguments(v), a) \subseteq ValuesIn(Arguments(v), b)
    BY <2>1, MoreIn
  <2> QED BY <2>5, <2>6 DEF HeldBy
<1> QED BY <1>1, <1>2

RunsInv == Sourced(runs)

LEMMA RunsStart ==
  InitDomains => RunsInv
BY DEF InitDomains, RunsInv, Sourced

LEMMA RunsKept ==
  ProgramOK /\ RunsInv /\ [NextDomains]_domainVars => RunsInv'
<1> SUFFICES ASSUME ProgramOK, RunsInv, [NextDomains]_domainVars PROVE RunsInv'
  OBVIOUS
<1>1. program' = program
  BY ProgramStays
<1>2. CASE Run
  <2>1. /\ \A f \in DOMAIN program.functions :
             runs'.functions[f] = runs.functions[f] \cup Returned(program.functions[f], runs)
        /\ \A v \in DOMAIN program.variables :
             runs'.variables[v] = runs.variables[v] \cup HeldBy(program.variables[v], runs)
    BY <1>2 DEF Run
  <2>2. Less(runs, runs')
    BY <2>1 DEF Less
  <2>3. Sourced(runs')
    BY <2>1, <2>2, MoreReturned DEF RunsInv, Sourced
  <2> QED BY <1>1, <2>3, SameHolds DEF RunsInv
<1>3. CASE UNCHANGED runs
  BY <1>1, <1>3, SameHolds DEF RunsInv
<1>4. Run \/ UNCHANGED runs
  BY DEF NextDomains, domainVars, AskDomain, PassOver, AnswerOperand, SearchOperand, ReturnDomain,
         Searching, AnalyzeAgain
<1> QED BY <1>2, <1>3, <1>4

\* A finite domain holds every value that the function may return, or the
\* answer rests on one of the approximations that Approximate lists.
THEOREM DomainsAlwaysHoldReturns ==
  DomainsSpec => []DomainsHoldReturns
<1> DEFINE Inv == DomainsTypeInv /\ HoldInv /\ RunsInv
<1>1. InitDomains => Inv
  BY TypeStarts, HoldStarts, RunsStart
<1>2. Inv /\ [NextDomains]_domainVars => Inv'
  BY TypeKept, HoldKept, RunsKept DEF DomainsTypeInv
<1>3. Inv => DomainsHoldReturns
  <2> SUFFICES ASSUME Inv, NEW f \in DOMAIN domains, domains[f].finite
               PROVE  \/ runs.functions[f] \subseteq domains[f].values
                      \/ \E x \in RestsOn(Call(f)) : Approximate(x)
    BY DEF DomainsHoldReturns
  <2>1. Holds(Call(f), domains[f], runs)
    BY DEF HoldInv, RunsInv, CacheHolds
  <2>2. ValuesOf(Call(f), runs) = runs.functions[f]
    BY DEF ValuesOf, Call
  <2>3. \A x : Approximate(x) <=> ApproximateFor(x, runs)
    BY DEF Approximate, ApproximateFor
  <2> QED BY <2>1, <2>2, <2>3 DEF Holds
<1> QED BY <1>1, <1>2, <1>3, PTL DEF DomainsSpec


-----------------------------------------------------------------------------
\* The answer that a program determines, whatever was asked before.

OperandsOf(x) == UNION {{Parts(x)[k][j] : j \in DOMAIN Parts(x)[k]} : k \in DOMAIN Parts(x)}

VariableLinks == {link \in Links : link[1].kind = "variable" /\ link[2].kind = "variable"}

\* A question that may be met again while it is asked.
Circular(x) ==
  \/ Recursive(x)
  \/ x.kind = "variable" /\ \E y \in Questions : <<y, x>> \in VariableLinks /\ y \in ReachedBy(VariableLinks, x)

FiniteRule(names, x) ==
  IF ~Searched(x) THEN Given(x).finite
  ELSE Provisional(x).finite \/ (~Circular(x) /\ OperandsOf(x) \subseteq names)

FiniteOperands ==
  {x \in AnyOperand : \A names \in SUBSET AnyOperand :
     (\A y \in AnyOperand : FiniteRule(names, y) => y \in names) => x \in names}

Supplied(x) == Searched(x) /\ ~Circular(x) /\ OperandsOf(x) \subseteq FiniteOperands

ValueRule(pairs, x, n) ==
  IF Supplied(x) THEN \E y \in OperandsOf(x) : <<y, n>> \in pairs
  ELSE n \in (IF Searched(x) THEN Provisional(x) ELSE Given(x)).values

SuppliedValues ==
  {p \in AnyOperand \X Int : \A pairs \in SUBSET (AnyOperand \X Int) :
     (\A y \in AnyOperand, n \in Int : ValueRule(pairs, y, n) => <<y, n>> \in pairs) => p \in pairs}

Determined(x) ==
  IF ~Searched(x) THEN Given(x)
  ELSE IF Supplied(x) THEN Finite({n \in Int : <<x, n>> \in SuppliedValues})
  ELSE Provisional(x)

LEMMA OperandsOfAre ==
  ASSUME ProgramOK, NEW x \in Questions
  PROVE  /\ OperandsOf(x) \subseteq AnyOperand
         /\ Searched(x) => Reads(x) = OperandsOf(x) \cap Questions
         /\ ~Searched(x) => Reads(x) = {}
         /\ x.kind = "pointer" => \A y \in OperandsOf(x) : y.kind \in {"call", "opaque"}
<1>1. \A k \in DOMAIN Parts(x) : \A j \in DOMAIN Parts(x)[k] : Parts(x)[k][j] \in AnyOperand
  BY OperandsAre
<1>2. OperandsOf(x) \subseteq AnyOperand
  BY <1>1 DEF OperandsOf
<1>3. Searched(x) => Reads(x) = OperandsOf(x) \cap Questions
  BY DEF Reads, OperandsOf
<1>4. ~Searched(x) => Reads(x) = {}
  BY DEF Reads
<1>5. x.kind = "pointer" => \A y \in OperandsOf(x) : y.kind \in {"call", "opaque"}
  BY PartsAre DEF OperandsOf
<1> QED BY <1>2, <1>3, <1>4, <1>5

LEMMA FiniteRuleGrows ==
  ASSUME NEW a, NEW b, a \subseteq b, NEW x, FiniteRule(a, x)
  PROVE  FiniteRule(b, x)
BY DEF FiniteRule

LEMMA FiniteFixed ==
  ASSUME NEW x \in AnyOperand
  PROVE  x \in FiniteOperands <=> FiniteRule(FiniteOperands, x)
<1> DEFINE Closed(names) == \A y \in AnyOperand : FiniteRule(names, y) => y \in names
           F == FiniteOperands
           R == {y \in AnyOperand : FiniteRule(F, y)}
<1>1. F \subseteq AnyOperand /\ \A names \in SUBSET AnyOperand : Closed(names) => F \subseteq names
  BY DEF FiniteOperands
<1>2. ASSUME NEW y \in AnyOperand, \A names \in SUBSET AnyOperand : Closed(names) => y \in names
      PROVE  y \in F
  BY <1>2 DEF FiniteOperands
<1>3. ASSUME NEW y \in AnyOperand, FiniteRule(F, y) PROVE y \in F
  <2>1. ASSUME NEW names \in SUBSET AnyOperand, Closed(names) PROVE y \in names
    <3>1. FiniteRule(names, y)
      BY <1>1, <1>3, <2>1, FiniteRuleGrows
    <3> QED BY <2>1, <3>1
  <2> HIDE DEF Closed, F
  <2> QED BY <1>2, <2>1
<1>4. Closed(R)
  <2>1. R \subseteq F
    BY <1>3
  <2>2. ASSUME NEW y \in AnyOperand, FiniteRule(R, y) PROVE y \in R
    BY <2>1, <2>2, FiniteRuleGrows
  <2> QED BY <2>2
<1>5. F \subseteq R
  BY <1>1, <1>4
<1> QED BY <1>3, <1>5

LEMMA ValueRuleGrows ==
  ASSUME NEW a, NEW b, a \subseteq b, NEW x, NEW n, ValueRule(a, x, n)
  PROVE  ValueRule(b, x, n)
BY DEF ValueRule

LEMMA ValuesLeast ==
  ASSUME NEW pairs \in SUBSET (AnyOperand \X Int),
         \A y \in AnyOperand, n \in Int : ValueRule(pairs, y, n) => <<y, n>> \in pairs
  PROVE  SuppliedValues \subseteq pairs
BY DEF SuppliedValues

LEMMA ValuesFixed ==
  ASSUME NEW x \in AnyOperand, NEW m \in Int
  PROVE  <<x, m>> \in SuppliedValues <=> ValueRule(SuppliedValues, x, m)
<1> DEFINE Closed(pairs) == \A y \in AnyOperand, n \in Int : ValueRule(pairs, y, n) => <<y, n>> \in pairs
           V == SuppliedValues
           All == AnyOperand \X Int
           R == {p \in All : ValueRule(V, p[1], p[2])}
<1>1. V \subseteq All /\ \A pairs \in SUBSET All : Closed(pairs) => V \subseteq pairs
  BY DEF SuppliedValues
<1>2. ASSUME NEW p \in All, \A pairs \in SUBSET All : Closed(pairs) => p \in pairs
      PROVE  p \in V
  BY <1>2 DEF SuppliedValues
<1>3. ASSUME NEW y \in AnyOperand, NEW n \in Int, ValueRule(V, y, n) PROVE <<y, n>> \in V
  <2>1. ASSUME NEW pairs \in SUBSET All, Closed(pairs) PROVE <<y, n>> \in pairs
    <3>1. ValueRule(pairs, y, n)
      BY <1>1, <1>3, <2>1, ValueRuleGrows
    <3> QED BY <2>1, <3>1
  <2>2. <<y, n>> \in All
    OBVIOUS
  <2> HIDE DEF Closed, V, All
  <2> QED BY <1>2, <2>1, <2>2
<1>4. R \subseteq V
  <2>1. \A p \in All : p = <<p[1], p[2]>> /\ p[1] \in AnyOperand /\ p[2] \in Int
    OBVIOUS
  <2> HIDE DEF V, All
  <2> QED BY <1>3, <2>1
<1>5. Closed(R)
  <2>1. ASSUME NEW y \in AnyOperand, NEW n \in Int, ValueRule(R, y, n) PROVE <<y, n>> \in R
    <3>1. ValueRule(V, y, n)
      BY <1>4, <2>1, ValueRuleGrows
    <3> QED BY <3>1
  <2> QED BY <2>1
<1>6. V \subseteq R
  BY <1>1, <1>5
<1> QED BY <1>3, <1>6

\* An answer is finite by the first rule, and its values are those of the second.
LEMMA DeterminedIs ==
  ASSUME ProgramOK, NEW x \in AnyOperand
  PROVE  /\ Determined(x) \in AnyDomain
         /\ Determined(x).finite <=> x \in FiniteOperands
         /\ Determined(x).values = {n \in Int : <<x, n>> \in SuppliedValues}
         /\ Supplied(x) =>
              Determined(x) = Finite({n \in Int : \E y \in OperandsOf(x) : n \in Determined(y).values})
<1>1. Given(x) \in AnyDomain /\ Provisional(x) \in AnyDomain
  BY GivenIs, ProvisionalIs
<1>2. ASSUME NEW y \in AnyOperand
      PROVE  /\ Determined(y) \in AnyDomain
             /\ Determined(y).finite <=> y \in FiniteOperands
             /\ Determined(y).values = {n \in Int : <<y, n>> \in SuppliedValues}
  <2>1. Given(y) \in AnyDomain /\ Provisional(y) \in AnyDomain
    BY GivenIs, ProvisionalIs
  <2>2. y \in FiniteOperands <=> FiniteRule(FiniteOperands, y)
    BY FiniteFixed
  <2>3. \A n \in Int : <<y, n>> \in SuppliedValues <=> ValueRule(SuppliedValues, y, n)
    BY ValuesFixed
  <2>4. CASE ~Searched(y)
    <3>1. Determined(y) = Given(y) /\ (y \in FiniteOperands <=> Given(y).finite)
      BY <2>2, <2>4 DEF Determined, FiniteRule
    <3>2. \A n \in Int : <<y, n>> \in SuppliedValues <=> n \in Given(y).values
      BY <2>3, <2>4 DEF ValueRule, Supplied
    <3>3. Given(y).values \subseteq Int
      BY <2>1 DEF AnyDomain
    <3> QED BY <2>1, <3>1, <3>2, <3>3
  <2>5. CASE Supplied(y)
    <3> DEFINE S == {n \in Int : <<y, n>> \in SuppliedValues}
    <3>1. Determined(y) = Finite(S)
      BY <2>5 DEF Determined, Supplied
    <3>2. y \in FiniteOperands
      BY <2>2, <2>5 DEF FiniteRule, Supplied
    <3>3. S \subseteq Int
      OBVIOUS
    <3> HIDE DEF S
    <3>4. Determined(y) \in AnyDomain /\ Determined(y).finite = TRUE /\ Determined(y).values = S
      BY <3>1, <3>3 DEF Finite, AnyDomain
    <3> QED BY <3>2, <3>4 DEF S
  <2>6. CASE Searched(y) /\ ~Supplied(y)
    <3>1. Determined(y) = Provisional(y) /\ (y \in FiniteOperands <=> Provisional(y).finite)
      BY <2>2, <2>6 DEF Determined, FiniteRule, Supplied
    <3>2. \A n \in Int : <<y, n>> \in SuppliedValues <=> n \in Provisional(y).values
      BY <2>3, <2>6 DEF ValueRule
    <3>3. Provisional(y).values \subseteq Int
      BY <2>1 DEF AnyDomain
    <3> QED BY <2>1, <3>1, <3>2, <3>3
  <2> QED BY <2>4, <2>5, <2>6
<1>3. ASSUME Supplied(x)
      PROVE  Determined(x) = Finite({n \in Int : \E y \in OperandsOf(x) : n \in Determined(y).values})
  <2>1. x \in Questions
    BY <1>3, SearchedAsked DEF Supplied
  <2>2. OperandsOf(x) \subseteq AnyOperand
    BY <2>1, OperandsOfAre
  <2>3. \A n \in Int : <<x, n>> \in SuppliedValues <=> \E y \in OperandsOf(x) : <<y, n>> \in SuppliedValues
    BY <1>3, ValuesFixed DEF ValueRule
  <2>4. \A n \in Int : <<x, n>> \in SuppliedValues <=> \E y \in OperandsOf(x) : n \in Determined(y).values
    BY <1>2, <2>2, <2>3
  <2>5. {n \in Int : <<x, n>> \in SuppliedValues} = {n \in Int : \E y \in OperandsOf(x) : n \in Determined(y).values}
    BY <2>4
  <2>6. Determined(x) = Finite({n \in Int : <<x, n>> \in SuppliedValues})
    BY <1>3 DEF Determined, Supplied
  <2> QED BY <2>5, <2>6
<1> QED BY <1>2, <1>3

-----------------------------------------------------------------------------
\* Circles.

LEMMA OnCircle ==
  ASSUME NEW x \in Questions, x.kind = "call", Recursive(x),
         NEW z \in RestsOn(x), x \in RestsOn(z), z.kind = "call"
  PROVE  Recursive(z)
<1>1. CASE z = x
  BY <1>1
<1>2. CASE z # x
  <2>1. z \in Questions
    BY DEF RestsOn
  <2>2. x \in ReachedBy(Links, z)
    BY RestsOnIsReached
  <2>3. PICK y \in Questions : <<z, y>> \in Links /\ x \in ReachedBy(Links, y)
    BY <1>2, <2>1, <2>2, LinksWithin, ReachedFirst
  <2>4. y \in Reads(z)
    BY <2>3, LinksAre
  <2>5. z \in ReachedBy(Links, x)
    BY RestsOnIsReached
  <2>6. z \in ReachedBy(Links, y)
    BY <2>3, <2>5, LinksWithin, ReachedOnwards
  <2> QED BY <2>4, <2>6, RestsOnIsReached DEF Recursive
<1> QED BY <1>1, <1>2

\* Around a variable that reads itself nothing is known.
LEMMA VariableCircle ==
  ASSUME ProgramOK, NEW x \in Questions, x.kind = "variable", Searched(x), Circular(x)
  PROVE  x \notin FiniteOperands /\ ~(OperandsOf(x) \subseteq FiniteOperands)
<1> DEFINE Round(z) == z.kind = "variable" /\ \E y \in Questions : <<y, z>> \in VariableLinks /\ y \in ReachedBy(VariableLinks, z)
<1>1. VariableLinks \in SUBSET (Questions \X Questions)
  BY LinksWithin DEF VariableLinks
<1>2. ASSUME NEW z \in Questions, Round(z), Searched(z) PROVE z \notin FiniteOperands
  <2>1. z \in AnyOperand
    BY QuestionKinds
  <2>2. Circular(z) /\ ~Provisional(z).finite
    BY <1>2, ProvisionalIs DEF Circular, Open
  <2>3. ~FiniteRule(FiniteOperands, z)
    BY <1>2, <2>2 DEF FiniteRule
  <2> QED BY <2>1, <2>3, FiniteFixed
<1>3. Round(x)
  BY DEF Circular, Recursive
<1>4. PICK y \in Questions : <<y, x>> \in VariableLinks /\ y \in ReachedBy(VariableLinks, x)
  BY <1>3
<1>5. \E z \in Questions : <<x, z>> \in VariableLinks /\ Round(z)
  <2>1. CASE y = x
    BY <1>3, <1>4, <2>1
  <2>2. CASE y # x
    <3>1. PICK z \in Questions : <<x, z>> \in VariableLinks /\ y \in ReachedBy(VariableLinks, z)
      BY <1>1, <1>4, <2>2, ReachedFirst
    <3>2. x \in ReachedBy(VariableLinks, z)
      BY <1>4, <3>1, ReachedStep
    <3>3. z.kind = "variable"
      BY <3>1 DEF VariableLinks
    <3> QED BY <3>1, <3>2, <3>3
  <2> QED BY <2>1, <2>2
<1>6. PICK z \in Questions : <<x, z>> \in VariableLinks /\ Round(z)
  BY <1>5
<1>7. Searched(z)
  <2>1. PICK w \in Questions : <<w, z>> \in VariableLinks /\ w \in ReachedBy(VariableLinks, z)
    BY <1>6
  <2>2. CASE w = z
    <3>1. z \in Reads(z)
      BY <2>1, <2>2, LinksAre DEF VariableLinks
    <3> QED BY <3>1 DEF Reads
  <2>3. CASE w # z
    <3>1. PICK u \in Questions : <<z, u>> \in VariableLinks
      BY <1>1, <2>1, <2>3, ReachedFirst
    <3>2. u \in Reads(z)
      BY <3>1, LinksAre DEF VariableLinks
    <3> QED BY <3>2 DEF Reads
  <2> QED BY <2>2, <2>3
<1>8. z \in OperandsOf(x)
  <2>1. z \in Reads(x)
    BY <1>6, LinksAre DEF VariableLinks
  <2> QED BY <2>1, OperandsOfAre
<1> QED BY <1>2, <1>3, <1>6, <1>7, <1>8


Steady(x) == \A y \in RestsOn(x) : ~Unsteady(y)

\* Along a circle, an answer that is known holds both truth values, as the
\* provisional one does.
LEMMA TruthAround ==
  ASSUME ProgramOK, NEW x \in Questions, x.kind = "call", Recursive(x), Searched(x), ~Unsteady(x),
         NEW z \in RestsOn(x), x \in RestsOn(z), z \in FiniteOperands
  PROVE  /\ Provisional(x) = Finite({0, 1})
         /\ {0, 1} \subseteq Determined(z).values
<1> DEFINE Fine(w) == Provisional(x) = Finite({0, 1}) /\ {0, 1} \subseteq Determined(w).values
<1>1. Provisional(x).finite => Provisional(x) = Finite({0, 1})
  BY SearchedCall, TypesAre DEF Open
<1>2. \A y \in RestsOn(x) : y.kind = "call" /\ x \in RestsOn(y) => Provisional(y) = Provisional(x)
  BY DEF Unsteady
<1>3. RestsOn(x) \subseteq Questions
  BY DEF RestsOn
<1>4. ASSUME NEW y \in RestsOn(x), x \in RestsOn(y), y.kind = "call", y \in FiniteOperands
      PROVE  Provisional(x) = Finite({0, 1}) /\ Determined(y).values = {0, 1}
  <2>1. Recursive(y) /\ y \in Questions /\ y \in AnyOperand
    BY <1>3, <1>4, OnCircle, QuestionKinds
  <2>2. Provisional(y) = Provisional(x)
    BY <1>2, <1>4
  <2>3. Searched(y)
    <3>1. PICK u \in Reads(y) : TRUE
      BY <2>1 DEF Recursive
    <3> QED BY <3>1 DEF Reads
  <2>4. Determined(y) = Provisional(x)
    BY <2>1, <2>2, <2>3 DEF Determined, Supplied, Circular
  <2>5. Determined(y).finite
    BY <1>4, <2>1, DeterminedIs
  <2> QED BY <1>1, <2>4, <2>5 DEF Finite
<1>5. CASE z.kind = "call"
  BY <1>4, <1>5
<1>6. CASE z.kind # "call"
  <2> SUFFICES ASSUME ~Fine(z) PROVE FALSE
    BY DEF Fine
  <2> DEFINE names == {y \in RestsOn(z) : \/ x \notin RestsOn(y)
                                          \/ /\ y.kind # "call" /\ y \in FiniteOperands
                                             /\ Determined(y).values \subseteq Determined(z).values}
  <2>1. z \in Questions /\ RestsOn(z) \subseteq RestsOn(x) /\ z \in RestsOn(z)
    <3>1. z \in Questions
      BY <1>3
    <3>2. RestsOn(z) \subseteq RestsOn(x)
      BY LinksWithin, ReachedOnwards, RestsOnIsReached
    <3> QED BY <3>1, <3>2, RestsOnSelf
  <2>2. z \in names
    BY <1>6, <2>1
  <2>3. names \in SUBSET Questions
    BY <1>3, <2>1
  <2>4. ASSUME NEW y \in names, NEW u \in Reads(y) PROVE u \in names
    <3>1. y \in Questions /\ y \in RestsOn(z) /\ u \in Questions /\ RestsOn(u) \subseteq RestsOn(y) /\ u \in RestsOn(u)
      BY <2>3, <2>4, RestsOnRead, RestsOnSelf
    <3>2. u \in RestsOn(z)
      <4>1. RestsOn(y) \subseteq RestsOn(z)
        BY <3>1, LinksWithin, ReachedOnwards, RestsOnIsReached
      <4> QED BY <3>1, <4>1
    <3>3. CASE x \notin RestsOn(y)
      BY <3>1, <3>2, <3>3
    <3>4. CASE x \in RestsOn(y)
      <4>1. y.kind # "call" /\ y \in FiniteOperands /\ Determined(y).values \subseteq Determined(z).values
        BY <2>4, <3>4
      <4>2. Searched(y) /\ y \in AnyOperand
        BY <2>4, <3>1, QuestionKinds DEF Reads
      <4>3. ~Provisional(y).finite
        BY <4>1, ProvisionalIs DEF Open
      <4>4. FiniteRule(FiniteOperands, y)
        BY <4>1, <4>2, FiniteFixed
      <4>5. Supplied(y)
        BY <4>2, <4>3, <4>4 DEF FiniteRule, Supplied
      <4>6. u \in OperandsOf(y) /\ u \in AnyOperand
        BY <2>4, <3>1, <4>2, OperandsOfAre, QuestionKinds
      <4>7. u \in FiniteOperands
        BY <4>5, <4>6 DEF Supplied
      <4>8. Determined(u).values \subseteq Determined(y).values
        <5>1. Determined(y) = Finite({n \in Int : \E w \in OperandsOf(y) : n \in Determined(w).values})
          BY <4>2, <4>5, DeterminedIs
        <5>2. Determined(u).values \subseteq Int
          BY <4>6, DeterminedIs DEF AnyDomain
        <5> QED BY <4>6, <5>1, <5>2 DEF Finite
      <4>9. CASE x \in RestsOn(u) /\ u.kind = "call"
        <5>1. u \in RestsOn(x)
          BY <2>1, <3>2
        <5>2. Provisional(x) = Finite({0, 1}) /\ Determined(u).values = {0, 1}
          BY <1>4, <4>7, <4>9, <5>1
        <5> QED BY <4>1, <4>8, <5>2 DEF Fine
      <4>10. CASE x \notin RestsOn(u) \/ u.kind # "call"
        BY <3>2, <4>1, <4>7, <4>8, <4>10
      <4> QED BY <4>9, <4>10
    <3> QED BY <3>3, <3>4
  <2>5. ASSUME NEW link \in Links, link[1] \in names PROVE link[2] \in names
    <3>1. link = <<link[1], link[2]>>
      BY LinksWithin
    <3>2. link[2] \in Reads(link[1])
      BY <3>1, LinksAre
    <3> QED BY <2>4, <2>5, <3>2
  <2> HIDE DEF names
  <2>6. RestsOn(z) \subseteq names
    BY <2>2, <2>3, <2>5, ReachedWithin, RestsOnIsReached
  <2>7. x \in names
    BY <2>6
  <2> QED BY <2>1, <2>7, RestsOnSelf DEF names
<1> QED BY <1>5, <1>6

\* Where nothing but 0 and 1 is read, nothing else is found.
LEMMA OnlyTruth ==
  ASSUME ProgramOK, NEW x \in Questions, \A y \in RestsOn(x) : ~OtherThanTruth(y),
         NEW z \in OperandsOf(x), Searched(x)
  PROVE  Determined(z).values \subseteq {0, 1}
<1> DEFINE Near(y) == y \in RestsOn(x) \/ \E w \in RestsOn(x) : Searched(w) /\ y \in OperandsOf(w)
           All == AnyOperand \X Int
           pairs == {p \in All : Near(p[1]) => p[2] \in {0, 1}}
<1>1. RestsOn(x) \subseteq Questions
  BY DEF RestsOn
<1>2. ASSUME NEW w \in RestsOn(x), NEW y \in Reads(w) PROVE y \in RestsOn(x)
  <2>1. w \in Questions /\ w \in ReachedBy(Links, x) /\ <<w, y>> \in Links /\ y \in Questions
    BY <1>1, <1>2, LinksAre, RestsOnIsReached DEF Reads
  <2> QED BY <2>1, ReachedStep, RestsOnIsReached
<1>3. ASSUME NEW y \in AnyOperand, Near(y), y \in Questions PROVE y \in RestsOn(x)
  <2>1. CASE y \in RestsOn(x)
    BY <2>1
  <2>2. CASE \E w \in RestsOn(x) : Searched(w) /\ y \in OperandsOf(w)
    <3>1. PICK w \in RestsOn(x) : Searched(w) /\ y \in OperandsOf(w)
      BY <2>2
    <3>2. y \in Reads(w)
      BY <1>1, <1>3, <3>1, OperandsOfAre
    <3> QED BY <1>2, <3>1, <3>2
  <2> QED BY <1>3, <2>1, <2>2
<1>4. ASSUME NEW y \in AnyOperand, NEW n \in Int, ValueRule(pairs, y, n), Near(y) PROVE n \in {0, 1}
  <2>1. CASE Supplied(y)
    <3>1. y \in Questions /\ Searched(y)
      BY <2>1, SearchedAsked DEF Supplied
    <3>2. PICK u \in OperandsOf(y) : <<u, n>> \in pairs
      BY <1>4, <2>1 DEF ValueRule
    <3>3. Near(u)
      BY <1>3, <1>4, <3>1
    <3> QED BY <3>2, <3>3
  <2>2. CASE Searched(y) /\ ~Supplied(y)
    <3>1. n \in Provisional(y).values
      BY <1>4, <2>2 DEF ValueRule
    <3>2. CASE y.kind = "call"
      BY <2>2, <3>1, <3>2, SearchedCall, TypesAre DEF Finite, Open
    <3>3. CASE y.kind # "call"
      BY <3>1, <3>3, ProvisionalIs DEF Open
    <3> QED BY <3>2, <3>3
  <2>3. CASE ~Searched(y)
    <3>1. n \in Given(y).values
      BY <1>4, <2>3 DEF ValueRule, Supplied
    <3>2. CASE y \in Questions
      <4>1. ~OtherThanTruth(y)
        BY <1>3, <1>4, <3>2
      <4> QED BY <2>3, <3>1, <4>1 DEF OtherThanTruth
    <3>3. CASE y \notin Questions
      <4>1. PICK w \in RestsOn(x) : Searched(w) /\ y \in OperandsOf(w)
        BY <1>1, <1>4, <3>3
      <4>2. y.kind # "call"
        BY <3>3, SearchedAsked
      <4>3. CASE y.kind = "value"
        <5>1. y.value \in {0, 1}
          BY <4>1, <4>3 DEF OtherThanTruth, OperandsOf
        <5> QED BY <3>1, <4>3, <5>1 DEF Given, Finite
      <4>4. CASE y.kind # "value"
        BY <3>1, <4>2, <4>4 DEF Given, Open
      <4> QED BY <4>3, <4>4
    <3> QED BY <3>2, <3>3
  <2> QED BY <2>1, <2>2, <2>3
<1>5. SuppliedValues \subseteq pairs
  <2>1. ASSUME NEW y \in AnyOperand, NEW n \in Int, ValueRule(pairs, y, n) PROVE <<y, n>> \in pairs
    BY <1>4, <2>1
  <2>2. pairs \in SUBSET All
    OBVIOUS
  <2> HIDE DEF pairs
  <2> QED BY <2>1, <2>2, ValuesLeast
<1>6. Near(z) /\ z \in AnyOperand
  BY RestsOnSelf, OperandsOfAre
<1>7. Determined(z).values = {n \in Int : <<z, n>> \in SuppliedValues}
  BY <1>6, DeterminedIs
<1> QED BY <1>5, <1>6, <1>7

\* What a steady circle finds is its provisional answer.
LEMMA CircleSettles ==
  ASSUME ProgramOK, NEW x \in Questions, Searched(x), Circular(x), Steady(x),
         OperandsOf(x) \subseteq FiniteOperands
  PROVE  Provisional(x) = Finite({n \in Int : \E y \in OperandsOf(x) : n \in Determined(y).values})
<1>1. Recursive(x) /\ x.kind = "call"
  BY VariableCircle DEF Circular, Recursive
<1>2. ~Unsteady(x) /\ x \in RestsOn(x)
  BY RestsOnSelf DEF Steady
<1>3. PICK z \in Reads(x) : x \in RestsOn(z)
  BY <1>1 DEF Recursive
<1>4. z \in OperandsOf(x) /\ z \in Questions /\ z \in RestsOn(x)
  BY <1>3, OperandsOfAre, RestsOnRead, RestsOnSelf
<1>5. Provisional(x) = Finite({0, 1}) /\ {0, 1} \subseteq Determined(z).values
  BY <1>1, <1>2, <1>3, <1>4, TruthAround
<1>6. \A y \in RestsOn(x) : ~OtherThanTruth(y)
  BY <1>1, <1>2, <1>5 DEF Unsteady, Finite
<1>7. \A y \in OperandsOf(x) : Determined(y).values \subseteq {0, 1}
  BY <1>6, OnlyTruth
<1>8. {n \in Int : \E y \in OperandsOf(x) : n \in Determined(y).values} = {0, 1}
  BY <1>4, <1>5, <1>7
<1> QED BY <1>5, <1>8


-----------------------------------------------------------------------------
\* Each question on the stack is reached from those below it.
PathInv ==
  \A i, j \in DOMAIN stack : i <= j =>
    /\ stack[j].of \in RestsOn(stack[i].of)
    /\ (\A k \in i..j : stack[k].of.kind = "variable")
         => stack[j].of \in ReachedBy(VariableLinks, stack[i].of)

\* Answers are the determined ones, and so is what is gathered.
Right(x, d) == (x \in Questions => Steady(x)) => d = Determined(x)

CacheRight(cache) == \A f \in DOMAIN cache : Right(Call(f), cache[f])

Gathered(q) ==
  {n \in Int : \E k \in DOMAIN Parts(q.of) : \E j \in DOMAIN Parts(q.of)[k] :
     Passed(q, k, j) /\ n \in Determined(Parts(q.of)[k][j]).values}

GathersRight(q) ==
  Steady(q.of) =>
    /\ q.known.finite <=> \A k \in DOMAIN Parts(q.of) : \A j \in DOMAIN Parts(q.of)[k] :
                            Passed(q, k, j) => Parts(q.of)[k][j] \in FiniteOperands
    /\ q.known.finite => q.known = Finite(Gathered(q))

OrderInv ==
  /\ CacheRight(domains) /\ CacheRight(earlier) /\ PathInv
  /\ \A k \in DOMAIN stack : GathersRight(stack[k])

LEMMA SteadyReads ==
  ASSUME NEW x \in Questions, Steady(x), NEW y \in Reads(x)
  PROVE  Steady(y)
BY RestsOnRead DEF Steady

LEMMA SameDetermined ==
  ASSUME program' = program
  PROVE  /\ \A links, x : ReachedBy(links, x)' = ReachedBy(links, x)
         /\ VariableLinks' = VariableLinks
         /\ \A x : Determined(x)' = Determined(x)
         /\ FiniteOperands' = FiniteOperands
         /\ \A x : Steady(x)' <=> Steady(x)
         /\ \A x, d : Right(x, d)' <=> Right(x, d)
         /\ \A cache : CacheRight(cache)' <=> CacheRight(cache)
         /\ \A q : GathersRight(q)' <=> GathersRight(q)
<1>1. \A links, x : ReachedBy(links, x)' = ReachedBy(links, x)
  BY SameParts DEF ReachedBy
<1>2. Links' = Links
  BY SameParts, SameReads DEF Links
<1>3. VariableLinks' = VariableLinks
  BY <1>2 DEF VariableLinks
<1>4. \A x : Recursive(x)' <=> Recursive(x)
  BY SameReads DEF Recursive
<1>5. \A x : Circular(x)' <=> Circular(x)
  BY <1>1, <1>3, <1>4, SameParts DEF Circular
<1>6. \A x : OperandsOf(x)' = OperandsOf(x)
  BY SameParts DEF OperandsOf
<1>7. AnyOperand' = AnyOperand
  BY DEF AnyOperand, Operands
<1>8. \A names, x : FiniteRule(names, x)' <=> FiniteRule(names, x)
  BY <1>5, <1>6, SameParts DEF FiniteRule
<1>9. FiniteOperands' = FiniteOperands
  BY <1>7, <1>8 DEF FiniteOperands
<1>10. \A x : Supplied(x)' <=> Supplied(x)
  BY <1>5, <1>6, <1>9, SameParts DEF Supplied
<1>11. \A pairs, x, n : ValueRule(pairs, x, n)' <=> ValueRule(pairs, x, n)
  BY <1>6, <1>10, SameParts DEF ValueRule
<1>12. SuppliedValues' = SuppliedValues
  BY <1>7, <1>11 DEF SuppliedValues
<1>13. \A x : Determined(x)' = Determined(x)
  BY <1>10, <1>12, SameParts DEF Determined
<1>14. \A x : OtherThanTruth(x)' <=> OtherThanTruth(x)
  BY SameParts DEF OtherThanTruth
<1>15. \A x : Unsteady(x)' <=> Unsteady(x)
  BY <1>4, <1>14, SameParts, SameReads DEF Unsteady
<1>16. \A x : Steady(x)' <=> Steady(x)
  BY <1>15, SameReads DEF Steady
<1>17. \A x, d : Right(x, d)' <=> Right(x, d)
  BY <1>13, <1>16, SameParts DEF Right
<1>18. \A cache : CacheRight(cache)' <=> CacheRight(cache)
  BY <1>17 DEF CacheRight
<1>19. \A q : Gathered(q)' = Gathered(q)
  BY <1>13, SameParts DEF Gathered
<1>20. \A q : GathersRight(q)' <=> GathersRight(q)
  BY <1>19, <1>9, <1>13, <1>16, SameParts DEF GathersRight
<1> QED BY <1>1, <1>3, <1>9, <1>13, <1>16, <1>17, <1>18, <1>20

LEMMA OrderKeptIf ==
  ASSUME program' = program, CacheRight(domains'), CacheRight(earlier'),
         \A i, j \in DOMAIN stack' : i <= j =>
           /\ stack'[j].of \in RestsOn(stack'[i].of)
           /\ (\A k \in i..j : stack'[k].of.kind = "variable")
                => stack'[j].of \in ReachedBy(VariableLinks, stack'[i].of),
         \A k \in DOMAIN stack' : GathersRight(stack'[k])
  PROVE  OrderInv'
<1>1. PathInv'
  BY SameDetermined, SameReads DEF PathInv
<1>2. CacheRight(domains)' /\ CacheRight(earlier)'
  <2>1. \A cache : CacheRight(cache)' <=> CacheRight(cache)
    BY SameDetermined
  <2> QED BY <2>1 DEF CacheRight
<1>3. \A k \in DOMAIN stack' : GathersRight(stack[k])'
  BY SameDetermined
<1> QED BY <1>1, <1>2, <1>3 DEF OrderInv

\* The questions stay, or the last of them goes.
LEMMA PathKept ==
  ASSUME StackOK, PathInv,
         DOMAIN stack' \subseteq DOMAIN stack, \A i, j \in DOMAIN stack' : i..j \subseteq DOMAIN stack',
         \A k \in DOMAIN stack' : stack'[k].of = stack[k].of
  PROVE  \A i, j \in DOMAIN stack' : i <= j =>
           /\ stack'[j].of \in RestsOn(stack'[i].of)
           /\ (\A k \in i..j : stack'[k].of.kind = "variable")
                => stack'[j].of \in ReachedBy(VariableLinks, stack'[i].of)
<1> SUFFICES ASSUME NEW i \in DOMAIN stack', NEW j \in DOMAIN stack', i <= j
             PROVE  /\ stack'[j].of \in RestsOn(stack'[i].of)
                    /\ (\A k \in i..j : stack'[k].of.kind = "variable")
                         => stack'[j].of \in ReachedBy(VariableLinks, stack'[i].of)
  OBVIOUS
<1>1. i \in DOMAIN stack /\ j \in DOMAIN stack /\ stack'[i].of = stack[i].of /\ stack'[j].of = stack[j].of
  OBVIOUS
<1>2. \A k \in i..j : stack'[k].of = stack[k].of
  OBVIOUS
<1>3. /\ stack[j].of \in RestsOn(stack[i].of)
      /\ (\A k \in i..j : stack[k].of.kind = "variable") => stack[j].of \in ReachedBy(VariableLinks, stack[i].of)
  BY <1>1 DEF PathInv
<1> QED BY <1>1, <1>2, <1>3

LEMMA PathGrows ==
  ASSUME ProgramOK, StackOK, PathInv, SearchOperand
  PROVE  \A i, j \in DOMAIN stack' : i <= j =>
           /\ stack'[j].of \in RestsOn(stack'[i].of)
           /\ (\A k \in i..j : stack'[k].of.kind = "variable")
                => stack'[j].of \in ReachedBy(VariableLinks, stack'[i].of)
<1> DEFINE m == Len(stack)
<1>1. /\ stack # <<>> /\ Waiting(Top, Asked) /\ Asked \in Reads(Top.of) /\ Asked \in Questions /\ Searched(Asked)
      /\ DOMAIN stack' = 1..(m + 1)
      /\ stack'[m + 1] = Question(Asked)
      /\ \A k \in DOMAIN stack : stack'[k] = stack[k]
  BY SearchShape
<1>2. m \in Nat \ {0} /\ DOMAIN stack = 1..m /\ Top = stack[m] /\ Top.of \in Questions
  BY <1>1, StackShape
<1>3. stack'[m + 1].of = Asked
  BY <1>1, FirstQuestion
<1> HIDE DEF m
<1> SUFFICES ASSUME NEW i \in DOMAIN stack', NEW j \in DOMAIN stack', i <= j
             PROVE  /\ stack'[j].of \in RestsOn(stack'[i].of)
                    /\ (\A k \in i..j : stack'[k].of.kind = "variable")
                         => stack'[j].of \in ReachedBy(VariableLinks, stack'[i].of)
  OBVIOUS
<1>4. CASE j # m + 1
  <2>1. i \in DOMAIN stack /\ j \in DOMAIN stack /\ i..j \subseteq DOMAIN stack
    BY <1>1, <1>2, <1>4
  <2>2. /\ stack[j].of \in RestsOn(stack[i].of)
        /\ (\A k \in i..j : stack[k].of.kind = "variable") => stack[j].of \in ReachedBy(VariableLinks, stack[i].of)
    BY <2>1 DEF PathInv
  <2>3. \A k \in i..j : stack'[k] = stack[k]
    BY <1>1, <2>1
  <2>4. stack'[i] = stack[i] /\ stack'[j] = stack[j]
    BY <1>1, <2>1
  <2> QED BY <2>2, <2>3, <2>4
<1>5. CASE j = m + 1 /\ i = m + 1
  BY <1>1, <1>3, <1>5, RestsOnSelf, ReachedSelf
<1>6. CASE j = m + 1 /\ i # m + 1
  <2>1. i \in DOMAIN stack /\ m \in DOMAIN stack /\ i <= m
    BY <1>1, <1>2, <1>6
  <2>2. stack'[i] = stack[i] /\ stack'[j].of = Asked /\ stack'[m] = stack[m]
    BY <1>1, <1>3, <1>6, <2>1
  <2>3. /\ Top.of \in RestsOn(stack[i].of)
        /\ (\A k \in i..m : stack[k].of.kind = "variable") => Top.of \in ReachedBy(VariableLinks, stack[i].of)
    BY <1>2, <2>1 DEF PathInv
  <2>4. <<Top.of, Asked>> \in Links
    BY <1>1, <1>2, LinksAre
  <2>5. Asked \in RestsOn(stack[i].of)
    BY <1>1, <2>3, <2>4, ReachedStep, RestsOnIsReached
  <2>6. ASSUME \A k \in i..j : stack'[k].of.kind = "variable"
        PROVE  Asked \in ReachedBy(VariableLinks, stack[i].of)
    <3>1. \A k \in i..m : k \in i..j /\ stack'[k] = stack[k]
      BY <1>1, <1>2, <1>6, <2>1
    <3>2. Top.of \in ReachedBy(VariableLinks, stack[i].of)
      BY <2>3, <2>6, <3>1
    <3>3. m \in i..j /\ j \in i..j
      BY <1>2, <1>6, <2>1
    <3>4. <<Top.of, Asked>> \in VariableLinks
      BY <1>2, <2>2, <2>4, <2>6, <3>3 DEF VariableLinks
    <3> QED BY <1>1, <3>2, <3>4, ReachedStep
  <2> QED BY <2>2, <2>5, <2>6
<1> QED BY <1>4, <1>5, <1>6

\* What is being asked already is circular.
LEMMA AskedCircular ==
  ASSUME ProgramOK, StackOK, PathInv, stack # <<>>, Asked \in OperandsOf(Top.of), Asked \in Questions,
         BeingAsked(Asked)
  PROVE  Circular(Asked)
<1> DEFINE x == Asked
           m == Len(stack)
<1>1. m \in Nat \ {0} /\ DOMAIN stack = 1..m /\ Top = stack[m] /\ Top.of \in Questions /\ Searched(Top.of)
  BY StackShape DEF QuestionOK
<1>2. PICK i \in DOMAIN stack :
        /\ stack[i].of = x /\ x.kind # "pointer"
        /\ x.kind = "variable" => \A j \in DOMAIN stack : j > i => stack[j].of.kind # "call"
  BY DEF BeingAsked
<1>3. x \in Reads(Top.of)
  BY <1>1, OperandsOfAre
<1>4. i <= m /\ m \in DOMAIN stack
  BY <1>1
<1> HIDE DEF m, x
<1>5. CASE x.kind = "call"
  <2>1. CASE i = m
    BY <1>1, <1>2, <1>3, <1>5, <2>1, RestsOnSelf DEF Circular, Recursive, x
  <2>2. CASE i # m
    <3>1. i + 1 \in DOMAIN stack /\ i + 1 <= m
      BY <1>1, <1>4, <2>2
    <3>2. stack[i + 1].of \in Reads(x)
      <4>1. QuestionOK(stack[i]) /\ Waiting(stack[i], stack[i + 1].of) /\ QuestionOK(stack[i + 1])
        BY <3>1 DEF StackOK
      <4>2. stack[i + 1].of \in OperandsOf(x)
        <5>1. Finite({}) \in AnyDomain
          BY DEF Finite, AnyDomain
        <5>2. stack[i].operand \in DOMAIN Parts(x)[stack[i].at]
          BY <1>2, <4>1, <5>1, FurtherIs
        <5> QED BY <1>2, <4>1, <5>2 DEF OperandsOf, Waiting
      <4>3. stack[i + 1].of \in Questions /\ Searched(x) /\ x \in Questions
        BY <1>2, <4>1 DEF QuestionOK, QuestionRecords
      <4> QED BY <4>2, <4>3, OperandsOfAre
    <3>3. Top.of \in RestsOn(stack[i + 1].of)
      BY <1>1, <1>4, <3>1 DEF PathInv
    <3>4. x \in RestsOn(stack[i + 1].of)
      <4>1. <<Top.of, x>> \in Links /\ x \in Questions
        BY <1>1, <1>3, LinksAre DEF Reads
      <4> QED BY <3>3, <4>1, ReachedStep, RestsOnIsReached
    <3> QED BY <1>5, <3>2, <3>4 DEF Circular, Recursive, x
  <2> QED BY <2>1, <2>2
<1>6. CASE x.kind = "variable"
  <2>1. ASSUME NEW k \in i..m PROVE stack[k].of.kind = "variable"
    <3>1. k \in DOMAIN stack
      BY <1>1, <2>1
    <3>2. stack[k].of \in Questions /\ QuestionOK(stack[k])
      BY <3>1 DEF StackOK, QuestionOK, QuestionRecords
    <3>3. stack[k].of.kind # "call"
      BY <1>1, <1>2, <1>6, <2>1, <3>1
    <3>4. stack[k].of.kind # "pointer"
      <4> SUFFICES ASSUME stack[k].of.kind = "pointer" PROVE FALSE
        OBVIOUS
      <4>1. CASE k = m
        <5>1. x.kind \in {"call", "opaque"}
          BY <1>1, <4>1, OperandsOfAre DEF x
        <5> QED BY <1>6, <5>1
      <4>2. CASE k # m
        <5>1. k + 1 \in DOMAIN stack /\ k + 1 > i
          BY <1>1, <2>1, <3>1, <4>2
        <5>2. Waiting(stack[k], stack[k + 1].of) /\ stack[k + 1].of \in Questions
          BY <3>1, <5>1 DEF StackOK, QuestionOK, QuestionRecords
        <5>3. stack[k].operand \in DOMAIN Parts(stack[k].of)[stack[k].at]
          <6>1. Finite({}) \in AnyDomain
            BY DEF Finite, AnyDomain
          <6> QED BY <3>2, <5>2, <6>1, FurtherIs
        <5>4. stack[k + 1].of \in OperandsOf(stack[k].of)
          BY <5>2, <5>3 DEF Waiting, OperandsOf
        <5>5. stack[k + 1].of.kind \in {"call", "opaque"}
          BY <3>2, <5>4, OperandsOfAre
        <5>6. stack[k + 1].of.kind = "call"
          BY <5>2, <5>5, QuestionKinds
        <5> QED BY <1>2, <1>6, <5>1, <5>6
      <4> QED BY <4>1, <4>2
    <3> QED BY <3>2, <3>3, <3>4, QuestionKinds
  <2>2. Top.of \in ReachedBy(VariableLinks, x)
    BY <1>1, <1>2, <1>4, <2>1 DEF PathInv
  <2>3. m \in i..m
    BY <1>1, <1>4
  <2>4. <<Top.of, x>> \in VariableLinks
    BY <1>1, <1>3, <1>6, <2>1, <2>3, LinksAre DEF VariableLinks
  <2> QED BY <1>1, <1>6, <2>2, <2>4 DEF Circular, x
<1> QED BY <1>2, <1>5, <1>6, QuestionKinds DEF x

LEMMA GivenRight ==
  ASSUME NEW x, ~Searched(x)
  PROVE  Right(x, Given(x))
BY DEF Right, Determined

LEMMA AnswerRight ==
  ASSUME ProgramOK, StackOK, PathInv, CacheRight(domains), stack # <<>>,
         Asked \in OperandsOf(Top.of), Asked \in AnyOperand, KnownAtOnce(Asked)
  PROVE  Right(Asked, AnswerAtOnce(Asked))
<1>1. CASE Cached(Asked)
  <2>1. Asked = Call(Asked.of) /\ Asked.of \in DOMAIN domains
    BY <1>1 DEF Cached, AnyOperand, Operands, Call
  <2> QED BY <1>1, <2>1 DEF CacheRight, AnswerAtOnce
<1>2. CASE ~Cached(Asked) /\ ~Searched(Asked)
  BY <1>2, GivenRight DEF AnswerAtOnce
<1>3. CASE ~Cached(Asked) /\ Searched(Asked)
  <2>1. Asked \in Questions /\ BeingAsked(Asked)
    BY <1>3, SearchedAsked DEF KnownAtOnce
  <2>2. Circular(Asked)
    BY <2>1, AskedCircular
  <2> QED BY <1>3, <2>2 DEF Right, Determined, Supplied, AnswerAtOnce
<1> QED BY <1>1, <1>2, <1>3

LEMMA FurtherRight ==
  ASSUME ProgramOK, NEW q, QuestionOK(q), GathersRight(q), NEW x, Waiting(q, x), NEW d \in AnyDomain,
         Right(x, d)
  PROVE  GathersRight(Further(q, d))
<1> DEFINE n == Further(q, d)
           parts == Parts(q.of)
<1>1. /\ n.of = q.of /\ n.known = Joined(q.known, d) /\ q.operand \in DOMAIN parts[q.at]
      /\ \A k \in DOMAIN parts : \A j \in DOMAIN parts[k] :
           Passed(n, k, j) <=> Passed(q, k, j) \/ (k = q.at /\ j = q.operand)
  BY FurtherIs
<1>2. q.known \in AnyDomain /\ q.of \in Questions /\ Searched(q.of)
  BY DEF QuestionOK, QuestionRecords
<1>3. q.at \in DOMAIN parts /\ x = parts[q.at][q.operand]
  BY DEF Waiting
<1>4. x \in AnyOperand /\ (x \in Questions => x \in Reads(q.of))
  BY <1>1, <1>2, <1>3, OperandsAre
<1> HIDE DEF n, parts
<1> SUFFICES ASSUME Steady(q.of) PROVE GathersRight(n)
  BY <1>1 DEF GathersRight, n
<1>5. d = Determined(x)
  BY <1>2, <1>4, SteadyReads DEF Right
<1>6. d.finite <=> x \in FiniteOperands
  BY <1>4, <1>5, DeterminedIs
<1>7. /\ q.known.finite <=> \A k \in DOMAIN parts : \A j \in DOMAIN parts[k] :
                              Passed(q, k, j) => parts[k][j] \in FiniteOperands
      /\ q.known.finite =>
           q.known = Finite({i \in Int : \E k \in DOMAIN parts : \E j \in DOMAIN parts[k] :
                               Passed(q, k, j) /\ i \in Determined(parts[k][j]).values})
  BY DEF GathersRight, Gathered, parts
<1>8. /\ n.known.finite <=> q.known.finite /\ d.finite
      /\ q.known.finite /\ d.finite => n.known = Finite(q.known.values \cup d.values)
  BY <1>1, <1>2, DomainsJoin
<1>9. n.known.finite <=> \A k \in DOMAIN parts : \A j \in DOMAIN parts[k] :
                           Passed(n, k, j) => parts[k][j] \in FiniteOperands
  <2>1. (\A k \in DOMAIN parts : \A j \in DOMAIN parts[k] : Passed(n, k, j) => parts[k][j] \in FiniteOperands)
          <=> /\ \A k \in DOMAIN parts : \A j \in DOMAIN parts[k] : Passed(q, k, j) => parts[k][j] \in FiniteOperands
              /\ x \in FiniteOperands
    BY <1>1, <1>3
  <2> QED BY <1>6, <1>7, <1>8, <2>1
<1>10. ASSUME n.known.finite
       PROVE  n.known = Finite({i \in Int : \E k \in DOMAIN parts : \E j \in DOMAIN parts[k] :
                                  Passed(n, k, j) /\ i \in Determined(parts[k][j]).values})
  <2>1. q.known.finite /\ d.finite /\ n.known = Finite(q.known.values \cup d.values)
    BY <1>8, <1>10
  <2>2. q.known.values = {i \in Int : \E k \in DOMAIN parts : \E j \in DOMAIN parts[k] :
                            Passed(q, k, j) /\ i \in Determined(parts[k][j]).values}
    BY <1>7, <2>1 DEF Finite
  <2>3. d.values = Determined(x).values /\ d.values \subseteq Int
    BY <1>5 DEF AnyDomain
  <2>4. q.known.values \cup d.values =
          {i \in Int : \E k \in DOMAIN parts : \E j \in DOMAIN parts[k] :
             Passed(n, k, j) /\ i \in Determined(parts[k][j]).values}
    BY <1>1, <1>3, <2>2, <2>3
  <2> QED BY <2>1, <2>4
<1> QED BY <1>1, <1>9, <1>10 DEF GathersRight, Gathered, parts

LEMMA FoundRight ==
  ASSUME ProgramOK, NEW q, QuestionOK(q), Done(q), GathersRight(q)
  PROVE  Right(q.of, Found(q))
<1> DEFINE x == q.of
           parts == Parts(x)
<1>1. x \in Questions /\ Searched(x) /\ x \in AnyOperand
  BY QuestionKinds DEF QuestionOK, QuestionRecords
<1> SUFFICES ASSUME Steady(x) PROVE Found(q) = Determined(x)
  BY <1>1 DEF Right
<1>2. CASE q.known.finite
  <2>1. \A k \in DOMAIN parts : \A j \in DOMAIN parts[k] : Passed(q, k, j)
    BY <1>2, DoneIs
  <2>2. \A k \in DOMAIN parts : \A j \in DOMAIN parts[k] : parts[k][j] \in FiniteOperands
    BY <1>2, <2>1 DEF GathersRight
  <2>3. OperandsOf(x) \subseteq FiniteOperands
    BY <2>2 DEF OperandsOf
  <2>4. q.known = Finite({n \in Int : \E k \in DOMAIN parts : \E j \in DOMAIN parts[k] :
                            Passed(q, k, j) /\ n \in Determined(parts[k][j]).values})
    BY <1>2 DEF GathersRight, Gathered
  <2>5. {n \in Int : \E k \in DOMAIN parts : \E j \in DOMAIN parts[k] :
                            Passed(q, k, j) /\ n \in Determined(parts[k][j]).values}
          = {n \in Int : \E y \in OperandsOf(x) : n \in Determined(y).values}
    BY <2>1 DEF OperandsOf
  <2>6. Found(q) = Finite({n \in Int : \E y \in OperandsOf(x) : n \in Determined(y).values})
    BY <1>2, <2>4, <2>5 DEF Found
  <2>7. CASE Circular(x)
    <3>1. Determined(x) = Provisional(x)
      BY <1>1, <2>7 DEF Determined, Supplied
    <3> QED BY <1>1, <2>3, <2>6, <2>7, <3>1, CircleSettles
  <2>8. CASE ~Circular(x)
    <3>1. Supplied(x)
      BY <1>1, <2>3, <2>8 DEF Supplied
    <3> QED BY <1>1, <2>6, <3>1, DeterminedIs
  <2> QED BY <2>7, <2>8
<1>3. CASE ~q.known.finite
  <2>1. \E k \in DOMAIN parts : \E j \in DOMAIN parts[k] : parts[k][j] \notin FiniteOperands
    BY <1>3 DEF GathersRight
  <2>2. ~(OperandsOf(x) \subseteq FiniteOperands)
    BY <2>1 DEF OperandsOf
  <2> QED BY <1>1, <1>3, <2>2 DEF Found, Determined, Supplied
<1> QED BY <1>2, <1>3


LEMMA NothingGathered ==
  ASSUME ProgramOK, NEW x \in Questions, Searched(x)
  PROVE  GathersRight(Question(x))
<1> DEFINE q == Question(x)
<1>1. q.of = x /\ q.known = Finite({}) /\ \A k, j \in Nat \ {0} : ~Passed(q, k, j)
  BY FirstQuestion
<1>2. \A k \in DOMAIN Parts(x) : k \in Nat \ {0} /\ \A j \in DOMAIN Parts(x)[k] : j \in Nat \ {0}
  BY PartsShape
<1> HIDE DEF q
<1>3. \A k \in DOMAIN Parts(x) : \A j \in DOMAIN Parts(x)[k] : ~Passed(q, k, j)
  BY <1>1, <1>2
<1>4. Gathered(q) = {}
  BY <1>1, <1>3 DEF Gathered
<1>5. q.known.finite = TRUE
  BY <1>1 DEF Finite
<1> QED BY <1>1, <1>3, <1>4, <1>5 DEF GathersRight, q

LEMMA KeepingRight ==
  ASSUME CacheRight(domains), NEW x, NEW d, x.kind = "call" => Right(Call(x.of), d)
  PROVE  CacheRight(Keeping(x, d))
BY DEF Keeping, CacheRight

LEMMA OrderStarts ==
  InitDomains => OrderInv
BY DEF InitDomains, OrderInv, CacheRight, PathInv

LEMMA OrderKept ==
  DomainsTypeInv /\ OrderInv /\ [NextDomains]_domainVars => OrderInv'
<1> SUFFICES ASSUME DomainsTypeInv, OrderInv, [NextDomains]_domainVars PROVE OrderInv'
  OBVIOUS
<1>1. program' = program
  BY ProgramStays
<1>2. ProgramOK /\ CacheOK(domains) /\ StackOK
  BY DEF DomainsTypeInv
<1>3. /\ CacheRight(domains) /\ CacheRight(earlier) /\ PathInv
      /\ \A k \in DOMAIN stack : GathersRight(stack[k])
  BY DEF OrderInv
<1> DEFINE Reached ==
             \A i, j \in DOMAIN stack' : i <= j =>
               /\ stack'[j].of \in RestsOn(stack'[i].of)
               /\ (\A k \in i..j : stack'[k].of.kind = "variable")
                    => stack'[j].of \in ReachedBy(VariableLinks, stack'[i].of)
<1>4. ASSUME CacheRight(domains'), CacheRight(earlier'), Reached, \A k \in DOMAIN stack' : GathersRight(stack'[k])
      PROVE  OrderInv'
  BY <1>1, <1>4, OrderKeptIf
<1>5. ASSUME DOMAIN stack' \subseteq DOMAIN stack, \A i, j \in DOMAIN stack' : i..j \subseteq DOMAIN stack',
             \A k \in DOMAIN stack' : stack'[k].of = stack[k].of
      PROVE  Reached
  BY <1>2, <1>3, <1>5, PathKept
<1>6. DOMAIN stack = 1..Len(stack) /\ Len(stack) \in Nat
  BY <1>2 DEF StackOK
<1>7. ASSUME UNCHANGED stack PROVE Reached /\ \A k \in DOMAIN stack' : GathersRight(stack'[k])
  <2>1. \A i, j \in DOMAIN stack' : i..j \subseteq DOMAIN stack'
    BY <1>6, <1>7
  <2> HIDE DEF Reached
  <2> QED BY <1>3, <1>5, <1>7, <2>1
<1> HIDE DEF Reached
<1>8. ASSUME NEW f \in DOMAIN program.functions, AskDomain(f)
      PROVE  OrderInv'
  <2>1. Call(f) \in Questions /\ Call(f).kind = "call" /\ Call(f).of = f
    BY DEF Questions, Call
  <2>2. CASE Searched(Call(f))
    <3> DEFINE q == Question(Call(f))
    <3>1. stack' = <<q>> /\ UNCHANGED <<domains, earlier>>
      BY <1>8, <2>2 DEF AskDomain
    <3>2. q.of = Call(f) /\ GathersRight(q)
      BY <1>2, <2>1, <2>2, FirstQuestion, NothingGathered
    <3> HIDE DEF q
    <3>3. DOMAIN stack' = {1} /\ stack'[1] = q
      BY <3>1
    <3>4. Reached
      BY <2>1, <3>2, <3>3, RestsOnSelf, ReachedSelf DEF Reached
    <3> QED BY <1>3, <1>4, <3>1, <3>2, <3>3, <3>4
  <2>3. CASE ~Searched(Call(f))
    <3>1. domains' = Keeping(Call(f), Given(Call(f))) /\ UNCHANGED <<stack, earlier>>
      BY <1>8, <2>3 DEF AskDomain
    <3>2. Right(Call(f), Given(Call(f)))
      BY <2>3, GivenRight
    <3>3. CacheRight(domains')
      BY <1>3, <2>1, <3>1, <3>2, KeepingRight
    <3> QED BY <1>3, <1>4, <1>7, <3>1, <3>3
  <2> QED BY <2>2, <2>3
<1>9. CASE PassOver
  <2> DEFINE n == [Top EXCEPT !.at = @ + 1]
  <2>1. /\ stack # <<>> /\ DOMAIN stack' = DOMAIN stack
        /\ stack'[Len(stack)] = n
        /\ \A k \in DOMAIN stack : k # Len(stack) => stack'[k] = stack[k]
        /\ Top.at \in DOMAIN Parts(Top.of) /\ Parts(Top.of)[Top.at] = <<>>
    BY <1>2, <1>9, PassOverShape
  <2>2. Len(stack) \in DOMAIN stack /\ QuestionOK(Top) /\ Top = stack[Len(stack)]
    BY <1>2, <2>1, StackShape
  <2>3. /\ n.of = Top.of /\ n.known = Top.known
        /\ \A k \in DOMAIN Parts(Top.of) : \A j \in DOMAIN Parts(Top.of)[k] : Passed(n, k, j) <=> Passed(Top, k, j)
    BY <1>2, <2>1, <2>2, PassOverIs
  <2> HIDE DEF n
  <2>4. GathersRight(n)
    <3>1. Gathered(n) = Gathered(Top)
      BY <2>3 DEF Gathered
    <3>2. GathersRight(Top)
      BY <1>3, <2>2
    <3> QED BY <2>3, <3>1, <3>2 DEF GathersRight
  <2>5. \A k \in DOMAIN stack' : stack'[k].of = stack[k].of
    BY <2>1, <2>2, <2>3
  <2>6. Reached
    BY <1>5, <1>6, <2>1, <2>5
  <2>7. UNCHANGED <<domains, earlier>>
    BY <1>9 DEF PassOver, Searching
  <2> QED BY <1>3, <1>4, <2>1, <2>4, <2>6, <2>7
<1>10. CASE AnswerOperand
  <2> DEFINE n == Further(Top, AnswerAtOnce(Asked))
  <2>1. /\ stack # <<>> /\ DOMAIN stack' = DOMAIN stack
        /\ stack'[Len(stack)] = n
        /\ \A k \in DOMAIN stack : k # Len(stack) => stack'[k] = stack[k]
        /\ Waiting(Top, Asked) /\ Asked \in AnyOperand /\ AnswerAtOnce(Asked) \in AnyDomain
        /\ Top.at \in DOMAIN Parts(Top.of) /\ Top.operand \in DOMAIN Parts(Top.of)[Top.at]
    BY <1>2, <1>10, AnswerShape
  <2>2. Len(stack) \in DOMAIN stack /\ QuestionOK(Top) /\ Top = stack[Len(stack)] /\ Top.of \in Questions
    BY <1>2, <2>1, StackShape
  <2>3. /\ domains' = (IF Searched(Asked) THEN domains ELSE Keeping(Asked, AnswerAtOnce(Asked)))
        /\ KnownAtOnce(Asked) /\ UNCHANGED earlier
    BY <1>10 DEF AnswerOperand, Searching
  <2>4. Asked \in OperandsOf(Top.of)
    BY <2>1 DEF Asked, OperandsOf
  <2>5. Right(Asked, AnswerAtOnce(Asked))
    BY <1>2, <1>3, <2>1, <2>3, <2>4, AnswerRight
  <2>6. GathersRight(n) /\ n.of = Top.of
    BY <1>2, <1>3, <2>1, <2>2, <2>5, FurtherRight, FurtherIs
  <2>7. Asked.kind = "call" => Asked = Call(Asked.of)
    BY <2>1 DEF AnyOperand, Operands, Call
  <2>8. CacheRight(domains')
    BY <1>3, <2>3, <2>5, <2>7, KeepingRight
  <2> HIDE DEF n
  <2>9. \A k \in DOMAIN stack' : stack'[k].of = stack[k].of
    BY <2>1, <2>2, <2>6
  <2>10. Reached
    BY <1>5, <1>6, <2>1, <2>9
  <2> QED BY <1>3, <1>4, <2>1, <2>3, <2>6, <2>8, <2>10
<1>11. CASE SearchOperand
  <2> DEFINE q == Question(Asked)
  <2>1. /\ stack # <<>> /\ Asked \in Questions /\ Searched(Asked)
        /\ DOMAIN stack' = 1..(Len(stack) + 1)
        /\ stack'[Len(stack) + 1] = q
        /\ \A k \in DOMAIN stack : stack'[k] = stack[k]
    BY <1>2, <1>11, SearchShape
  <2>2. GathersRight(q)
    BY <1>2, <2>1, NothingGathered
  <2> HIDE DEF q
  <2>3. UNCHANGED <<domains, earlier>>
    BY <1>11 DEF SearchOperand, Searching
  <2>4. Reached
    BY <1>2, <1>3, <1>11, PathGrows DEF Reached
  <2>5. \A k \in DOMAIN stack' : k \in DOMAIN stack \/ k = Len(stack) + 1
    BY <1>6, <2>1
  <2> QED BY <1>3, <1>4, <2>1, <2>2, <2>3, <2>4, <2>5
<1>12. CASE ReturnDomain
  <2> DEFINE m == Len(stack) - 1
             q == stack[m]
             n == Further(q, Found(Top))
  <2>1. /\ stack # <<>> /\ Done(Top) /\ Found(Top) \in AnyDomain
        /\ DOMAIN stack' = 1..m
        /\ \A k \in DOMAIN stack : k < m => stack'[k] = stack[k]
        /\ m \in DOMAIN stack => stack'[m] = n /\ QuestionOK(q) /\ Waiting(q, Top.of)
    BY <1>2, <1>12, ReturnShape
  <2>2. Len(stack) \in Nat \ {0} /\ DOMAIN stack = 1..Len(stack) /\ QuestionOK(Top) /\ Top = stack[Len(stack)]
        /\ Top.of \in Questions
    BY <1>2, <2>1, StackShape
  <2>3. Right(Top.of, Found(Top))
    BY <1>2, <1>3, <2>1, <2>2, FoundRight
  <2>4. CacheRight(domains') /\ UNCHANGED earlier
    <3>1. domains' = Keeping(Top.of, Found(Top)) /\ UNCHANGED earlier
      BY <1>12 DEF ReturnDomain, Searching
    <3>2. Top.of.kind = "call" => Top.of = Call(Top.of.of)
      BY <1>2, <2>2, QuestionKinds
    <3> QED BY <1>3, <2>3, <3>1, <3>2, KeepingRight
  <2>5. m \in DOMAIN stack => GathersRight(n) /\ n.of = q.of
    BY <1>2, <1>3, <2>1, <2>3, FurtherRight, FurtherIs
  <2> HIDE DEF n
  <2>6. ASSUME NEW k \in DOMAIN stack' PROVE GathersRight(stack'[k]) /\ stack'[k].of = stack[k].of
    <3>1. k \in DOMAIN stack /\ m \in DOMAIN stack /\ (k < m \/ k = m)
      BY <2>1, <2>2, <2>6
    <3> QED BY <1>3, <2>1, <2>5, <3>1
  <2>7. DOMAIN stack' \subseteq DOMAIN stack /\ \A i, j \in DOMAIN stack' : i..j \subseteq DOMAIN stack'
    BY <2>1, <2>2
  <2>8. Reached
    BY <1>5, <2>6, <2>7
  <2> QED BY <1>3, <1>4, <2>4, <2>6, <2>8
<1>13. CASE AnalyzeAgain
  <2>1. UNCHANGED stack /\ earlier' = domains /\ domains' = <<>>
    BY <1>13 DEF AnalyzeAgain
  <2>2. CacheRight(<<>>)
    BY DEF CacheRight
  <2> QED BY <1>3, <1>4, <1>7, <2>1, <2>2
<1>14. CASE Run \/ UNCHANGED domainVars
  <2>1. UNCHANGED <<stack, earlier, domains>>
    BY <1>14 DEF Run, domainVars
  <2> QED BY <1>3, <1>4, <1>7, <2>1
<1> QED BY <1>8, <1>9, <1>10, <1>11, <1>12, <1>13, <1>14 DEF NextDomains

\* Two analyses that meet the calls in different orders agree on every function,
\* unless its answer rests on an unsteady circle.
THEOREM OrderNeverMatters ==
  DomainsSpec => []OrderDoesNotMatter
<1> DEFINE Inv == DomainsTypeInv /\ OrderInv
<1>1. InitDomains => Inv
  BY TypeStarts, OrderStarts
<1>2. Inv /\ [NextDomains]_domainVars => Inv'
  BY TypeKept, OrderKept
<1>3. Inv => OrderDoesNotMatter
  <2> SUFFICES ASSUME Inv, NEW f \in DOMAIN domains \cap DOMAIN earlier
               PROVE  domains[f] = earlier[f] \/ \E x \in RestsOn(Call(f)) : Unsteady(x)
    BY DEF OrderDoesNotMatter
  <2>1. Right(Call(f), domains[f]) /\ Right(Call(f), earlier[f])
    BY DEF OrderInv, CacheRight
  <2> QED BY <2>1 DEF Right, Steady
<1> QED BY <1>1, <1>2, <1>3, PTL DEF DomainsSpec
=============================================================================

-------------------------- MODULE NullableInference --------------------------
(***************************************************************************)
(* Which functions may return NULL: is_nullable_function_impl and          *)
(* call_returns_nullable_pointer of AnalyzerNullState.cpp, a depth-first   *)
(* search through the bodies of the functions called, over one cache and   *)
(* one set of active functions that live as long as the analyzer.          *)
(*                                                                         *)
(* A program is a constant: for each function                              *)
(*   annotated   a redeclaration says that it is nullable                  *)
(*   hasCFG      Clang builds a CFG for its body                           *)
(*   calls       the callee of each call site, in traversal order; Failing *)
(*               stands for a callee whose type or contract already says   *)
(*               nullable, Opaque for a call that cannot be                *)
(*   returns     what it returns, the arms of a conditional one by one     *)
(* A function without a visible body calls and returns nothing.  A return  *)
(* is NULL, safe, an error pointer, a nullable parameter, the call site    *)
(* itself ("direct"), or something the null-state analysis traces to that  *)
(* site unchecked ("held").                                                *)
(***************************************************************************)
EXTENDS Naturals, Sequences, FiniteSets

CONSTANTS Functions, Failing, Opaque, Programs

Callees == Functions \cup {Failing, Opaque}
Returns == [how : {"null", "safe", "error", "param", "direct", "held"}, site : Nat]
Bodies == [annotated : BOOLEAN, hasCFG : BOOLEAN, calls : Seq(Callees), returns : Seq(Returns)]

SitesExist(body) ==
  \A i \in DOMAIN body.returns :
    body.returns[i].how \in {"direct", "held"} => body.returns[i].site \in DOMAIN body.calls

ASSUME InferenceAssumption ==
  /\ Failing \notin Functions /\ Opaque \notin Functions /\ Failing # Opaque
  /\ IsFiniteSet(Functions)
  /\ Programs \subseteq [Functions -> Bodies]
  /\ \A p \in Programs : \A f \in Functions : SitesExist(p[f])

VARIABLES
  program,             \* the translation unit
  cache,               \* nullable_cache_
  active,              \* active_nullable_checks_
  stack,               \* calls of is_nullable_function_impl that walk a body
  mode,                \* what happens next
  target,              \* the function asked about
  answer               \* the value returned last
vars == <<program, cache, active, stack, mode, target, answer>>

Verdicts == {"unknown", "yes", "no"}
Modes == {"idle", "lookup", "body", "reply"}

\* sources: the call sites pushed to `sources` so far; at: the call site
\* (phase "calls") or the return (phase "returns") under consideration.
Frames == [fn : Functions, phase : {"calls", "returns"}, at : Nat \ {0}, sources : SUBSET Nat]

Verdict(b) == IF b THEN "yes" ELSE "no"

Depth == Len(stack)
Top == stack[Depth]
TopBody == program[Top.fn]
Pop == SubSeq(stack, 1, Depth - 1)
SetTop(frame) == [stack EXCEPT ![Depth] = frame]

Init ==
  /\ program \in Programs
  /\ cache = [f \in Functions |-> "unknown"]
  /\ active = {}
  /\ stack = <<>>
  /\ mode = "idle"
  /\ target \in Functions
  /\ answer = FALSE

-----------------------------------------------------------------------------
\* call_returns_nullable_pointer: only a function is looked up.
Consider(callee) ==
  IF callee \in Functions
  THEN mode' = "lookup" /\ target' = callee /\ UNCHANGED answer
  ELSE mode' = "reply" /\ answer' = (callee = Failing) /\ UNCHANGED target

Answer(b) == mode' = "reply" /\ answer' = b /\ UNCHANGED target

\* A call of the user's code is visited.
Ask(callee) ==
  /\ mode = "idle"
  /\ Consider(callee)
  /\ UNCHANGED <<program, cache, active, stack>>

CacheHit ==
  /\ mode = "lookup" /\ cache[target] # "unknown"
  /\ Answer(cache[target] = "yes")
  /\ UNCHANGED <<program, cache, active, stack>>

Annotated ==
  /\ mode = "lookup" /\ cache[target] = "unknown" /\ program[target].annotated
  /\ cache' = [cache EXCEPT ![target] = "yes"]
  /\ Answer(TRUE)
  /\ UNCHANGED <<program, active, stack>>

Fresh == mode = "lookup" /\ cache[target] = "unknown" /\ ~program[target].annotated

RecursiveIsCached ==     \* a slip: the provisional answer is cached
  /\ Fresh /\ target \in active
  /\ cache' = [cache EXCEPT ![target] = "no"]
  /\ Answer(FALSE)
  /\ UNCHANGED <<program, active, stack>>

\* `active.contains(canonical)`: no, for now, and nothing is cached.
Recursive ==
  /\ Fresh /\ target \in active
  /\ Answer(FALSE)
  /\ UNCHANGED <<program, cache, active, stack>>

Returning(body, how) == \E i \in DOMAIN body.returns : body.returns[i].how = how

\* Error pointers and no NULL: callers test the result with IS_ERR.
ReturnsErrorPointers(body) == Returning(body, "error") /\ ~Returning(body, "null")

ErrorPointers ==
  /\ Fresh /\ target \notin active /\ ReturnsErrorPointers(program[target])
  /\ cache' = [cache EXCEPT ![target] = "no"]
  /\ Answer(FALSE)
  /\ UNCHANGED <<program, active, stack>>

\* The body is walked; without a CFG, its returns only.
Descend ==
  /\ Fresh /\ target \notin active /\ ~ReturnsErrorPointers(program[target])
  /\ active' = active \cup {target}
  /\ stack' = Append(stack, [fn |-> target, at |-> 1, sources |-> {},
                phase |-> IF program[target].hasCFG THEN "calls" ELSE "returns"])
  /\ mode' = "body"
  /\ UNCHANGED <<program, cache, target, answer>>

-----------------------------------------------------------------------------
\* CallFinder::VisitCallExpr, and what it does with the reply.

Finding == mode = "body" /\ Top.phase = "calls"

VisitCall ==
  /\ Finding /\ Top.at \in DOMAIN TopBody.calls
  /\ Consider(TopBody.calls[Top.at])
  /\ UNCHANGED <<program, cache, active, stack>>

\* The top frame past its call site, a source if the call may return NULL.
Counting(nullable) ==
  [fn |-> Top.fn, phase |-> Top.phase, at |-> Top.at + 1,
   sources |-> IF nullable THEN Top.sources \cup {Top.at} ELSE Top.sources]

CallAnsweredInverted ==  \* a slip: the calls that cannot be null are followed
  /\ mode = "reply" /\ stack # <<>> /\ Top.phase = "calls"
  /\ stack' = SetTop(Counting(~answer))
  /\ mode' = "body"
  /\ UNCHANGED <<program, cache, active, target, answer>>

CallAnsweredRetries ==   \* a slip: a provisional answer is asked for again
  /\ mode = "reply" /\ stack # <<>> /\ Top.phase = "calls"
  /\ stack' = SetTop([Top EXCEPT
                !.at = IF target \in active \ {Top.fn} THEN @ ELSE @ + 1,
                !.sources = IF answer THEN @ \cup {Top.at} ELSE @])
  /\ mode' = "body"
  /\ UNCHANGED <<program, cache, active, target, answer>>

CallAnswered ==
  /\ mode = "reply" /\ stack # <<>> /\ Top.phase = "calls"
  /\ stack' = SetTop(Counting(answer))
  /\ mode' = "body"
  /\ UNCHANGED <<program, cache, active, target, answer>>

CallsVisited ==
  /\ Finding /\ Top.at \notin DOMAIN TopBody.calls
  /\ stack' = SetTop([fn |-> Top.fn, phase |-> "returns", at |-> 1, sources |-> Top.sources])
  /\ mode' = "body"
  /\ UNCHANGED <<program, cache, active, target, answer>>

-----------------------------------------------------------------------------
\* The scan of the returns: is_expr_nullable, or without a CFG
\* function_returns_nullable_pointer_expression.

\* active.erase(canonical); nullable_cache_[canonical] = b; return b
Conclude(b) ==
  /\ stack' = Pop
  /\ active' = active \ {Top.fn}
  /\ cache' = [cache EXCEPT ![Top.fn] = Verdict(b)]
  /\ Answer(b)
  /\ UNCHANGED program

Return == TopBody.returns[Top.at]

Scanning == mode = "body" /\ Top.phase = "returns"

\* Null without asking: a literal, a source that arrives here unchecked.
FromSource == Return.how \in {"direct", "held"} /\ Return.site \in Top.sources

NullOnSight == Return.how = "null" \/ (Return.how = "param" /\ TopBody.hasCFG)

NextReturnIsLast ==      \* a slip: the first return decides
  /\ stack' = SetTop([Top EXCEPT !.at = Len(TopBody.returns) + 1])
  /\ mode' = "body"
  /\ UNCHANGED <<program, cache, active, target, answer>>

NextReturn ==
  /\ stack' = SetTop([Top EXCEPT !.at = @ + 1])
  /\ mode' = "body"
  /\ UNCHANGED <<program, cache, active, target, answer>>

AskReturn ==
  /\ Scanning /\ Top.at \in DOMAIN TopBody.returns /\ Return.how = "direct"
  /\ Consider(TopBody.calls[Return.site])
  /\ UNCHANGED <<program, cache, active, stack>>

NullableReturn ==
  /\ Scanning /\ Top.at \in DOMAIN TopBody.returns /\ Return.how # "direct"
  /\ NullOnSight \/ FromSource
  /\ Conclude(TRUE)

SkipReturn ==
  /\ Scanning /\ Top.at \in DOMAIN TopBody.returns /\ Return.how # "direct"
  /\ ~NullOnSight /\ ~FromSource
  /\ NextReturn

ReturnAnswered ==
  /\ mode = "reply" /\ stack # <<>> /\ Top.phase = "returns"
  /\ \/ (answer \/ FromSource) /\ Conclude(TRUE)
     \/ ~answer /\ ~FromSource /\ NextReturn

NoEvidence ==
  /\ Scanning /\ Top.at \notin DOMAIN TopBody.returns
  /\ Conclude(FALSE)

\* The visitor has its reply.
Answered ==
  /\ mode = "reply" /\ stack = <<>>
  /\ mode' = "idle"
  /\ UNCHANGED <<program, cache, active, stack, target, answer>>

Lookup == CacheHit \/ Annotated \/ Recursive \/ ErrorPointers \/ Descend
Walk == VisitCall \/ CallAnswered \/ CallsVisited
Scan == AskReturn \/ NullableReturn \/ SkipReturn \/ ReturnAnswered \/ NoEvidence
Search == Lookup \/ Walk \/ Scan \/ Answered

Next == Search \/ \E callee \in Callees : Ask(callee)

Spec == Init /\ [][Next]_vars

\* One thread runs the search: it goes on until it returns.
FairSpec == Spec /\ WF_vars(Search)

-----------------------------------------------------------------------------
\* What the verdicts ought to be.

\* Given the functions S known to return NULL, does a body return NULL?
Yields(callee, S) == callee = Failing \/ callee \in S

Evidence(body, r, S) ==
  \/ r.how = "null"
  \/ r.how = "param" /\ body.hasCFG
  \/ r.how = "direct" /\ Yields(body.calls[r.site], S)
  \/ r.how = "held" /\ body.hasCFG /\ Yields(body.calls[r.site], S)

Supported(f, S) ==
  \/ program[f].annotated
  \/ /\ ~ReturnsErrorPointers(program[f])
     /\ \E i \in DOMAIN program[f].returns : Evidence(program[f], program[f].returns[i], S)

Nullable == {f \in Functions : cache[f] = "yes"}

Calls(f) == {program[f].calls[i] : i \in DOMAIN program[f].calls} \cap Functions

\* No function calls itself, directly or through others.
Ranks(rank) == \A f \in Functions : \A g \in Calls(f) : rank[g] < rank[f]

Acyclic == \E rank \in [Functions -> 1..Cardinality(Functions)] : Ranks(rank)

-----------------------------------------------------------------------------
TypeOK ==
  /\ program \in [Functions -> Bodies]
  /\ cache \in [Functions -> Verdicts]
  /\ active = {stack[i].fn : i \in 1..Depth}
  /\ stack \in Seq(Frames)
  /\ mode \in Modes /\ target \in Functions /\ answer \in BOOLEAN
  /\ \A i, j \in 1..Depth : stack[i].fn = stack[j].fn => i = j

\* A function is called nullable for a reason that does not rest on itself: it
\* belongs to every set of functions closed under the evidence in the bodies.
VerdictsAreGrounded ==
  \A S \in SUBSET Functions :
    (\A f \in Functions : Supported(f, S) => f \in S) => Nullable \subseteq S

\* No evidence speaks against a function cached as not nullable, whatever was
\* asked before it and will be asked after.
VerdictsMatchBodies == \A f \in Functions : cache[f] = "no" => ~Supported(f, Nullable)

\* That holds wherever the functions do not call each other in a circle.
AcyclicVerdictsMatchBodies == Acyclic => VerdictsMatchBodies

\* What the analyzer has told one caller it tells every other: a cached verdict
\* is never overwritten, though the search writes the cache at four places.
VerdictsAreFinal ==
  [][\A f \in Functions : cache[f] # "unknown" => cache'[f] = cache[f]]_vars

\* Every call visited gets its reply, recursion or not.
EveryQuestionIsAnswered == (mode # "idle") ~> (mode = "idle")

-----------------------------------------------------------------------------
\* The inductive invariant behind these properties.

\* The call whose reply a frame needs, while it waits for one.
Body(frame) == program[frame.fn]

Waiting(frame) ==
  \/ frame.phase = "calls" /\ frame.at \in DOMAIN Body(frame).calls
  \/ /\ frame.phase = "returns" /\ frame.at \in DOMAIN Body(frame).returns
     /\ Body(frame).returns[frame.at].how = "direct"

Asked(frame) ==
  IF frame.phase = "calls" THEN Body(frame).calls[frame.at]
  ELSE Body(frame).calls[Body(frame).returns[frame.at].site]

ProgramOK == \A f \in Functions : SitesExist(program[f])

\* A frame walks a body that is worth walking, of a function not yet cached,
\* and its sources are calls that may return NULL.
FrameOK(frame) ==
  /\ cache[frame.fn] = "unknown"
  /\ ~Body(frame).annotated /\ ~ReturnsErrorPointers(Body(frame))
  /\ frame.phase = "calls" => Body(frame).hasCFG
  /\ frame.sources # {} => Body(frame).hasCFG
  /\ frame.sources \subseteq DOMAIN Body(frame).calls
  /\ \A k \in frame.sources : Yields(Body(frame).calls[k], Nullable)

\* Each frame waits for the one above it, the top frame for the lookup.
ChainOK ==
  /\ \A i \in 1..Depth : FrameOK(stack[i])
  /\ \A i \in 1..(Depth - 1) : Waiting(stack[i]) /\ Asked(stack[i]) = stack[i + 1].fn
  /\ mode = "idle" => stack = <<>>
  /\ mode = "body" => stack # <<>>
  /\ mode = "lookup" /\ stack # <<>> => Waiting(Top) /\ Asked(Top) = target
  /\ mode = "reply" /\ stack # <<>> =>
       Waiting(Top) /\ (answer => Yields(Asked(Top), Nullable))

SearchInv == TypeOK /\ ProgramOK /\ ChainOK

\* The part that needs an acyclic program.  A call is refuted for good, a
\* return and a body are when the calls they rest on are.
Refuted(callee) == callee = Opaque \/ (callee \in Functions /\ cache[callee] = "no")

RefutedReturn(body, r) ==
  /\ r.how # "null"
  /\ r.how = "param" => ~body.hasCFG
  /\ r.how = "direct" => Refuted(body.calls[r.site])
  /\ r.how = "held" /\ body.hasCFG => Refuted(body.calls[r.site])

RefutedBody(body) ==
  /\ ~body.annotated
  /\ \/ ReturnsErrorPointers(body)
     \/ \A i \in DOMAIN body.returns : RefutedReturn(body, body.returns[i])

\* Every call considered so far is a source or refuted, every return refuted.
Settled(frame) ==
  /\ \A k \in DOMAIN Body(frame).calls :
       Body(frame).hasCFG /\ (frame.phase = "calls" => k < frame.at) =>
         k \in frame.sources \/ Refuted(Body(frame).calls[k])
  /\ frame.phase = "returns" =>
       \A k \in DOMAIN Body(frame).returns :
         k < frame.at => RefutedReturn(Body(frame), Body(frame).returns[k])

Descending ==
  \A rank \in [Functions -> 1..Cardinality(Functions)] :
    Ranks(rank) => \A i, j \in 1..Depth : i < j => rank[stack[j].fn] < rank[stack[i].fn]

SettledInv ==
  /\ \A i \in 1..Depth : Settled(stack[i])
  /\ mode = "reply" /\ stack # <<>> /\ ~answer => Refuted(Asked(Top))
  /\ \A f \in Functions : cache[f] = "no" => RefutedBody(program[f])

AcyclicInv == Descending /\ (Acyclic => SettledInv)

InferenceInv == SearchInv /\ VerdictsAreGrounded /\ AcyclicInv
=============================================================================

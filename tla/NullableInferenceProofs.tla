----------------------- MODULE NullableInferenceProofs -----------------------
(***************************************************************************)
(* For every set of functions and every program over it: a verdict rests   *)
(* on evidence that does not rest on the verdict, it is never revised, and *)
(* where no function reaches itself no evidence is ever overlooked.        *)
(***************************************************************************)
EXTENDS NullableInference, SequenceTheorems, FiniteSetTheorems, TLAPS

-----------------------------------------------------------------------------
\* The stack operations.

LEMMA NonEmptyLen ==
  ASSUME NEW S, NEW s \in Seq(S), s # <<>>
  PROVE  Len(s) \in 1..Len(s)
BY EmptySeq, LenProperties

LEMMA ElementsKept ==
  ASSUME NEW S, NEW s \in Seq(S), s # <<>>
  PROVE  \A i \in 1..(Len(s) - 1) : s[i] \in S
BY NonEmptyLen, LenProperties, ElementOfSeq

LEMMA PopFacts ==
  ASSUME NEW S, NEW s \in Seq(S), s # <<>>
  PROVE  /\ SubSeq(s, 1, Len(s) - 1) \in Seq(S)
         /\ Len(SubSeq(s, 1, Len(s) - 1)) = Len(s) - 1
         /\ \A i \in 1..(Len(s) - 1) : SubSeq(s, 1, Len(s) - 1)[i] = s[i]
<1>1. Len(s) \in Nat /\ Len(s) >= 1
  BY NonEmptyLen, LenProperties
<1>2. \A i \in 1..(Len(s) - 1) : s[i] \in S
  BY ElementsKept
<1> DEFINE n == Len(s) - 1
<1>3. n \in Int /\ 1 \in Int /\ n >= 0
  BY <1>1
<1> HIDE DEF n
<1>4. \A i \in 1..n : s[i] \in S
  BY <1>2 DEF n
<1>5. /\ SubSeq(s, 1, n) \in Seq(S)
      /\ Len(SubSeq(s, 1, n)) = IF 1 <= n THEN n - 1 + 1 ELSE 0
      /\ \A i \in 1..(n - 1 + 1) : SubSeq(s, 1, n)[i] = s[1 + i - 1]
  BY ONLY <1>3, <1>4, SubSeqProperties
<1>6. Len(SubSeq(s, 1, n)) = n
  BY <1>3, <1>5
<1>7. \A i \in 1..n : SubSeq(s, 1, n)[i] = s[i]
  <2> SUFFICES ASSUME NEW i \in 1..n PROVE SubSeq(s, 1, n)[i] = s[i]
    OBVIOUS
  <2>1. i \in 1..(n - 1 + 1) /\ 1 + i - 1 = i
    BY <1>3
  <2> QED BY <2>1, <1>5
<1> QED BY <1>5, <1>6, <1>7 DEF n

LEMMA SetLastFacts ==
  ASSUME NEW S, NEW s \in Seq(S), s # <<>>, NEW e \in S
  PROVE  /\ [s EXCEPT ![Len(s)] = e] \in Seq(S)
         /\ Len([s EXCEPT ![Len(s)] = e]) = Len(s)
         /\ \A j \in 1..Len(s) : [s EXCEPT ![Len(s)] = e][j] = IF j = Len(s) THEN e ELSE s[j]
BY NonEmptyLen, ExceptSeq

USE DEF Callees, Verdicts, Modes, Depth, Top

LEMMA PushStack ==
  ASSUME NEW fr \in Frames, stack \in Seq(Frames), stack' = Append(stack, fr)
  PROVE  /\ stack' \in Seq(Frames) /\ Len(stack') = Len(stack) + 1 /\ stack' # <<>>
         /\ \A i \in 1..Len(stack) : stack'[i] = stack[i]
         /\ stack'[Len(stack')] = fr
  BY AppendProperties

LEMMA PopStack ==
  ASSUME stack \in Seq(Frames), stack # <<>>, stack' = Pop
  PROVE  /\ stack' \in Seq(Frames) /\ Len(stack') = Len(stack) - 1
         /\ \A i \in 1..Len(stack') : stack'[i] = stack[i]
BY PopFacts DEF Pop

LEMMA ReplaceTop ==
  ASSUME NEW fr \in Frames, stack \in Seq(Frames), stack # <<>>, stack' = SetTop(fr)
  PROVE  /\ stack' \in Seq(Frames) /\ Len(stack') = Len(stack)
         /\ \A i \in 1..Len(stack) : stack'[i] = IF i = Len(stack) THEN fr ELSE stack[i]
BY SetLastFacts DEF SetTop

LEMMA TopIsAFrame ==
  ASSUME stack \in Seq(Frames), stack # <<>>
  PROVE  Depth \in 1..Depth /\ Top \in Frames
BY NonEmptyLen, ElementOfSeq

-----------------------------------------------------------------------------
\* The invariant of every search.

LEMMA SearchStarts == Init => SearchInv
<1> SUFFICES ASSUME Init PROVE SearchInv
  OBVIOUS
<1>1. stack \in Seq(Frames) /\ Depth = 0 /\ 1..Depth = {} /\ 1..(Depth - 1) = {}
  BY EmptySeq DEF Init
<1>2. TypeOK
  BY <1>1, InferenceAssumption DEF Init, TypeOK
<1>3. ProgramOK
  BY InferenceAssumption DEF Init, ProgramOK
<1>4. ChainOK
  BY <1>1 DEF Init, ChainOK
<1> QED BY <1>2, <1>3, <1>4 DEF SearchInv

LEMMA StackElement ==
  ASSUME SearchInv, NEW i \in 1..Depth
  PROVE  /\ stack[i] \in Frames /\ stack[i].fn \in Functions
         /\ FrameOK(stack[i]) /\ cache[stack[i].fn] = "unknown"
<1>1. stack[i] \in Frames
  BY ElementOfSeq DEF SearchInv, TypeOK
<1>2. FrameOK(stack[i])
  BY DEF SearchInv, ChainOK
<1> QED BY <1>1, <1>2 DEF Frames, FrameOK

\* What every step keeps of a frame it does not touch.
LEMMA FramesKept ==
  ASSUME SearchInv, NEW i \in 1..Depth, NEW i2 \in 1..Depth', stack'[i2] = stack[i],
         program' = program, cache'[stack[i].fn] = "unknown",
         Nullable \subseteq Nullable'
  PROVE  FrameOK(stack[i2])'
BY DEF SearchInv, ChainOK, FrameOK, Body, Yields

LEMMA LinksKept ==
  ASSUME SearchInv, program' = program, Depth' \in Nat, Depth' <= Depth,
         \A i \in 1..Depth' : stack'[i] = stack[i]
  PROVE  (\A i \in 1..(Depth - 1) : Waiting(stack[i]) /\ Asked(stack[i]) = stack[i + 1].fn)'
<1>1. Depth \in Nat
  BY LenProperties DEF SearchInv, TypeOK
<1> SUFFICES ASSUME NEW i \in 1..(Depth' - 1)
             PROVE  (Waiting(stack[i]) /\ Asked(stack[i]) = stack[i + 1].fn)'
  OBVIOUS
<1>2. /\ i \in 1..(Depth - 1) /\ i \in 1..Depth' /\ i + 1 \in 1..Depth'
  BY <1>1
<1>3. stack'[i] = stack[i] /\ stack'[i + 1] = stack[i + 1]
  BY <1>2
<1>4. Waiting(stack[i]) /\ Asked(stack[i]) = stack[i + 1].fn
  BY <1>2 DEF SearchInv, ChainOK
<1> QED BY <1>3, <1>4 DEF Waiting, Asked, Body

\* A step that touches neither the stack nor the cache.
LEMMA QuietStep ==
  ASSUME SearchInv, UNCHANGED <<program, cache, active, stack>>,
         mode' \in Modes, target' \in Functions, answer' \in BOOLEAN,
         mode' = "idle" => stack = <<>>,
         mode' = "body" => stack # <<>>,
         mode' \in {"lookup", "reply"} /\ stack # <<>> => Waiting(Top),
         mode' = "lookup" /\ stack # <<>> => Asked(Top) = target',
         mode' = "reply" /\ stack # <<>> /\ answer' => Yields(Asked(Top), Nullable)
  PROVE  SearchInv'
<1>1. TypeOK'
  BY DEF SearchInv, TypeOK
<1>2. ProgramOK'
  BY DEF SearchInv, ProgramOK
<1>3. ChainOK'
  BY DEF SearchInv, ChainOK, FrameOK, Body, Waiting, Asked, Yields, Nullable
<1> QED BY <1>1, <1>2, <1>3 DEF SearchInv


\* The walk of the top body ends with a verdict.
LEMMA ConcludeStep ==
  ASSUME SearchInv, stack # <<>>, NEW b \in BOOLEAN, Conclude(b)
  PROVE  SearchInv'
<1>1. /\ Depth \in 1..Depth /\ Depth \in Nat /\ Top \in Frames /\ Top.fn \in Functions
  BY TopIsAFrame, LenProperties DEF SearchInv, TypeOK, Frames
<1>2. /\ stack' \in Seq(Frames) /\ Depth' = Depth - 1
      /\ \A i \in 1..Depth' : stack'[i] = stack[i]
  BY PopStack DEF Conclude, SearchInv, TypeOK
<1>3. \A i \in 1..Depth' : i \in 1..Depth /\ stack[i].fn # Top.fn
  BY <1>1, <1>2 DEF SearchInv, TypeOK
<1>4. /\ FrameOK(Top) /\ cache[Top.fn] = "unknown"
      /\ cache' = [cache EXCEPT ![Top.fn] = Verdict(b)] /\ cache' \in [Functions -> Verdicts]
  BY <1>1 DEF SearchInv, TypeOK, ChainOK, FrameOK, Conclude, Verdict
<1>5. Nullable \subseteq Nullable' /\ (b => Top.fn \in Nullable')
  BY <1>1, <1>4 DEF Nullable, Verdict, SearchInv, TypeOK
<1>6. TypeOK'
  <2>1. active' = {stack'[i].fn : i \in 1..Depth'}
    <3>1. active' = {stack[i].fn : i \in 1..Depth} \ {Top.fn}
      BY DEF Conclude, SearchInv, TypeOK
    <3>2. \A i \in 1..Depth : i \in 1..Depth' \/ i = Depth
      BY <1>1, <1>2
    <3> QED BY <3>1, <3>2, <1>2, <1>3
  <2>2. \A i, j \in 1..Depth' : stack'[i].fn = stack'[j].fn => i = j
    BY <1>2, <1>3 DEF SearchInv, TypeOK
  <2> QED BY <2>1, <2>2, <1>2, <1>4 DEF SearchInv, TypeOK, Conclude, Answer
<1>7. ProgramOK'
  BY DEF SearchInv, ProgramOK, Conclude
<1>8. ChainOK'
  <2>1. (\A i \in 1..Depth : FrameOK(stack[i]))'
    <3> SUFFICES ASSUME NEW i \in 1..Depth' PROVE FrameOK(stack[i])'
      OBVIOUS
    <3>1. stack[i].fn \in Functions /\ cache[stack[i].fn] = "unknown"
      BY <1>3, StackElement
    <3>2. cache'[stack[i].fn] = "unknown"
      BY <3>1, <1>3, <1>4 DEF SearchInv, TypeOK
    <3> QED BY <3>2, <1>2, <1>3, <1>5, FramesKept DEF Conclude
  <2>2. (\A i \in 1..(Depth - 1) : Waiting(stack[i]) /\ Asked(stack[i]) = stack[i + 1].fn)'
    BY <1>1, <1>2, LinksKept DEF Conclude
  <2>3. ASSUME stack' # <<>> PROVE Waiting(Top)' /\ Asked(Top)' = Top.fn
    <3>1. Depth' \in 1..Depth' /\ Depth' \in 1..(Depth - 1) /\ Depth' + 1 = Depth
      BY <1>1, <1>2, <2>3, NonEmptyLen
    <3>2. Waiting(stack[Depth']) /\ Asked(stack[Depth']) = Top.fn
      BY <3>1 DEF SearchInv, ChainOK
    <3> QED BY <3>1, <3>2, <1>2 DEF Waiting, Asked, Body, Conclude
  <2> QED BY <2>1, <2>2, <2>3, <1>5 DEF ChainOK, Conclude, Answer, Yields
<1> QED BY <1>6, <1>7, <1>8 DEF SearchInv

\* The top frame moves on to its next item.
LEMMA AdvanceStep ==
  ASSUME SearchInv, stack # <<>>, NEW fr \in Frames,
         stack' = SetTop(fr), mode' = "body",
         UNCHANGED <<program, cache, active, target, answer>>,
         fr.fn = Top.fn, FrameOK(fr)
  PROVE  SearchInv'
<1>1. /\ Depth \in 1..Depth /\ Depth \in Nat /\ Top \in Frames
  BY TopIsAFrame, LenProperties DEF SearchInv, TypeOK
<1>2. /\ stack' \in Seq(Frames) /\ Depth' = Depth
      /\ \A i \in 1..Depth : stack'[i] = IF i = Depth THEN fr ELSE stack[i]
  BY ReplaceTop DEF SearchInv, TypeOK
<1>3. \A i \in 1..Depth : stack'[i].fn = stack[i].fn
  BY <1>1, <1>2
<1>4. TypeOK'
  <2>1. active' = {stack'[i].fn : i \in 1..Depth'}
    BY <1>2, <1>3 DEF SearchInv, TypeOK
  <2>2. \A i, j \in 1..Depth' : stack'[i].fn = stack'[j].fn => i = j
    BY <1>2, <1>3 DEF SearchInv, TypeOK
  <2> QED BY <2>1, <2>2, <1>2 DEF SearchInv, TypeOK
<1>5. ProgramOK'
  BY DEF SearchInv, ProgramOK
<1>6. ChainOK'
  <2>1. (\A i \in 1..Depth : FrameOK(stack[i]))'
    <3> SUFFICES ASSUME NEW i \in 1..Depth' PROVE FrameOK(stack[i])'
      OBVIOUS
    <3>1. i \in 1..Depth /\ FrameOK(stack[i])
      BY <1>2, StackElement
    <3> QED BY <3>1, <1>2 DEF FrameOK, Body, Yields, Nullable
  <2>2. (\A i \in 1..(Depth - 1) : Waiting(stack[i]) /\ Asked(stack[i]) = stack[i + 1].fn)'
    <3> SUFFICES ASSUME NEW i \in 1..(Depth' - 1)
                 PROVE  (Waiting(stack[i]) /\ Asked(stack[i]) = stack[i + 1].fn)'
      OBVIOUS
    <3>1. /\ i \in 1..Depth /\ i # Depth /\ i + 1 \in 1..Depth /\ i \in 1..(Depth - 1)
      BY <1>1, <1>2
    <3>2. stack'[i] = stack[i] /\ stack'[i + 1].fn = stack[i + 1].fn
      BY <3>1, <1>2, <1>3
    <3>3. Waiting(stack[i]) /\ Asked(stack[i]) = stack[i + 1].fn
      BY <3>1 DEF SearchInv, ChainOK
    <3> QED BY <3>2, <3>3 DEF Waiting, Asked, Body
  <2>3. stack' # <<>>
    BY <1>1, <1>2, EmptySeq
  <2> QED BY <2>1, <2>2, <2>3 DEF ChainOK
<1> QED BY <1>4, <1>5, <1>6 DEF SearchInv

\* A verdict reached without a walk.
LEMMA CachedStep ==
  ASSUME SearchInv, mode = "lookup", target \notin active, NEW b \in BOOLEAN,
         cache[target] = "unknown", cache' = [cache EXCEPT ![target] = Verdict(b)],
         Answer(b), UNCHANGED <<program, active, stack>>
  PROVE  SearchInv'
<1>1. target \in Functions /\ cache \in [Functions -> Verdicts]
  BY DEF SearchInv, TypeOK
<1>2. cache' \in [Functions -> Verdicts] /\ Nullable \subseteq Nullable' /\ (b => target \in Nullable')
  BY <1>1 DEF Verdict, Nullable
<1>3. TypeOK'
  BY <1>2 DEF SearchInv, TypeOK, Answer
<1>4. ProgramOK'
  BY DEF SearchInv, ProgramOK
<1>5. ChainOK'
  <2>1. (\A i \in 1..Depth : FrameOK(stack[i]))'
    <3> SUFFICES ASSUME NEW i \in 1..Depth PROVE FrameOK(stack[i])'
      OBVIOUS
    <3>1. stack[i].fn \in Functions /\ cache[stack[i].fn] = "unknown" /\ stack[i].fn # target
      BY StackElement DEF SearchInv, TypeOK
    <3>2. cache'[stack[i].fn] = "unknown"
      BY <3>1, <1>1
    <3> QED BY <3>2, <1>2, FramesKept
  <2>2. (\A i \in 1..(Depth - 1) : Waiting(stack[i]) /\ Asked(stack[i]) = stack[i + 1].fn)'
    BY DEF SearchInv, ChainOK, Waiting, Asked, Body
  <2>3. stack # <<>> => Waiting(Top)' /\ Asked(Top)' = target
    BY DEF SearchInv, ChainOK, Waiting, Asked, Body
  <2> QED BY <2>1, <2>2, <2>3, <1>2 DEF ChainOK, Answer, Yields
<1> QED BY <1>3, <1>4, <1>5 DEF SearchInv

\* The walk of a body begins.
LEMMA DescendStep ==
  ASSUME SearchInv, Descend, NEW fr,
         fr = [fn |-> target, at |-> 1, sources |-> {},
               phase |-> IF program[target].hasCFG THEN "calls" ELSE "returns"]
  PROVE  SearchInv'
<1>1. /\ target \in Functions /\ Depth \in Nat /\ fr \in Frames /\ fr.fn = target
      /\ cache[target] = "unknown" /\ target \notin active
  BY LenProperties DEF SearchInv, TypeOK, Frames, Descend, Fresh
<1>2. /\ stack' \in Seq(Frames) /\ Depth' = Depth + 1 /\ stack' # <<>>
      /\ \A i \in 1..Depth : stack'[i] = stack[i]
      /\ stack'[Depth'] = fr
  BY <1>1, PushStack DEF Descend, SearchInv, TypeOK
<1>3. FrameOK(fr)'
  BY <1>1 DEF Descend, Fresh, FrameOK, Body
<1>4. \A i \in 1..Depth' : i \in 1..Depth \/ i = Depth'
  BY <1>1, <1>2
<1>5. TypeOK'
  <2>1. active' = {stack'[i].fn : i \in 1..Depth'}
    <3>1. active' = {stack[i].fn : i \in 1..Depth} \cup {target}
      BY DEF Descend, SearchInv, TypeOK
    <3>2. Depth' \in 1..Depth' /\ \A i \in 1..Depth : i \in 1..Depth'
      BY <1>1, <1>2
    <3> QED BY <3>1, <3>2, <1>1, <1>2, <1>4
  <2>2. \A i, j \in 1..Depth' : stack'[i].fn = stack'[j].fn => i = j
    BY <1>1, <1>2, <1>4 DEF SearchInv, TypeOK
  <2> QED BY <2>1, <2>2, <1>2 DEF SearchInv, TypeOK, Descend
<1>6. ProgramOK'
  BY DEF SearchInv, ProgramOK, Descend
<1>7. ChainOK'
  <2>1. (\A i \in 1..Depth : FrameOK(stack[i]))'
    <3> SUFFICES ASSUME NEW i \in 1..Depth' PROVE FrameOK(stack[i])'
      OBVIOUS
    <3>1. CASE i \in 1..Depth
      <4>1. cache'[stack[i].fn] = "unknown" /\ Nullable \subseteq Nullable' /\ program' = program
        BY <3>1, StackElement DEF Descend, Nullable
      <4> QED BY <3>1, <4>1, <1>2, FramesKept
    <3>2. CASE i = Depth'
      BY <3>2, <1>2, <1>3 DEF FrameOK, Body
    <3> QED BY <3>1, <3>2, <1>4
  <2>2. (\A i \in 1..(Depth - 1) : Waiting(stack[i]) /\ Asked(stack[i]) = stack[i + 1].fn)'
    <3> SUFFICES ASSUME NEW i \in 1..(Depth' - 1)
                 PROVE  (Waiting(stack[i]) /\ Asked(stack[i]) = stack[i + 1].fn)'
      OBVIOUS
    <3>1. i \in 1..Depth /\ stack'[i] = stack[i] /\ stack # <<>>
      BY <1>1, <1>2, EmptySeq
    <3>2. CASE i = Depth
      <4>1. Waiting(stack[i]) /\ Asked(stack[i]) = target /\ stack'[i + 1].fn = target
        BY <3>1, <3>2, <1>1, <1>2 DEF SearchInv, ChainOK, Descend, Fresh
      <4> QED BY <4>1, <3>1 DEF Waiting, Asked, Body, Descend
    <3>3. CASE i # Depth
      <4>1. i \in 1..(Depth - 1) /\ i + 1 \in 1..Depth
        BY <3>1, <3>3, <1>1
      <4>2. Waiting(stack[i]) /\ Asked(stack[i]) = stack[i + 1].fn /\ stack'[i + 1] = stack[i + 1]
        BY <4>1, <1>2 DEF SearchInv, ChainOK
      <4> QED BY <4>2, <3>1 DEF Waiting, Asked, Body, Descend
    <3> QED BY <3>2, <3>3
  <2> QED BY <2>1, <2>2, <1>2 DEF ChainOK, Descend
<1> QED BY <1>5, <1>6, <1>7 DEF SearchInv

\* A call is considered on behalf of the top frame, or of the visitor.
LEMMA ConsiderStep ==
  ASSUME SearchInv, NEW callee \in Callees, Consider(callee),
         UNCHANGED <<program, cache, active, stack>>,
         stack # <<>> => Waiting(Top) /\ Asked(Top) = callee
  PROVE  SearchInv'
<1>1. CASE callee \in Functions
  BY <1>1, QuietStep DEF Consider, SearchInv, TypeOK
<1>2. CASE callee \notin Functions
  BY <1>2, QuietStep DEF Consider, SearchInv, TypeOK, Yields
<1> QED BY <1>1, <1>2

\* The call a waiting frame asks about is a call of its body.
LEMMA AskedIsACallee ==
  ASSUME SearchInv, stack # <<>>, Waiting(Top)
  PROVE  /\ Asked(Top) \in Callees
         /\ Top.phase = "calls" => Top.at \in DOMAIN TopBody.calls
         /\ Top.phase = "returns" => Return.site \in DOMAIN TopBody.calls
<1>1. Top \in Frames /\ Top.fn \in Functions
  BY TopIsAFrame DEF SearchInv, TypeOK, Frames
<1>2. TopBody \in Bodies /\ SitesExist(TopBody)
  BY <1>1 DEF SearchInv, TypeOK, ProgramOK, TopBody
<1>3. /\ Top.phase = "calls" => Top.at \in DOMAIN TopBody.calls
      /\ Top.phase = "returns" => Return.site \in DOMAIN TopBody.calls
  BY <1>2 DEF Waiting, Body, TopBody, Return, SitesExist
<1>4. TopBody.calls \in Seq(Callees)
  BY <1>2 DEF Bodies
<1>5. \A k \in DOMAIN TopBody.calls : TopBody.calls[k] \in Callees
  BY <1>4, ElementOfSeq, LenProperties
<1>6. Asked(Top) \in Callees
  BY <1>1, <1>3, <1>5 DEF Asked, Waiting, Body, TopBody, Return, Frames
<1> QED BY <1>3, <1>6

LEMMA SearchStep ==
  ASSUME SearchInv, [Next]_vars
  PROVE  SearchInv'
<1>1. ASSUME NEW callee \in Callees, Ask(callee) PROVE SearchInv'
  BY <1>1, ConsiderStep DEF Ask, SearchInv, ChainOK
<1>2. CASE CacheHit
  <2>1. target \in Functions /\ (answer' => Yields(target, Nullable))
    BY <1>2 DEF CacheHit, Answer, SearchInv, TypeOK, Yields, Nullable
  <2> QED BY <1>2, <2>1, QuietStep DEF CacheHit, Answer, SearchInv, TypeOK, ChainOK
<1>3. CASE Annotated
  <2>1. target \notin active
    <3> SUFFICES ASSUME NEW i \in 1..Depth, stack[i].fn = target PROVE FALSE
      BY DEF SearchInv, TypeOK
    <3>1. FrameOK(stack[i])
      BY StackElement
    <3> QED BY <1>3, <3>1 DEF Annotated, FrameOK, Body
  <2> QED BY <1>3, <2>1, CachedStep DEF Annotated, Verdict
<1>4. CASE Recursive
  BY <1>4, QuietStep DEF Recursive, Fresh, Answer, SearchInv, TypeOK, ChainOK
<1>5. CASE ErrorPointers
  BY <1>5, CachedStep DEF ErrorPointers, Fresh, Verdict
<1>6. CASE Descend
  BY <1>6, DescendStep
<1>7. CASE VisitCall
  <2>1. stack # <<>> /\ Waiting(Top) /\ Asked(Top) = TopBody.calls[Top.at]
    BY <1>7 DEF VisitCall, Finding, SearchInv, ChainOK, Waiting, Asked, Body, TopBody
  <2> QED BY <1>7, <2>1, AskedIsACallee, ConsiderStep DEF VisitCall
<1>8. CASE CallAnswered
  <2> DEFINE fr == Counting(answer)
  <2>1. stack # <<>> /\ Top \in Frames /\ FrameOK(Top) /\ Waiting(Top) /\ Top.phase = "calls"
    BY <1>8, TopIsAFrame, StackElement DEF CallAnswered, SearchInv, TypeOK, ChainOK
  <2>2. /\ fr \in Frames /\ fr.fn = Top.fn /\ fr.phase = "calls"
        /\ fr.sources = IF answer THEN Top.sources \cup {Top.at} ELSE Top.sources
    BY <2>1 DEF Frames, Counting
  <2>3. /\ Top.at \in DOMAIN Body(Top).calls
        /\ answer => Yields(Body(Top).calls[Top.at], Nullable)
    BY <1>8, <2>1 DEF CallAnswered, SearchInv, ChainOK, Waiting, Asked
  <2> HIDE DEF fr
  <2>4. FrameOK(fr)
    BY <2>1, <2>2, <2>3 DEF FrameOK, Body
  <2>5. stack' = SetTop(fr)
    BY <1>8 DEF CallAnswered, fr
  <2>6. mode' = "body" /\ UNCHANGED <<program, cache, active, target, answer>>
    BY <1>8 DEF CallAnswered
  <2> QED BY <2>1, <2>2, <2>4, <2>5, <2>6, AdvanceStep
<1>9. CASE CallsVisited
  <2>1. stack # <<>> /\ Top \in Frames /\ FrameOK(Top)
    BY <1>9, TopIsAFrame, StackElement DEF CallsVisited, Finding, SearchInv, TypeOK, ChainOK
  <2> DEFINE fr == [fn |-> Top.fn, phase |-> "returns", at |-> 1, sources |-> Top.sources]
  <2>2. fr \in Frames /\ fr.fn = Top.fn /\ fr.phase = "returns" /\ fr.sources = Top.sources
    BY <2>1 DEF Frames
  <2> HIDE DEF fr
  <2>3. FrameOK(fr)
    BY <2>1, <2>2 DEF FrameOK, Body
  <2>4. stack' = SetTop(fr)
    BY <1>9 DEF CallsVisited, fr
  <2>5. mode' = "body" /\ UNCHANGED <<program, cache, active, target, answer>>
    BY <1>9 DEF CallsVisited
  <2> QED BY <2>1, <2>2, <2>3, <2>4, <2>5, AdvanceStep
<1>10. ASSUME NextReturn, stack # <<>> PROVE SearchInv'
  <2>1. Top \in Frames /\ FrameOK(Top)
    BY <1>10, TopIsAFrame, StackElement DEF SearchInv, TypeOK
  <2> DEFINE fr == [Top EXCEPT !.at = @ + 1]
  <2>2. fr \in Frames /\ fr.fn = Top.fn /\ fr.phase = Top.phase /\ fr.sources = Top.sources
    BY <2>1 DEF Frames
  <2> HIDE DEF fr
  <2>3. FrameOK(fr)
    BY <2>1, <2>2 DEF FrameOK, Body
  <2>4. stack' = SetTop(fr)
    BY <1>10 DEF NextReturn, fr
  <2> QED BY <1>10, <2>1, <2>2, <2>3, <2>4, AdvanceStep DEF NextReturn
<1>11. CASE AskReturn
  <2>1. stack # <<>> /\ Waiting(Top) /\ Asked(Top) = TopBody.calls[Return.site]
    BY <1>11 DEF AskReturn, Scanning, SearchInv, ChainOK, Waiting, Asked, Body, TopBody, Return
  <2> QED BY <1>11, <2>1, AskedIsACallee, ConsiderStep DEF AskReturn
<1>12. CASE NullableReturn
  BY <1>12, ConcludeStep DEF NullableReturn, Scanning, SearchInv, ChainOK
<1>13. CASE SkipReturn
  BY <1>13, <1>10 DEF SkipReturn, Scanning, SearchInv, ChainOK
<1>14. CASE ReturnAnswered
  BY <1>14, <1>10, ConcludeStep DEF ReturnAnswered
<1>15. CASE NoEvidence
  BY <1>15, ConcludeStep DEF NoEvidence, Scanning, SearchInv, ChainOK
<1>16. CASE Answered
  BY <1>16, QuietStep DEF Answered, SearchInv, TypeOK
<1>17. CASE UNCHANGED vars
  BY <1>17, QuietStep DEF vars, SearchInv, TypeOK, ChainOK
<1> QED BY <1>1, <1>2, <1>3, <1>4, <1>5, <1>6, <1>7, <1>8, <1>9, <1>11, <1>12, <1>13,
           <1>14, <1>15, <1>16, <1>17 DEF Next, Search, Lookup, Walk, Scan

\* The search keeps its stack, its set of active functions and its cache in
\* step: what is being walked is active, waits for the frame above it, and has
\* no verdict yet.
THEOREM SearchIsTyped == Spec => []TypeOK
<1>1. Init => SearchInv
  BY SearchStarts
<1>2. SearchInv /\ [Next]_vars => SearchInv'
  BY SearchStep
<1>3. SearchInv => TypeOK
  BY DEF SearchInv
<1> QED BY <1>1, <1>2, <1>3, PTL DEF Spec

-----------------------------------------------------------------------------
\* What a step writes to the cache.

LEMMA EvidenceAtTop ==
  ASSUME SearchInv, stack # <<>>, Top.at \in DOMAIN TopBody.returns,
         Top.phase = "returns", Evidence(TopBody, Return, Nullable)
  PROVE  Supported(Top.fn, Nullable)
<1>1. FrameOK(Top)
  BY TopIsAFrame, StackElement DEF SearchInv, TypeOK
<1> QED BY <1>1 DEF FrameOK, Body, TopBody, Return, Supported

LEMMA SourceIsEvidence ==
  ASSUME SearchInv, stack # <<>>, FromSource
  PROVE  Evidence(TopBody, Return, Nullable)
<1>1. FrameOK(Top)
  BY TopIsAFrame, StackElement DEF SearchInv, TypeOK
<1> QED BY <1>1 DEF FrameOK, Body, TopBody, Return, FromSource, Evidence

\* One entry that was unknown, and "yes" only on evidence.
CacheWrite ==
  \E f \in Functions : \E b \in BOOLEAN :
    /\ cache[f] = "unknown"
    /\ cache' = [cache EXCEPT ![f] = Verdict(b)]
    /\ b => Supported(f, Nullable)

LEMMA CacheStep ==
  ASSUME SearchInv, [Next]_vars
  PROVE  program' = program /\ (cache' = cache \/ CacheWrite)
<1> USE DEF CacheWrite
<1>1. ASSUME NEW b \in BOOLEAN, stack # <<>>, Conclude(b), b => Supported(Top.fn, Nullable)
      PROVE  program' = program /\ CacheWrite
  <2>1. Top.fn \in Functions /\ cache[Top.fn] = "unknown"
    BY <1>1, TopIsAFrame, StackElement DEF SearchInv, TypeOK
  <2> QED BY <2>1, <1>1 DEF Conclude
<1>2. mode = "body" => stack # <<>>
  BY DEF SearchInv, ChainOK
<1>3. CASE Annotated
  BY <1>3 DEF Annotated, SearchInv, TypeOK, Supported, Verdict
<1>4. CASE ErrorPointers
  BY <1>4 DEF ErrorPointers, Fresh, SearchInv, TypeOK, Verdict
<1>5. CASE NullableReturn
  <2>1. Evidence(TopBody, Return, Nullable)
    BY <1>5, <1>2, SourceIsEvidence DEF NullableReturn, Scanning, NullOnSight, Evidence
  <2> QED BY <1>5, <1>2, <2>1, <1>1, EvidenceAtTop DEF NullableReturn, Scanning
<1>6. CASE ReturnAnswered
  <2>1. /\ stack # <<>> /\ Top.phase = "returns" /\ Waiting(Top)
        /\ answer => Yields(Asked(Top), Nullable)
    BY <1>6 DEF ReturnAnswered, SearchInv, ChainOK
  <2>2. /\ Top.at \in DOMAIN TopBody.returns /\ Return.how = "direct"
        /\ Asked(Top) = TopBody.calls[Return.site]
    BY <2>1 DEF Waiting, Asked, Body, TopBody, Return
  <2>3. answer \/ FromSource => Supported(Top.fn, Nullable)
    BY <2>1, <2>2, SourceIsEvidence, EvidenceAtTop DEF Evidence
  <2>4. CASE (answer \/ FromSource) /\ Conclude(TRUE)
    BY <2>4, <2>1, <2>3, <1>1
  <2>5. CASE NextReturn
    BY <2>5 DEF NextReturn
  <2> QED BY <1>6, <2>4, <2>5 DEF ReturnAnswered
<1>7. CASE NoEvidence
  BY <1>7, <1>1, <1>2 DEF NoEvidence, Scanning
<1>8. CASE \E callee \in Callees : Ask(callee)
  BY <1>8 DEF Ask
<1>9. CASE CacheHit \/ Recursive \/ Descend \/ Walk \/ AskReturn \/ SkipReturn \/ Answered
  BY <1>9 DEF CacheHit, Recursive, Descend, Walk, VisitCall, CallAnswered, CallsVisited,
              AskReturn, SkipReturn, NextReturn, Answered
<1>10. CASE UNCHANGED vars
  BY <1>10 DEF vars
<1> QED BY <1>3, <1>4, <1>5, <1>6, <1>7, <1>8, <1>9, <1>10 DEF Next, Search, Lookup, Scan

LEMMA CacheIsFinal ==
  ASSUME SearchInv, [Next]_vars, NEW f \in Functions, cache[f] # "unknown"
  PROVE  cache'[f] = cache[f]
<1>1. cache \in [Functions -> Verdicts]
  BY DEF SearchInv, TypeOK
<1> QED BY <1>1, CacheStep DEF CacheWrite

\* A verdict given once is the verdict for ever, at each of the places where
\* is_nullable_function_impl writes nullable_cache_.
THEOREM CachedVerdictsAreFinal == Spec => VerdictsAreFinal
<1>1. Init => SearchInv
  BY SearchStarts
<1>2. SearchInv /\ [Next]_vars => SearchInv'
  BY SearchStep
<1>3. SearchInv /\ [Next]_vars =>
        [\A f \in Functions : cache[f] # "unknown" => cache'[f] = cache[f]]_vars
  BY CacheIsFinal
<1> QED BY <1>1, <1>2, <1>3, PTL DEF Spec, VerdictsAreFinal

-----------------------------------------------------------------------------
\* Verdicts are grounded.

LEMMA SupportIsMonotonic ==
  ASSUME NEW S, NEW T, S \subseteq T, NEW f \in Functions, Supported(f, S)
  PROVE  Supported(f, T)
BY DEF Supported, Evidence, Yields

LEMMA GroundedStep ==
  ASSUME SearchInv, VerdictsAreGrounded, [Next]_vars
  PROVE  VerdictsAreGrounded'
<1>1. program' = program /\ (cache' = cache \/ CacheWrite) /\ cache \in [Functions -> Verdicts]
  BY CacheStep DEF SearchInv, TypeOK
<1> SUFFICES ASSUME NEW S \in SUBSET Functions, \A f \in Functions : Supported(f, S)' => f \in S
             PROVE  Nullable' \subseteq S
  BY DEF VerdictsAreGrounded
<1>2. \A f \in Functions : Supported(f, S) => f \in S
  BY <1>1 DEF Supported
<1>3. Nullable \subseteq S
  BY <1>2 DEF VerdictsAreGrounded
<1>4. CASE cache' = cache
  BY <1>3, <1>4 DEF Nullable
<1>5. CASE CacheWrite
  <2>1. PICK f \in Functions : \E b \in BOOLEAN :
          /\ cache' = [cache EXCEPT ![f] = Verdict(b)]
          /\ b => Supported(f, Nullable)
    BY <1>5 DEF CacheWrite
  <2>2. PICK b \in BOOLEAN :
          cache' = [cache EXCEPT ![f] = Verdict(b)] /\ (b => Supported(f, Nullable))
    BY <2>1
  <2>3. b => f \in S
    BY <1>2, <1>3, <2>2, SupportIsMonotonic
  <2>4. Nullable' \subseteq Nullable \cup (IF b THEN {f} ELSE {})
    BY <1>1, <2>2 DEF Nullable, Verdict
  <2> QED BY <1>3, <2>3, <2>4
<1> QED BY <1>1, <1>4, <1>5

\* No function is called nullable for want of anything better: neither through
\* recursion nor through the shared cache does a verdict come to rest on itself.
THEOREM NullableIsGrounded == Spec => []VerdictsAreGrounded
<1>1. Init => SearchInv /\ VerdictsAreGrounded
  BY SearchStarts DEF Init, VerdictsAreGrounded, Nullable
<1>2. SearchInv /\ VerdictsAreGrounded /\ [Next]_vars => (SearchInv /\ VerdictsAreGrounded)'
  BY SearchStep, GroundedStep
<1> QED BY <1>1, <1>2, PTL DEF Spec

-----------------------------------------------------------------------------
\* Acyclic programs: no evidence is overlooked.

LEMMA ProgramIsConstant ==
  ASSUME SearchInv, [Next]_vars
  PROVE  /\ program' = program
         /\ \A rank : Ranks(rank)' <=> Ranks(rank)
         /\ Acyclic' <=> Acyclic
BY CacheStep DEF Ranks, Acyclic, Calls

\* The function looked up for a frame is called by that frame's function.
LEMMA LookupIsACall ==
  ASSUME SearchInv, mode = "lookup", stack # <<>>
  PROVE  Top.fn \in Functions /\ target \in Calls(Top.fn)
<1>1. Waiting(Top) /\ Asked(Top) = target /\ target \in Functions /\ Top \in Frames
  BY TopIsAFrame DEF SearchInv, ChainOK, TypeOK
<1>2. /\ Top.fn \in Functions
      /\ Top.phase = "calls" => Top.at \in DOMAIN TopBody.calls
      /\ Top.phase = "returns" => Return.site \in DOMAIN TopBody.calls
  BY <1>1, AskedIsACallee DEF Frames
<1> QED BY <1>1, <1>2 DEF Calls, Asked, Body, TopBody, Return, Frames

\* So its rank is below the rank of everything active.
LEMMA LookupDescends ==
  ASSUME SearchInv, Descending, mode = "lookup",
         NEW rank \in [Functions -> 1..Cardinality(Functions)], Ranks(rank),
         NEW i \in 1..Depth
  PROVE  rank[target] < rank[stack[i].fn]
<1>1. Depth \in Nat /\ stack # <<>>
  BY LenProperties, EmptySeq DEF SearchInv, TypeOK
<1>2. rank[target] < rank[Top.fn]
  BY <1>1, LookupIsACall DEF Ranks
<1>3. i = Depth \/ rank[Top.fn] < rank[stack[i].fn]
  BY <1>1 DEF Descending
<1>4. /\ rank[target] \in Int /\ rank[Top.fn] \in Int /\ rank[stack[i].fn] \in Int
  <2>1. Cardinality(Functions) \in Nat
    BY InferenceAssumption, FS_CardinalityType
  <2> QED BY <2>1, <1>1, StackElement, LookupIsACall DEF SearchInv, TypeOK
<1> QED BY <1>2, <1>3, <1>4

LEMMA NoCircle ==
  ASSUME SearchInv, Descending, Acyclic, mode = "lookup"
  PROVE  target \notin active
<1>1. PICK rank \in [Functions -> 1..Cardinality(Functions)] : Ranks(rank)
  BY DEF Acyclic
<1> SUFFICES ASSUME NEW i \in 1..Depth, stack[i].fn = target PROVE FALSE
  BY DEF SearchInv, TypeOK
<1>2. rank[target] < rank[target] /\ rank[target] \in 1..Cardinality(Functions)
  BY <1>1, LookupDescends DEF SearchInv, TypeOK
<1>3. Cardinality(Functions) \in Nat
  BY InferenceAssumption, FS_CardinalityType
<1> QED BY <1>2, <1>3

\* The functions being walked stay where they are, but for the top one.
StackGrows ==
  /\ mode = "lookup" /\ Depth' = Depth + 1 /\ stack'[Depth'].fn = target
  /\ \A i \in 1..Depth : stack'[i].fn = stack[i].fn

StackStays == Depth' <= Depth /\ \A i \in 1..Depth' : stack'[i].fn = stack[i].fn

LEMMA StackStep ==
  ASSUME SearchInv, [Next]_vars
  PROVE  Depth \in Nat /\ Depth' \in Nat /\ (StackGrows \/ StackStays)
<1>1. Depth \in Nat /\ stack \in Seq(Frames)
  BY LenProperties DEF SearchInv, TypeOK
<1>2. mode = "body" => stack # <<>>
  BY DEF SearchInv, ChainOK
<1>3. ASSUME stack' = stack PROVE StackStays /\ Depth' \in Nat
  BY <1>1, <1>3 DEF StackStays
<1>4. ASSUME stack # <<>>, stack' = Pop PROVE StackStays /\ Depth' \in Nat
  <2>1. Depth \in 1..Depth
    BY <1>1, <1>4, NonEmptyLen
  <2> QED BY <2>1, <1>1, <1>4, PopStack DEF StackStays
<1>5. ASSUME stack # <<>>, NEW fr \in Frames, fr.fn = Top.fn, stack' = SetTop(fr)
      PROVE  StackStays /\ Depth' \in Nat
  BY <1>1, <1>5, ReplaceTop DEF StackStays
<1>6. stack # <<>> => Top \in Frames
  BY <1>1, TopIsAFrame
<1>7. CASE Descend
  <2>1. [fn |-> target, at |-> 1, sources |-> {},
         phase |-> IF program[target].hasCFG THEN "calls" ELSE "returns"] \in Frames
    BY DEF SearchInv, TypeOK, Frames
  <2> QED BY <1>1, <1>7, <2>1, PushStack DEF Descend, Fresh, StackGrows
<1>8. CASE CallAnswered
  <2>1. Counting(answer) \in Frames /\ Counting(answer).fn = Top.fn /\ stack # <<>>
    BY <1>6, <1>8 DEF CallAnswered, Counting, Frames
  <2> QED BY <2>1, <1>5, <1>8 DEF CallAnswered
<1>9. CASE CallsVisited
  <2> DEFINE fr == [fn |-> Top.fn, phase |-> "returns", at |-> 1, sources |-> Top.sources]
  <2>1. fr \in Frames /\ fr.fn = Top.fn /\ stack # <<>>
    BY <1>2, <1>6, <1>9 DEF CallsVisited, Finding, Frames
  <2> QED BY <2>1, <1>5, <1>9 DEF CallsVisited
<1>10. ASSUME NextReturn, stack # <<>> PROVE StackStays /\ Depth' \in Nat
  <2> DEFINE fr == [Top EXCEPT !.at = @ + 1]
  <2>1. fr \in Frames /\ fr.fn = Top.fn
    BY <1>6, <1>10 DEF Frames
  <2> QED BY <2>1, <1>5, <1>10 DEF NextReturn
<1>11. CASE SkipReturn \/ ReturnAnswered \/ NullableReturn \/ NoEvidence
  <2>1. stack # <<>> /\ (stack' = Pop \/ NextReturn)
    BY <1>2, <1>11
    DEF SkipReturn, ReturnAnswered, NullableReturn, NoEvidence, Scanning, Conclude
  <2> QED BY <1>1, <1>4, <1>10, <2>1
<1>12. CASE CacheHit \/ Annotated \/ Recursive \/ ErrorPointers \/ VisitCall \/ AskReturn \/ Answered
  BY <1>3, <1>12 DEF CacheHit, Annotated, Recursive, ErrorPointers, VisitCall, AskReturn, Answered
<1>13. CASE UNCHANGED vars \/ \E callee \in Callees : Ask(callee)
  BY <1>3, <1>13 DEF vars, Ask
<1> QED BY <1>1, <1>7, <1>8, <1>9, <1>11, <1>12, <1>13 DEF Next, Search, Lookup, Walk, Scan

LEMMA DescendingStep ==
  ASSUME SearchInv, Descending, [Next]_vars
  PROVE  Descending'
<1> SUFFICES ASSUME NEW rank \in [Functions -> 1..Cardinality(Functions)], Ranks(rank),
                    NEW i \in 1..Depth', NEW j \in 1..Depth', i < j
             PROVE  rank[stack'[j].fn] < rank[stack'[i].fn]
  BY ProgramIsConstant DEF Descending
<1>1. Depth \in Nat /\ Depth' \in Nat /\ (StackGrows \/ StackStays)
  BY StackStep
<1>2. CASE StackStays
  BY <1>1, <1>2 DEF StackStays, Descending
<1>3. CASE StackGrows
  <2>1. i \in 1..Depth /\ (j \in 1..Depth \/ j = Depth')
    BY <1>1, <1>3 DEF StackGrows
  <2>2. CASE j \in 1..Depth
    BY <2>1, <2>2, <1>3 DEF StackGrows, Descending
  <2>3. CASE j = Depth'
    BY <2>1, <2>3, <1>3, LookupDescends DEF StackGrows
  <2> QED BY <2>1, <2>2, <2>3
<1> QED BY <1>1, <1>2, <1>3

\* What is refuted stays so.

LEMMA NoKept ==
  ASSUME SearchInv, [Next]_vars
  PROVE  /\ program' = program
         /\ \A f \in Functions : cache[f] = "no" => cache'[f] = "no"
BY CacheIsFinal, CacheStep

LEMMA SettledFrameKept ==
  ASSUME SearchInv, [Next]_vars, NEW fr, Settled(fr)
  PROVE  Settled(fr)'
<1>1. \A c : Refuted(c) => (c = Opaque \/ (c \in Functions /\ cache'[c] = "no"))
  BY NoKept DEF Refuted
<1>2. \A body, r : RefutedReturn(body, r) =>
        /\ r.how # "null"
        /\ r.how = "param" => ~body.hasCFG
        /\ r.how = "direct" => Refuted(body.calls[r.site])'
        /\ r.how = "held" /\ body.hasCFG => Refuted(body.calls[r.site])'
  BY <1>1 DEF RefutedReturn, Refuted
<1>3. \A body, r : RefutedReturn(body, r) => RefutedReturn(body, r)'
  BY <1>2 DEF RefutedReturn
<1>4. Body(fr)' = Body(fr)
  BY NoKept DEF Body
<1> QED BY <1>1, <1>3, <1>4 DEF Settled, Refuted

LEMMA SettledKept ==
  ASSUME SearchInv, [Next]_vars, NEW i, NEW i2, stack'[i2] = stack[i], Settled(stack[i])
  PROVE  Settled(stack[i2])'
<1>1. PICK fr : fr = stack[i]
  OBVIOUS
<1>2. Settled(fr)'
  BY <1>1, SettledFrameKept
<1> QED BY <1>1, <1>2 DEF Settled, Body

LEMMA RefutedBodyKept ==
  ASSUME SearchInv, [Next]_vars, NEW f \in Functions, RefutedBody(program[f])
  PROVE  RefutedBody(program[f])'
BY NoKept DEF RefutedBody, Refuted, RefutedReturn

\* Entries cached as "no" before the step; a new one must be refuted.
LEMMA CachedNoKept ==
  ASSUME SearchInv, SettledInv, [Next]_vars,
         \A f \in Functions : cache'[f] = "no" /\ cache[f] # "no" => RefutedBody(program[f])
  PROVE  (\A f \in Functions : cache[f] = "no" => RefutedBody(program[f]))'
BY RefutedBodyKept DEF SettledInv

LEMMA SettledQuietStep ==
  ASSUME SearchInv, SettledInv, [Next]_vars, UNCHANGED <<stack, cache>>,
         mode' = "reply" /\ stack # <<>> /\ ~answer' => Refuted(Asked(Top))
  PROVE  SettledInv'
<1>1. (\A i \in 1..Depth : Settled(stack[i]))'
  BY SettledKept DEF SettledInv
<1>2. (\A f \in Functions : cache[f] = "no" => RefutedBody(program[f]))'
  BY CachedNoKept
<1>3. program' = program
  BY NoKept
<1>4. (mode = "reply" /\ stack # <<>> /\ ~answer => Refuted(Asked(Top)))'
  BY <1>3 DEF Refuted, Asked, Body
<1> QED BY <1>1, <1>2, <1>4 DEF SettledInv

LEMMA SettledConsiderStep ==
  ASSUME SearchInv, SettledInv, [Next]_vars, NEW callee \in Callees, Consider(callee),
         UNCHANGED <<stack, cache>>, stack # <<>> => Asked(Top) = callee
  PROVE  SettledInv'
BY SettledQuietStep DEF Consider, Refuted

\* The top frame has considered one more item.
LEMMA SettledAdvanceStep ==
  ASSUME SearchInv, SettledInv, [Next]_vars, stack # <<>>, NEW fr \in Frames,
         stack' = SetTop(fr), mode' = "body", cache' = cache, Settled(fr)
  PROVE  SettledInv'
<1>1. /\ stack' \in Seq(Frames) /\ Depth' = Depth
      /\ \A i \in 1..Depth : stack'[i] = IF i = Depth THEN fr ELSE stack[i]
  BY ReplaceTop DEF SearchInv, TypeOK
<1>2. (\A i \in 1..Depth : Settled(stack[i]))'
  <2> SUFFICES ASSUME NEW i \in 1..Depth PROVE Settled(stack[i])'
    BY <1>1
  <2>1. CASE i = Depth
    <3>1. Settled(fr)'
      BY SettledFrameKept
    <3> QED BY <3>1, <1>1, <2>1 DEF Settled, Body
  <2>2. CASE i # Depth
    BY <1>1, <2>2, SettledKept DEF SettledInv
  <2> QED BY <2>1, <2>2
<1>3. (\A f \in Functions : cache[f] = "no" => RefutedBody(program[f]))'
  BY CachedNoKept
<1> QED BY <1>2, <1>3 DEF SettledInv

\* The top frame is gone, with a verdict that its body bears out.
LEMMA SettledConcludeStep ==
  ASSUME SearchInv, SettledInv, [Next]_vars, stack # <<>>, NEW b \in BOOLEAN, Conclude(b),
         ~b => RefutedBody(TopBody)
  PROVE  SettledInv'
<1>1. /\ Depth \in 1..Depth /\ Depth \in Nat /\ Top.fn \in Functions
      /\ cache \in [Functions -> Verdicts]
  BY TopIsAFrame, LenProperties DEF SearchInv, TypeOK, Frames
<1>2. /\ stack' \in Seq(Frames) /\ Depth' = Depth - 1
      /\ \A i \in 1..Depth' : stack'[i] = stack[i]
  BY PopStack DEF Conclude, SearchInv, TypeOK
<1>3. cache' = [cache EXCEPT ![Top.fn] = Verdict(b)] /\ answer' = b /\ program' = program
  BY DEF Conclude, Answer
<1>4. (\A i \in 1..Depth : Settled(stack[i]))'
  <2> SUFFICES ASSUME NEW i \in 1..Depth' PROVE Settled(stack[i])'
    OBVIOUS
  <2>1. i \in 1..Depth
    BY <1>1, <1>2
  <2> QED BY <2>1, <1>2, SettledKept DEF SettledInv
<1>5. (\A f \in Functions : cache[f] = "no" => RefutedBody(program[f]))'
  <2>1. ASSUME NEW f \in Functions, cache'[f] = "no", cache[f] # "no"
        PROVE  RefutedBody(program[f])
    <3>1. f = Top.fn /\ ~b
      BY <1>1, <1>3, <2>1 DEF Verdict
    <3> QED BY <3>1 DEF TopBody
  <2> QED BY <2>1, CachedNoKept
<1>6. ASSUME stack' # <<>>, ~b PROVE Refuted(Asked(Top))'
  <2>1. Depth' \in 1..Depth' /\ Depth' \in 1..(Depth - 1) /\ Depth' + 1 = Depth
    BY <1>1, <1>2, <1>6, NonEmptyLen
  <2>2. Asked(stack[Depth']) = Top.fn /\ cache'[Top.fn] = "no"
    BY <2>1, <1>1, <1>3, <1>6 DEF SearchInv, ChainOK, Verdict
  <2>3. Asked(Top)' = Top.fn
    BY <2>1, <2>2, <1>2, <1>3 DEF Asked, Body
  <2> QED BY <2>2, <2>3, <1>1 DEF Refuted
<1> QED BY <1>3, <1>4, <1>5, <1>6 DEF SettledInv

LEMMA SettledStep ==
  ASSUME SearchInv, Descending, Acyclic, SettledInv, [Next]_vars
  PROVE  SettledInv'
<1>1. /\ mode = "body" => stack # <<>>
      /\ mode = "reply" /\ stack # <<>> /\ ~answer => Refuted(Asked(Top))
      /\ cache \in [Functions -> Verdicts] /\ answer \in BOOLEAN /\ target \in Functions
  BY DEF SearchInv, ChainOK, TypeOK, SettledInv
<1>2. stack # <<>> => /\ Top \in Frames /\ Settled(Top) /\ Body(Top) = TopBody
                      /\ FrameOK(Top) /\ TopBody \in Bodies /\ SitesExist(TopBody)
  BY TopIsAFrame, StackElement
  DEF SearchInv, TypeOK, ProgramOK, SettledInv, Body, TopBody, Frames
<1>3. ASSUME NEW callee \in Callees, Ask(callee) PROVE SettledInv'
  BY <1>3, SettledConsiderStep DEF Ask, SearchInv, ChainOK
<1>4. CASE CacheHit
  <2>1. mode' = "reply" /\ stack # <<>> /\ ~answer' => Refuted(Asked(Top))
    BY <1>1, <1>4 DEF CacheHit, Answer, Refuted, SearchInv, ChainOK
  <2> QED BY <1>4, <2>1, SettledQuietStep DEF CacheHit
<1>5. ASSUME NEW b \in BOOLEAN, mode = "lookup", Answer(b), UNCHANGED <<program, stack>>,
             cache' = [cache EXCEPT ![target] = Verdict(b)],
             ~b => RefutedBody(program[target])
      PROVE  SettledInv'
  <2>1. (\A i \in 1..Depth : Settled(stack[i]))'
    BY <1>5, SettledKept DEF SettledInv
  <2>2. (\A f \in Functions : cache[f] = "no" => RefutedBody(program[f]))'
    BY <1>1, <1>5, CachedNoKept DEF Verdict
  <2>3. (mode = "reply" /\ stack # <<>> /\ ~answer => Refuted(Asked(Top)))'
    <3> SUFFICES ASSUME stack # <<>>, ~b PROVE Refuted(Asked(Top))'
      BY <1>5 DEF Answer
    <3>1. Asked(Top) = target /\ cache'[target] = "no"
      BY <1>1, <1>5 DEF SearchInv, ChainOK, Verdict
    <3>2. Asked(Top)' = target
      BY <3>1, <1>5 DEF Asked, Body
    <3> QED BY <3>1, <3>2, <1>1 DEF Refuted
  <2> QED BY <2>1, <2>2, <2>3 DEF SettledInv
<1>6. CASE Annotated
  BY <1>5, <1>6 DEF Annotated, Verdict
<1>7. CASE Recursive
  BY <1>7, NoCircle DEF Recursive, Fresh
<1>8. CASE ErrorPointers
  BY <1>5, <1>8 DEF ErrorPointers, Fresh, Verdict, RefutedBody
<1>9. CASE Descend
  <2> SUFFICES ASSUME NEW fr, fr = [fn |-> target, at |-> 1, sources |-> {},
                        phase |-> IF program[target].hasCFG THEN "calls" ELSE "returns"]
               PROVE  SettledInv'
    OBVIOUS
  <2>1. fr \in Frames /\ Depth \in Nat
    BY <1>1, LenProperties DEF Frames, SearchInv, TypeOK
  <2>2. /\ Depth' = Depth + 1 /\ stack'[Depth'] = fr
        /\ \A i \in 1..Depth : stack'[i] = stack[i]
    BY <1>9, <2>1, PushStack DEF Descend, SearchInv, TypeOK
  <2>3. Settled(fr)
    <3>1. program[target] \in Bodies
      BY <1>1 DEF SearchInv, TypeOK
    <3>2. /\ program[target].calls \in Seq(Callees) /\ program[target].returns \in Seq(Returns)
      BY <3>1 DEF Bodies
    <3>3. /\ \A k \in DOMAIN program[target].calls : ~(k < 1)
          /\ \A k \in DOMAIN program[target].returns : ~(k < 1)
      BY <3>2, LenProperties
    <3> QED BY <3>3 DEF Settled, Body
  <2>4. Settled(fr)'
    BY <2>3, SettledFrameKept
  <2>5. (\A i \in 1..Depth : Settled(stack[i]))'
    <3> SUFFICES ASSUME NEW i \in 1..Depth' PROVE Settled(stack[i])'
      OBVIOUS
    <3>1. CASE i \in 1..Depth
      BY <2>2, <3>1, SettledKept DEF SettledInv
    <3>2. CASE i = Depth'
      BY <2>2, <2>4, <3>2 DEF Settled, Body
    <3> QED BY <2>1, <2>2, <3>1, <3>2
  <2>6. (\A f \in Functions : cache[f] = "no" => RefutedBody(program[f]))' /\ mode' = "body"
    BY <1>9, CachedNoKept DEF Descend
  <2> QED BY <2>5, <2>6 DEF SettledInv
<1>10. CASE VisitCall
  <2>1. stack # <<>> /\ Waiting(Top) /\ Asked(Top) = TopBody.calls[Top.at]
    BY <1>1, <1>10 DEF VisitCall, Finding, Waiting, Asked, Body, TopBody
  <2> QED BY <1>10, <2>1, AskedIsACallee, SettledConsiderStep DEF VisitCall
<1>11. CASE CallAnswered
  <2> DEFINE fr == Counting(answer)
  <2>1. /\ stack # <<>> /\ Top.phase = "calls" /\ stack' = SetTop(fr) /\ mode' = "body"
        /\ cache' = cache /\ Asked(Top) = TopBody.calls[Top.at]
        /\ ~answer => Refuted(TopBody.calls[Top.at])
    BY <1>1, <1>11 DEF CallAnswered, Asked, Body, TopBody
  <2>2. /\ fr \in Frames /\ fr.fn = Top.fn /\ fr.phase = "calls" /\ fr.at = Top.at + 1
        /\ fr.sources = IF answer THEN Top.sources \cup {Top.at} ELSE Top.sources
        /\ Top.at \in Nat
    BY <1>1, <1>2, <2>1 DEF Frames, Counting
  <2>3. \A k \in DOMAIN TopBody.calls : k \in Nat
    BY <1>2, <2>1, LenProperties DEF Bodies
  <2> HIDE DEF fr
  <2>4. \A k \in DOMAIN TopBody.calls : k < fr.at => k < Top.at \/ k = Top.at
    BY <2>2, <2>3
  <2>5. Settled(fr)
    BY <1>2, <2>1, <2>2, <2>4 DEF Settled, Body, TopBody
  <2> QED BY <2>1, <2>2, <2>5, SettledAdvanceStep
<1>12. CASE CallsVisited
  <2> DEFINE fr == [fn |-> Top.fn, phase |-> "returns", at |-> 1, sources |-> Top.sources]
  <2>1. /\ stack # <<>> /\ Top.phase = "calls" /\ stack' = SetTop(fr) /\ mode' = "body"
        /\ cache' = cache /\ Top.at \notin DOMAIN TopBody.calls
    BY <1>1, <1>12 DEF CallsVisited, Finding
  <2>2. fr \in Frames /\ fr.fn = Top.fn /\ fr.phase = "returns" /\ fr.at = 1
        /\ fr.sources = Top.sources /\ Top.at \in Nat \ {0}
    BY <1>2, <2>1 DEF Frames
  <2>3. /\ \A k \in DOMAIN TopBody.calls : k < Top.at
        /\ \A k \in DOMAIN TopBody.returns : ~(k < 1)
    BY <1>2, <2>1, <2>2, LenProperties DEF Bodies
  <2> HIDE DEF fr
  <2>4. Settled(fr)
    BY <1>2, <2>1, <2>2, <2>3 DEF Settled, Body, TopBody
  <2> QED BY <2>1, <2>2, <2>4, SettledAdvanceStep
<1>13. ASSUME stack # <<>>, Top.phase = "returns", Top.at \in DOMAIN TopBody.returns,
              NextReturn, RefutedReturn(TopBody, Return)
       PROVE  SettledInv'
  <2> DEFINE fr == [Top EXCEPT !.at = @ + 1]
  <2>1. /\ fr \in Frames /\ fr.fn = Top.fn /\ fr.phase = "returns" /\ fr.at = Top.at + 1
        /\ fr.sources = Top.sources /\ Top.at \in Nat
    BY <1>2, <1>13 DEF Frames
  <2>2. stack' = SetTop(fr) /\ mode' = "body" /\ cache' = cache
    BY <1>13 DEF NextReturn
  <2>3. \A k \in DOMAIN TopBody.returns : k \in Nat
    BY <1>2, <1>13, LenProperties DEF Bodies
  <2> HIDE DEF fr
  <2>4. \A k \in DOMAIN TopBody.returns : k < fr.at => k < Top.at \/ k = Top.at
    BY <2>1, <2>3
  <2>5. Settled(fr)
    BY <1>2, <1>13, <2>1, <2>4 DEF Settled, Body, TopBody, Return
  <2> QED BY <1>13, <2>1, <2>2, <2>5, SettledAdvanceStep
<1>14. CASE AskReturn
  <2>1. stack # <<>> /\ Waiting(Top) /\ Asked(Top) = TopBody.calls[Return.site]
    BY <1>1, <1>14 DEF AskReturn, Scanning, Waiting, Asked, Body, TopBody, Return
  <2> QED BY <1>14, <2>1, AskedIsACallee, SettledConsiderStep
          DEF AskReturn, Waiting, Asked, Body, TopBody, Return, Scanning
<1>15. CASE NullableReturn
  BY <1>1, <1>15, SettledConcludeStep DEF NullableReturn, Scanning
<1>16. CASE SkipReturn
  <2>1. /\ stack # <<>> /\ Top.phase = "returns" /\ Top.at \in DOMAIN TopBody.returns
        /\ Return.how # "direct" /\ ~NullOnSight /\ ~FromSource /\ NextReturn
    BY <1>1, <1>16 DEF SkipReturn, Scanning
  <2>2. Return.how = "held" /\ TopBody.hasCFG => Refuted(TopBody.calls[Return.site])
    BY <1>2, <2>1 DEF FromSource, Settled, SitesExist, Return
  <2>3. RefutedReturn(TopBody, Return)
    BY <2>1, <2>2 DEF RefutedReturn, NullOnSight
  <2> QED BY <1>13, <2>1, <2>3
<1>17. CASE ReturnAnswered
  <2>1. stack # <<>> /\ Top.phase = "returns" /\ Waiting(Top) /\ mode = "reply"
    BY <1>17 DEF ReturnAnswered, SearchInv, ChainOK
  <2>2. /\ Top.at \in DOMAIN TopBody.returns /\ Return.how = "direct"
        /\ Asked(Top) = TopBody.calls[Return.site]
    BY <2>1 DEF Waiting, Asked, Body, TopBody, Return
  <2>3. ~answer => RefutedReturn(TopBody, Return)
    BY <1>1, <2>1, <2>2 DEF RefutedReturn
  <2>4. CASE Conclude(TRUE)
    BY <2>1, <2>4, SettledConcludeStep
  <2>5. CASE ~answer /\ NextReturn
    BY <1>13, <2>1, <2>2, <2>3, <2>5
  <2> QED BY <1>17, <2>4, <2>5 DEF ReturnAnswered
<1>18. CASE NoEvidence
  <2>1. /\ stack # <<>> /\ Top.phase = "returns" /\ Top.at \notin DOMAIN TopBody.returns
        /\ Conclude(FALSE) /\ Top.at \in Nat \ {0}
    BY <1>1, <1>2, <1>18 DEF NoEvidence, Scanning, Frames
  <2>2. \A k \in DOMAIN TopBody.returns : k < Top.at
    BY <1>2, <2>1, LenProperties DEF Bodies
  <2>3. RefutedBody(TopBody)
    BY <1>2, <2>1, <2>2 DEF Settled, FrameOK, RefutedBody
  <2> QED BY <2>1, <2>3, SettledConcludeStep
<1>19. CASE Answered
  BY <1>19, SettledQuietStep DEF Answered
<1>20. CASE UNCHANGED vars
  BY <1>1, <1>20, SettledQuietStep DEF vars
<1> QED BY <1>3, <1>4, <1>6, <1>7, <1>8, <1>9, <1>10, <1>11, <1>12, <1>14, <1>15, <1>16,
           <1>17, <1>18, <1>19, <1>20 DEF Next, Search, Lookup, Walk, Scan

LEMMA RefutedIsUnsupported ==
  ASSUME NEW f \in Functions, RefutedBody(program[f]), InferenceAssumption,
         cache \in [Functions -> Verdicts]
  PROVE  ~Supported(f, Nullable)
BY DEF RefutedBody, RefutedReturn, Refuted, Supported, Evidence, Yields, Nullable,
       InferenceAssumption

\* A function is cached as not nullable only when nothing in its body can be
\* NULL, as long as no function reaches itself: the order in which the calls of
\* the user's code are visited does not show in any verdict.
THEOREM AcyclicVerdictsAreRight == Spec => []AcyclicVerdictsMatchBodies
<1> DEFINE Inv == SearchInv /\ Descending /\ (Acyclic => SettledInv)
<1>1. Init => Inv
  <2> SUFFICES ASSUME Init PROVE Inv
    OBVIOUS
  <2>1. SearchInv /\ 1..Depth = {}
    BY SearchStarts, EmptySeq DEF Init
  <2>2. Descending
    BY <2>1 DEF Descending
  <2>3. SettledInv
    BY <2>1 DEF Init, SettledInv
  <2> QED BY <2>1, <2>2, <2>3
<1>2. Inv /\ [Next]_vars => Inv'
  BY SearchStep, DescendingStep, SettledStep, ProgramIsConstant
<1>3. Inv => AcyclicVerdictsMatchBodies
  BY RefutedIsUnsupported, InferenceAssumption
  DEF AcyclicVerdictsMatchBodies, VerdictsMatchBodies, SettledInv, SearchInv, TypeOK
<1> HIDE DEF Inv
<1> QED BY <1>1, <1>2, <1>3, PTL DEF Spec
=============================================================================

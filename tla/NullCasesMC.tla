----------------------------- MODULE NullCasesMC -----------------------------
(***************************************************************************)
(* Chosen functions, for TLC: the guards that docs/nullability.md says are *)
(* recognised, and the functions on which the analysis departs from it.    *)
(* A function is a sequence of blocks, the first one its entry.            *)
(***************************************************************************)
EXTENDS NullStateFlow

Set(d, e) == [op |-> "set", to |-> d, from |-> e]
Store(m, e) == [op |-> "store", to |-> m, from |-> e]
Use(e, site) == [op |-> "use", of |-> e, site |-> site]
Choose(d, subject, then, else) ==
  [op |-> "choose", to |-> d, subject |-> subject, then |-> then, else |-> else]
Block(body, succ) == [body |-> body, cond |-> Opaque, succ |-> succ]
If(body, cond, then, else) == [body |-> body, cond |-> cond, succ |-> <<then, else>>]
Truth(e) == Test(e, "truth", TRUE)
IsNull(e) == Test(e, "compare", FALSE)
NotNull(e) == Test(e, "compare", TRUE)
Return == Block(<<>>, <<>>)

Cases == [
  \* if (p == NULL) return -1; return p->value;
  earlyReturn |-> <<If(<<Set("p", Source)>>, IsNull("p"), 2, 3), Return,
                    Block(<<Use("p", 1)>>, <<>>)>>,
  \* if (p) return p->value; return -1;
  guard |-> <<If(<<Set("p", Source)>>, Truth("p"), 2, 3), Block(<<Use("p", 1)>>, <<>>), Return>>,
  \* return p != NULL && p->ready;
  shortCircuit |-> <<If(<<Set("p", Source)>>, NotNull("p"), 2, 3),
                     Block(<<Use("p", 1)>>, <<3>>), Return>>,
  \* q = p; if (!q) return -1; return p->value;
  aliasGuard |-> <<If(<<Set("p", Source), Set("q", "p")>>, Test("q", "truth", FALSE), 2, 3),
                   Return, Block(<<Use("p", 1)>>, <<>>)>>,
  \* if (!p) p = &fallback; return p->value;
  fallback |-> <<If(<<Set("p", Source)>>, Test("p", "truth", FALSE), 2, 3),
                 Block(<<Set("p", Other)>>, <<3>>), Block(<<Use("p", 1)>>, <<>>)>>,
  \* p ? p : &fallback
  choice |-> <<Block(<<Set("p", Source), Choose("q", "p", "p", Other), Use("q", 1)>>, <<>>)>>,
  \* while ((p = find()) != NULL) p->value;
  loopGuard |-> <<Block(<<>>, <<2>>), If(<<Set("p", Source)>>, NotNull("p"), 3, 4),
                  Block(<<Use("p", 1)>>, <<2>>), Return>>,
  \* if (c) p = find(); else p = &object; if (p != NULL) p->value;
  somePath |-> <<If(<<>>, Opaque, 2, 3), Block(<<Set("p", Source)>>, <<4>>),
                 Block(<<Set("p", Other)>>, <<4>>), If(<<>>, NotNull("p"), 5, 6),
                 Block(<<Use("p", 1)>>, <<6>>), Return>>,
  \* if (c) s.p = find(); else s.p = &object; if (s.p != NULL) s.p->value;
  memberGuard |-> <<If(<<>>, Opaque, 2, 3), Block(<<Store("s.p#1", Source)>>, <<4>>),
                    Block(<<Store("s.p#2", Other)>>, <<4>>), If(<<>>, NotNull("s.p#3"), 5, 6),
                    Block(<<Use("s.p#4", 1)>>, <<6>>), Return>>,
  \* value = p->value; if (p == NULL) return -1;
  lateCheck |-> <<If(<<Set("p", Source), Use("p", 1)>>, IsNull("p"), 2, 2), Return>>,
  \* if (c) if (!p) return -1; return p->value;
  oneBranchChecked |-> <<If(<<Set("p", Source)>>, Opaque, 2, 4), If(<<>>, Truth("p"), 4, 3),
                         Return, Block(<<Use("p", 1)>>, <<>>)>>,
  \* p = NULL; while (c) { q = p; p = find(); if (p) q->value; }
  previousNode |-> <<Block(<<Set("p", NullConstant)>>, <<2>>), If(<<>>, Opaque, 3, 5),
                     If(<<Set("q", "p"), Set("p", Source)>>, Truth("p"), 4, 2),
                     Block(<<Use("q", 1)>>, <<2>>), Return>>,
  \* p = find(); while (c) { q = p ? p : NULL; q->value; if (q) p->value; q = p ? NULL : p; }
  nullArm |-> <<Block(<<Set("p", Source)>>, <<2>>), If(<<>>, Opaque, 3, 6),
                If(<<Choose("q", "p", "p", NullConstant), Use("q", 1)>>, Truth("q"), 4, 5),
                Block(<<Use("p", 2)>>, <<5>>),
                Block(<<Choose("q", "p", NullConstant, "p"), Use("q", 3)>>, <<2>>), Return>>,

  \* p = find(); if (c) s.p = p; else s.p = &object; if (s.p) p->value;
  memberTruth |-> <<If(<<Set("p", Source)>>, Opaque, 2, 3), Block(<<Store("s.p#1", "p")>>, <<4>>),
                    Block(<<Store("s.p#2", Other)>>, <<4>>), If(<<>>, Truth("s.p#3"), 5, 6),
                    Block(<<Use("p", 1)>>, <<6>>), Return>>,
  \* s.p = NULL; s.p = &object; while (c) { }
  replacedMember |-> <<Block(<<Store("s.p#1", NullConstant), Store("s.p#2", Other)>>, <<2>>),
                       If(<<>>, Opaque, 3, 4), Block(<<>>, <<2>>), Return>>]

Accepted == {"earlyReturn", "guard", "shortCircuit", "aliasGuard", "fallback", "choice",
             "loopGuard", "somePath", "memberGuard"}
Reported == {"lateCheck", "oneBranchChecked"}

CaseBlock(f, i) == <<[case |-> f], i>>
CaseBlocks == UNION {{CaseBlock(f, i) : i \in DOMAIN Cases[f]} : f \in DOMAIN Cases}
EntriesOf(fs) == {CaseBlock(f, 1) : f \in fs}
DocumentedEntries == EntriesOf(Accepted \cup Reported)
MemberTruthEntries == EntriesOf({"memberTruth"})
ReplacedMemberEntries == EntriesOf({"replacedMember"})
BlockOf(b) == Cases[b[1].case][b[2]]
CaseSuccessors(b) == [i \in DOMAIN BlockOf(b).succ |-> <<b[1], BlockOf(b).succ[i]>>]

MCNoBlock == <<Opaque, 0>>
SuccessorsInCases == [b \in CaseBlocks |-> CaseSuccessors(b)]
BodyInCases == [b \in CaseBlocks |-> BlockOf(b).body]
ConditionInCases == [b \in CaseBlocks |-> BlockOf(b).cond]
MCDecls == {"p", "q"}
MCMembers == {"s.p#1", "s.p#2", "s.p#3", "s.p#4"}
MCKeyOf == [m \in MCMembers |-> "s.p"]

\* docs/nullability.md, "Recognized guards" and "Control-flow behavior": the
\* use is accepted in the first group of functions, reported in the second.
DocumentedVerdicts ==
  Done => /\ EntriesOf(Accepted) \cap Reached # {} => Unsafe = {}
          /\ EntriesOf(Reported) \cap Reached # {} => Unsafe = {1}
=============================================================================

----------------------------- MODULE ValueFlowMC -----------------------------
(***************************************************************************)
(* For TLC, over two integers s and t and a pointer p: every function of   *)
(* the shape                                                               *)
(*                                                                         *)
(*   1:  s = call(); s1   2:  s2; if (c2) goto 3; else goto 4;             *)
(*   3:  s3; if (c3) {} goto 1, 2 or 4;   4:  s4; if (c4) {}   5:  exit    *)
(*   6:  goto 1                                                            *)
(*                                                                         *)
(* and functions of tests/cases, for which the verdicts are known.  A      *)
(* function is a tuple of numbers, a block <<function, number, search>>.   *)
(***************************************************************************)
EXTENDS ValueFlow

Var(v) == [as |-> "var", of |-> v]
Deref(p) == [as |-> "deref", of |-> p]
AddressOf(v) == [as |-> "address", of |-> v]
Call == [as |-> "call", of |-> "s"]
Other == [as |-> "other", of |-> "s"]

Set(to, from) == [op |-> "set", to |-> to, from |-> from]
Choose(to, from, other) == [op |-> "choose", to |-> to, from |-> from, other |-> other]
Use(e) == [op |-> "use", of |-> e]
Step(e) == [op |-> "step", of |-> e]
Return(e) == [op |-> "return", of |-> e]
Pass(e, checks) == [op |-> "pass", of |-> e, checked |-> checks]

Ends(kind, e, covers, settles) ==
  [kind |-> kind, tests |-> e, covers |-> covers, settles |-> settles]
Falls == Ends("none", Other, {}, FALSE)

MCDomain == {1, 4, 32}
S == Var("s")
T == Var("t")
P == Var("p")

-----------------------------------------------------------------------------
\* The functions of tests/cases: [body, ends, next] by block (and the blocks of
\* an if's else-ifs, itself first), and the verdict.

Goes(body, next) == [body |-> body, ends |-> Falls, next |-> next]
Asks(body, ends, next) == [body |-> body, ends |-> ends, next |-> next]
Chain(body, e, covers, next, chain) ==
  [body |-> body, ends |-> Ends("if", e, covers, FALSE), next |-> next, chain |-> chain]
Exit == Goes(<<>>, <<>>)

\* `e == 1 || e == 4 || e == 32` from block n on, to block n + 3 or n + 4
Part(body, e, covers, next) == Asks(body, Ends("part", e, covers, FALSE), next)
All(body, e, n) ==
  <<Part(body, e, {1}, <<n + 3, n + 1>>), Part(<<>>, e, {1, 4}, <<n + 3, n + 2>>),
    Asks(<<>>, Ends("if", e, MCDomain, FALSE), <<n + 3, n + 4>>)>>
Selects(body, next) == Asks(body, Ends("if", Other, {}, FALSE), next)

Tests ==
  <<\* cfg_path_handling.c:3
    [verdict |-> "consumed",
     blocks |-> <<Selects(<<Set(S, Call)>>, <<2, 7>>)>> \o All(<<>>, S, 2)
                \o <<Goes(<<Return(Other)>>, <<8>>), Goes(<<Return(Other)>>, <<8>>),
                     Goes(<<Use(S), Return(Other)>>, <<8>>), Exit>>],
    \* cfg_path_handling.c:16
    [verdict |-> "exhaustive",
     blocks |-> <<Selects(<<Set(S, Call)>>, <<2, 7>>)>> \o All(<<>>, S, 2)
                \o <<Goes(<<Return(Other)>>, <<9>>), Goes(<<Return(Other)>>, <<9>>),
                     Asks(<<>>, Ends("switch", S, MCDomain, FALSE), <<5, 8>>),
                     Goes(<<Return(Other)>>, <<9>>), Exit>>],
    \* pointer_flow.c:13
    [verdict |-> "exhaustive",
     blocks |-> <<Asks(<<Set(P, AddressOf("s")), Set(Deref("p"), Call)>>,
                       Ends("switch", S, MCDomain, FALSE), <<2, 3>>),
                  Goes(<<Return(Other)>>, <<4>>), Goes(<<Return(Other)>>, <<4>>), Exit>>],
    \* pointer_flow.c:38
    [verdict |-> "partial",
     blocks |-> <<Asks(<<Set(S, Call), Set(P, AddressOf("s"))>>,
                       Ends("if", Deref("p"), {1}, FALSE), <<2, 3>>),
                  Goes(<<Return(Other)>>, <<4>>), Goes(<<Return(Other)>>, <<4>>), Exit>>],
    \* return_flow_cfg.c:16
    [verdict |-> "exhaustive",
     blocks |-> <<Selects(<<Set(S, Call)>>, <<2, 3>>), Goes(<<Set(T, S)>>, <<4>>),
                  Goes(<<Set(T, S)>>, <<4>>)>> \o All(<<>>, T, 4)
                \o <<Goes(<<>>, <<8>>), Exit>>],
    \* return_flow_cfg.c:29 and :46, a helper that checks and one that does not
    [verdict |-> "exhaustive", blocks |-> <<Goes(<<Set(S, Call), Pass(S, TRUE)>>, <<2>>), Exit>>],
    [verdict |-> "none", blocks |-> <<Goes(<<Set(S, Call), Pass(S, FALSE)>>, <<2>>), Exit>>],
    \* return_flow_cfg.c:51
    [verdict |-> "none",
     blocks |-> <<Goes(<<Set(S, Call), Return(Other)>>, <<6>>)>> \o All(<<>>, S, 2)
                \o <<Goes(<<>>, <<6>>), Exit>>],
    \* return_flow_cfg.c:59
    [verdict |-> "none",
     blocks |-> <<Selects(<<Set(S, Call), Set(T, S)>>, <<2, 3>>), Goes(<<Set(T, Other)>>, <<3>>)>>
                \o All(<<>>, T, 3) \o <<Goes(<<>>, <<7>>), Exit>>],
    \* if_chains.c:10 and guard_clauses.c:9
    [verdict |-> "exhaustive",
     blocks |-> <<Chain(<<Set(S, Call)>>, S, {1}, <<4, 2>>, <<1, 2, 3>>),
                  Chain(<<>>, S, {4}, <<4, 3>>, <<2, 3>>), Chain(<<>>, S, {32}, <<4, 4>>, <<3>>),
                  Exit>>],
    [verdict |-> "exhaustive",
     blocks |-> <<Asks(<<Set(S, Call)>>, Ends("if", S, {4, 32}, TRUE), <<2, 2>>), Exit>>],
    \* aliases.c:19
    [verdict |-> "forwarded",
     blocks |-> <<Goes(<<Set(S, Call), Set(T, S), Return(T)>>, <<2>>), Exit>>]>>

-----------------------------------------------------------------------------
First ==
  <<Set(T, S), Set(P, AddressOf("s")), Choose(T, S, Other), Choose(P, AddressOf("s"), AddressOf("t")),
    Choose(P, AddressOf("s"), Other)>>
Second == <<Set(T, Deref("p")), Set(Deref("p"), S), Use(S), Set(S, T)>>
Third == <<Step(T), Set(P, AddressOf("t")), Set(S, Other)>>
Fourth == <<Use(S), Return(T), Set(Deref("p"), Other)>>

\* How blocks 2 and 3 end, and block 4.
NoCheck == Ends("if", Other, {}, FALSE)
CheckS == Ends("if", S, MCDomain, FALSE)
MiddleEnds ==
  <<<<NoCheck, Falls>>, <<NoCheck, CheckS>>, <<NoCheck, Ends("switch", T, {1}, TRUE)>>,
    <<Ends("if", S, {1}, FALSE), Falls>>>>
LastEnds == <<Ends("if", S, {4, 32}, FALSE), Ends("switch", Deref("p"), {1}, TRUE)>>

Generated ==
  {<<next, i, j, k, l, c, d>> : next \in {1, 2, 4}, i \in 1..5, j \in 1..4, k, l \in 1..3,
                                c \in 1..4, d \in 1..2}

BlocksOf(f) == IF Len(f) = 1 THEN 1..Len(Tests[f[1]].blocks) ELSE 1..6

\* A loop may lead back to block 1, so a generated function is entered by a
\* block of its own, as Clang's entry block is.
EntryOf(f) == IF Len(f) = 1 THEN 1 ELSE 6
MCPrograms == Generated \cup {<<i>> : i \in DOMAIN Tests}
MCBlocks == {b \in MCPrograms \X (1..9) \X Searches : b[2] \in BlocksOf(b[1])}
MCNoBlock == <<<<0, 0>>, 0, "none">>

Shape(f, n) ==
  IF Len(f) = 1 THEN Tests[f[1]].blocks[n]
  ELSE CASE n = 1 -> Goes(<<Set(S, Call), First[f[2]]>>, <<2>>)
         [] n = 2 -> Asks(<<Second[f[3]]>>, MiddleEnds[f[6]][1], <<3, 4>>)
         [] n = 3 -> Asks(<<Third[f[4]]>>, MiddleEnds[f[6]][2],
                          IF MiddleEnds[f[6]][2] = Falls THEN <<f[1]>> ELSE <<f[1], f[1]>>)
         [] n = 4 -> IF Fourth[f[5]].op = "return" THEN Goes(<<Fourth[f[5]]>>, <<5>>)
                     ELSE Asks(<<Fourth[f[5]]>>, LastEnds[f[7]], <<5, 5>>)
         [] n = 6 -> Goes(<<>>, <<1>>)
         [] OTHER -> Exit

MCBody == [b \in MCBlocks |-> Shape(b[1], b[2]).body]
MCSuccessors ==
  [b \in MCBlocks |->
     LET next == Shape(b[1], b[2]).next
     IN [i \in 1..Len(next) |-> <<b[1], next[i], b[3]>>]]
MCTerminator ==
  [b \in MCBlocks |->
     LET ends == Shape(b[1], b[2]).ends
     IN [kind |-> ends.kind, tests |-> ends.tests, covers |-> ends.covers,
         settles |-> ends.settles,
         chain |-> IF "chain" \in DOMAIN Shape(b[1], b[2])
                     THEN [i \in DOMAIN Shape(b[1], b[2]).chain |->
                             <<b[1], Shape(b[1], b[2]).chain[i], b[3]>>]
                     ELSE <<b>>]]
MCSearch == [b \in MCBlocks |-> b[3]]
MCEntries == {<<f, EntryOf(f), "aliases">> : f \in MCPrograms}
MCLive == [b \in {c \in MCBlocks : c[3] = "aliases"} |-> <<b[1], b[2], "live">>]
MCAfterCall ==
  {o \in MCBlocks \X (0..3) : o[2] <= Len(MCBody[o[1]]) /\ <<o[1][2], o[2]>> # <<1, 1>>}
MCInts == {"s", "t"}
MCPointers == {"p"}

\* The verdicts that the tests of the repository expect.
TestVerdicts ==
  \A b \in Reached :
    Len(b[1]) = 1 /\ search = "done" => verdict = Tests[b[1][1]].verdict
=============================================================================

--------------------------- MODULE CommandLinesMC ---------------------------
(***************************************************************************)
(* Three programs before they get to work: the driver selects its units,   *)
(* the launcher reads a compiler's command line, the analyser its          *)
(* configuration.  A behaviour is one of them; the others stay as they are.*)
(***************************************************************************)
EXTENDS UnitSelection, CompilerLauncher, AnalyzerConfig

VARIABLE program
allVars == <<program, selectionVars, launcherVars, configVars>>

-----------------------------------------------------------------------------
\* Three sources; 3 has a suffix that is not always wanted, 2 is sometimes
\* excluded, 1 cannot be reached from a source root.
SomeTraits ==
  [s \in 1..3 |-> [suffix |-> IF s = 3 THEN ".m" ELSE ".c",
                   included |-> s # 2, excluded |-> FALSE, skipped |-> s = 1]]

SomeDigests == [project |-> <<4, 9, 2>>, home |-> <<3, 3, 5>>]

Shard1 ==
  [database |-> "listed", listed |-> <<1, 2, 3>>, roots |-> TRUE, extensions |-> {".c", ".m"},
   includes |-> FALSE, includeMissing |-> FALSE, root |-> "project", index |-> 0, count |-> 3,
   maxFiles |-> 0, jobs |-> 1, tool |-> TRUE, show |-> "no"]
Shards(o) == [a |-> o, b |-> [o EXCEPT !.index = 1], c |-> [o EXCEPT !.index = 2]]
Alone(o) == [a |-> o, b |-> [o EXCEPT !.jobs = 0], c |-> [o EXCEPT !.jobs = 0]]

SomePlans ==
  {[Shards([Shard1 EXCEPT !.database = d, !.extensions = e, !.root = r, !.includes = i,
                          !.includeMissing = m])
      EXCEPT !.b.listed = <<3, 2, 1, 3>>, !.c.listed = <<2, 2, 1, 3>>] :
     d \in {"listed", "none"}, e \in {{".c"}, {".c", ".m"}}, r \in {"project", "home"},
     i \in BOOLEAN, m \in BOOLEAN}
  \cup {[Shards(Shard1) EXCEPT !.b.root = "home"], [Shards(Shard1) EXCEPT !.c.count = 2],
        Shards([Shard1 EXCEPT !.maxFiles = 1])}
  \cup {Alone([Shard1 EXCEPT !.count = 1, !.maxFiles = m, !.tool = t, !.show = s, !.database = d,
                             !.roots = r, !.extensions = e]) :
          m \in {-1, 0, 2}, t \in BOOLEAN, s \in {"no", "list", "commands"},
          d \in {"listed", "none", "malformed"}, r \in BOOLEAN, e \in {{}, {".c"}}}

-----------------------------------------------------------------------------
\* All short command lines, and longer ones of the words that work together.
FewWords == {"source", "other", "c++", "none", "-x", "-xc++", "-o", "--", "-", "-c"}
Lines == <<[1..1 -> Words], [1..2 -> Words], [1..3 -> Words], [1..4 -> FewWords]>>

-----------------------------------------------------------------------------
\* Functions of the program: one of the user, one of its namespace, two of the
\* system, one of the standard library behind an inline namespace.
Function(qualified, name, annotations, system, scope) ==
  [qualified |-> qualified, name |-> name, annotations |-> annotations,
   system |-> system, scope |-> scope]
SomeDeclared ==
  {Function("send", "send", <<>>, FALSE, <<>>),
   Function("vendor::send", "send", <<>>, FALSE, <<"other">>),
   Function("make", "make", <<"null", "negative">>, FALSE, <<>>),
   Function("read", "read", <<>>, TRUE, <<"linkage">>),
   Function("std::malloc", "malloc", <<>>, TRUE, <<"inline", "std">>)}

Text(name, predicate) == [kind |-> "contract", name |-> name, predicate |-> predicate]
SomeTexts ==
  {Text("send", p) : p \in {<<"null">>, <<"non-zero">>, <<"byte_count:", 1>>, <<"byte-count:", -1>>}}
  \cup {Text("vendor::send", <<"byte-count:", 0>>), Text("read", <<"negative">>),
        Text("make", <<"nonzero">>), Text("", <<"null">>), Text("send", <<"often">>)}
MoreLines == {[kind |-> "lifetime", name |-> "make", predicate |-> <<"alloc">>],
              [kind |-> "lifetime", name |-> "make", predicate |-> <<"null">>],
              [kind |-> "blank", name |-> "", predicate |-> <<>>],
              [kind |-> "unknown", name |-> "make", predicate |-> <<"null">>]}
File(lines) == [readable |-> TRUE, lines |-> lines]
Unreadable == [readable |-> FALSE, lines |-> <<>>]
Plain(text) == [name |-> text.name, predicate |-> text.predicate]

ConfigFiles == {<<>>, <<Unreadable>>, <<File(<<>>), Unreadable>>}
  \cup {<<File(<<t>>)>> : t \in SomeTexts \cup MoreLines}
  \cup {<<File(<<t>>), File(<<Text("send", <<"negative">>), t>>)>> : t \in SomeTexts}
SomePolicies ==
  [configs : ConfigFiles, options : {<<>>} \cup {<<Plain(t)>> : t \in SomeTexts},
   files : {<<>>, <<Unreadable>>} \cup {<<File(<<t, Text("read", <<"null">>)>>)>> : t \in SomeTexts},
   mode : {"practical", "invalid"}]

\* /p/src and /p/lib below /p below /; databases 1 to 4.
Argument(kind, directory, source, exists) ==
  [kind |-> kind, directory |-> directory, source |-> source, exists |-> exists]
Source1 == Argument("file", "src", TRUE, TRUE)
Source2 == Argument("file", "lib", TRUE, TRUE)
Header == Argument("file", "p", FALSE, TRUE)
SomeDisks ==
  [arguments : {<<>>, <<Source1>>, <<Source2, Header>>, <<Source1, Source2>>,
                <<Source1, Argument("-p", "p", FALSE, FALSE)>>,
                <<Argument("file", "src", TRUE, FALSE)>>,
                <<Source1, Argument("--", "p", FALSE, FALSE), Source2>>},
   cwd : {"p", "lib"},
   above : {[src |-> "p", lib |-> "p", p |-> "root", root |-> "root"]},
   named : {[src |-> <<>>, lib |-> <<4>>, p |-> <<1>>, root |-> <<>>],
            [src |-> <<3>>, lib |-> <<1>>, p |-> <<1, 2>>, root |-> <<4>>]},
   others : {[src |-> <<>>, lib |-> <<>>, p |-> <<2, 3>>, root |-> <<>>],
             [src |-> <<>>, lib |-> <<>>, p |-> <<3, 2>>, root |-> <<>>]},
   knows : [1..4 -> {{}, {Source1}, {Source1, Source2}}]]
NoDisk == [arguments |-> <<>>, cwd |-> "p", above |-> [p |-> "p"], named |-> [p |-> <<>>],
           others |-> [p |-> <<>>], knows |-> <<>>]
NoPolicy == [configs |-> <<>>, options |-> <<>>, files |-> <<>>, mode |-> "practical"]

-----------------------------------------------------------------------------
IdleSelection ==
  /\ plan = Shards(Shard1) /\ present = {} /\ steady = {}
  /\ outcome = [i \in Invocations |-> "pending"]
  /\ selected = [i \in Invocations |-> {}] /\ missing = [i \in Invocations |-> 0]
IdleLauncher ==
  /\ line = <<>> /\ disabled = FALSE /\ analysis = {} /\ analysed = "not"
  /\ compiled = FALSE /\ exit = "running"
IdleConfig ==
  /\ disk = NoDisk /\ database = {} /\ policy = NoPolicy /\ phase = "database" /\ read = 0
  /\ contracts = <<>> /\ fromConfig = <<>> /\ lifetimeRoles = <<>> /\ stopped = FALSE

Init ==
  \/ program = "driver" /\ InitSelection /\ IdleLauncher /\ IdleConfig
  \/ /\ program = "launcher" /\ IdleSelection /\ IdleConfig
     /\ InitLauncher
  \/ /\ program = "analyser" /\ IdleSelection /\ IdleLauncher
     /\ \/ policy \in SomePolicies /\ disk = NoDisk
        \/ policy = NoPolicy /\ disk \in SomeDisks
     /\ InitConfig

AllDisks == {NoDisk} \cup SomeDisks

Next ==
  \/ program = "driver" /\ NextSelection /\ UNCHANGED <<program, launcherVars, configVars>>
  \/ program = "launcher" /\ NextLauncher /\ UNCHANGED <<program, selectionVars, configVars>>
  \/ program = "analyser" /\ NextConfig /\ UNCHANGED <<program, selectionVars, launcherVars>>

Spec == Init /\ [][Next]_allVars
=============================================================================

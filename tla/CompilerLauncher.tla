-------------------------- MODULE CompilerLauncher --------------------------
(***************************************************************************)
(* returnguard_compiler_launcher.py stands in for the compiler of a build: *)
(* it finds the source among the compiler's arguments, has it analysed,    *)
(* and compiles only what passed.  An argument is one of                   *)
(*   "source", "generated"   a file with the suffix of a source; generated *)
(*                           ones have .returnguard- in their name         *)
(*   "gone"                  such a name, but no such file                 *)
(*   "other"                 a file with another suffix                    *)
(*   "c++", "none"           a source language, and the word that is none  *)
(*   "-o", "-MF"             output options that take the next argument    *)
(*   "-I", "-x"              options to keep that do too                   *)
(*   "-MFfile", "-c"         output options that are one argument          *)
(*   "-Wall", "-xc++"        options to keep that are one argument         *)
(*   "-", "--", "@file"                                                    *)
(***************************************************************************)
EXTENDS Integers, Sequences

CONSTANT CommandLines  \* the command lines a build may use: a sequence of sets

Dropped == {"-c"}
DroppedWithValue == {"-o", "-MF"}
DroppedJoined == {"-MFfile"}
WithValue == DroppedWithValue \cup {"-I", "-x"}
Options == WithValue \cup Dropped \cup DroppedJoined \cup {"-Wall", "-xc++", "-", "--"}
Words == Options \cup {"source", "generated", "gone", "other", "c++", "none", "@file"}

LauncherAssumption ==
  \A k \in DOMAIN CommandLines : \A words \in CommandLines[k] : words \in Seq(Words)

ASSUME LauncherAssumption

VARIABLES
  line,                \* the arguments of the compiler
  disabled,            \* is RETURNGUARD_DISABLE set?
  analysis,            \* the places of the arguments the analysis gets
  analysed,            \* how it ended: "not", "failed" or "passed"
  compiled,            \* was the compiler run?
  exit                 \* the exit code, or "running"
launcherVars == <<line, disabled, analysis, analysed, compiled, exit>>

-----------------------------------------------------------------------------
\* The places a loop passes over, as the values of some options.
Taken(options) ==
  LET taken[k \in DOMAIN line] == k > 1 /\ line[k - 1] \in options /\ ~taken[k - 1]
  IN {k \in DOMAIN line : taken[k]}

\* positional_arguments: what is neither an option nor its value; after a
\* separator, everything.
Positional ==
  LET values == Taken(WithValue)
      separated(k) == \E s \in 1..(k - 1) : line[s] = "--" /\ s \notin values
  IN {k \in DOMAIN line : separated(k) \/ (k \notin values /\ line[k] \notin Options)}

\* explicit_language: the last -x decides, wherever it stands.
LanguageSelectsSource ==
  LET values == Taken({"-x"})
      languages == values \cup {k \in DOMAIN line : line[k] = "-xc++"}
  IN \E k \in languages :
       /\ \A j \in languages : j <= k
       /\ k \in values => line[k] = "c++"

\* source_argument; the files a compiler would compile as C or C++.
CandidatesBySuffix == {k \in Positional : line[k] = "source"}          \* a slip

Candidates ==
  {k \in Positional : line[k] = "source" \/ (LanguageSelectsSource /\ line[k] = "other")}

Unsupported ==
  \/ \E k \in DOMAIN line : line[k] = "@file"
  \/ LanguageSelectsSource /\ \E k \in Positional : line[k] = "-"
  \/ \E j, k \in Candidates : j # k

\* tool_arguments: neither the source nor what tells the compiler its outputs.
ToolArguments(source) ==
  {k \in DOMAIN line \ (Taken(DroppedWithValue) \cup {source}) :
     line[k] \notin DroppedWithValue \cup Dropped \cup DroppedJoined}

-----------------------------------------------------------------------------
InitLauncher ==
  /\ \E k \in DOMAIN CommandLines : line \in CommandLines[k]
  /\ disabled \in BOOLEAN
  /\ analysis = {} /\ analysed = "not" /\ compiled = FALSE /\ exit = "running"

RunCompiler(code) == compiled' = TRUE /\ exit' = code

\* Disabled, or nothing to analyse.  A compiler that cannot be started raises
\* OSError, which main handles only inside its try.
PassThrough ==
  /\ exit = "running" /\ analysed = "not"
  /\ disabled \/ (~Unsupported /\ Candidates = {})
  /\ \/ \E code \in {"compiler failed", "success"} : RunCompiler(code)
     \/ exit' = (IF disabled THEN "traceback" ELSE "refused") /\ UNCHANGED compiled
  /\ UNCHANGED <<line, disabled, analysis, analysed>>

\* LauncherError or OSError: also if the analyser cannot be found or run.
RefuseLine ==
  /\ exit = "running" /\ analysed = "not" /\ ~disabled
  /\ Unsupported \/ Candidates # {}
  /\ exit' = "refused"
  /\ UNCHANGED <<line, disabled, analysis, analysed, compiled>>

Analyse ==
  /\ exit = "running" /\ analysed = "not" /\ ~disabled
  /\ ~Unsupported /\ Candidates # {}
  /\ analysis' = ToolArguments(CHOOSE k \in Candidates : TRUE)
  /\ \/ analysed' = "passed" /\ UNCHANGED exit
     \/ analysed' = "failed" /\ exit' = "analysis failed"
  /\ UNCHANGED <<line, disabled, compiled>>

Compile ==
  /\ exit = "running" /\ analysed = "passed"
  /\ \/ \E code \in {"compiler failed", "success"} : RunCompiler(code)
     \/ exit' = "refused" /\ UNCHANGED compiled          \* OSError
  /\ UNCHANGED <<line, disabled, analysis, analysed>>

NextLauncher == PassThrough \/ RefuseLine \/ Analyse \/ Compile

LauncherSpec == InitLauncher /\ [][NextLauncher]_launcherVars

-----------------------------------------------------------------------------
\* What a compiler makes of its arguments: it takes the next argument as the
\* value of an option that needs one; after a separator all are literally files.
Reading ==
  LET reading[k \in DOMAIN line] ==
        IF k > 1 /\ reading[k - 1] \in {"separator", "literal"} THEN "literal"
        ELSE IF k > 1 /\ reading[k - 1] = "option" /\ line[k - 1] \in WithValue THEN "value"
        ELSE IF line[k] = "--" THEN "separator"
        ELSE IF line[k] \in Options THEN "option" ELSE "file"
  IN reading

\* The places that name the language of what follows, up to k.
Languages(k) ==
  {j \in 1..k : \/ Reading[j] = "value" /\ line[j - 1] = "-x"
                \/ Reading[j] = "option" /\ line[j] = "-xc++"}

\* It compiles the files with the suffix of a source, and those that follow a
\* language that says so.  Standard input is left out here: `-` passes for an
\* option in positional_arguments, so what is piped into the compiler is compiled
\* unanalysed, and line 124 refuses it only after a `--`.
CompiledAs(k) ==
  /\ Reading[k] \in {"file", "literal"}
  /\ \/ line[k] = "source"
     \/ /\ line[k] = "other"
        /\ \E j \in Languages(k) :
             /\ \A i \in Languages(k) : i <= j
             /\ Reading[j] = "value" => line[j] = "c++"

\* A -x that the compiler does not heed for k, but explicit_language does: after
\* the file, as in `-x c++ file -x none`, or where it is no option.
Overruled(k) ==
  \E j \in 1..(Len(line) - 1) :
    line[j] = "-x" /\ line[j + 1] # "c++" /\ (j > k \/ Reading[j] # "option")

\* What is compiled was analysed and passed, unless the launcher is disabled
\* ("refusing to bypass analysis", returnguard_compiler_launcher.py:117), or
\* another -x overrules the language of the file.  And the analysis is told
\* neither the compiler's outputs, which it would overwrite, nor the source twice;
\* every other argument reaches it, if no value of an option, and no file after
\* a separator, is named like an option.
AnalysedAsCompiled ==
  LET output(k) == IF Reading[k] = "value" THEN line[k - 1] \in DroppedWithValue
                   ELSE line[k] \in Dropped \cup DroppedWithValue \cup DroppedJoined
      plain == \A k \in DOMAIN line :
                 line[k] \in Options => Reading[k] \in {"option", "separator"}
  IN /\ (\E k \in DOMAIN line : CompiledAs(k) /\ (line[k] = "other" => ~Overruled(k)))
            /\ compiled /\ ~disabled => analysed = "passed"
     /\ analysed # "not" /\ plain =>
          analysis = {k \in DOMAIN line : ~output(k) /\ k \notin Candidates}
=============================================================================

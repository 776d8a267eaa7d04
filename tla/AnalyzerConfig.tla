--------------------------- MODULE AnalyzerConfig ---------------------------
(***************************************************************************)
(* The analyser before it analyses: main reads policies from options and   *)
(* files, and looks for a compilation database; ContractPolicy.cpp looks   *)
(* the policies up afterwards, reading their texts a second time.          *)
(*                                                                         *)
(* The text of a contract is [name, predicate]; a predicate is <<word>> or *)
(* <<prefix, number>>, with -1 for what is no number.  A line of a         *)
(* function configuration is [kind, name, predicate], kind "blank" for a   *)
(* comment.  A file is [readable, lines].                                  *)
(* A function is [qualified, name, annotations, system, scope]: its names, *)
(* the annotations of its declarations in their order, is it declared in a *)
(* system header, and the contexts around it, innermost first:             *)
(* "linkage", "std", "inline" or "other".                                  *)
(* A disk is [arguments, cwd, above, named, others, knows].  An argument   *)
(* is [kind, directory, source, exists], its kind "-p", "--", "option" or  *)
(* "file".  above: directory -> the one above it, itself at the root.      *)
(* In a directory are databases that go by the names looked for first      *)
(* (named), and those of other build directories, in the order the file    *)
(* system lists them.  knows: database -> sources in it.                   *)
(***************************************************************************)
EXTENDS Integers, Sequences, FiniteSets

CONSTANTS
  Policies,            \* what a user may ask: [configs, options, files, mode]
  Declared,            \* the functions the analysed program may call
  Disks                \* what the search for a database may find

IsSequence(s) == s \in Seq({s[k] : k \in DOMAIN s})

PolicyAssumption ==
  \A p \in Policies :
    /\ IsSequence(p.options) /\ IsSequence(p.files) /\ IsSequence(p.configs)
    /\ \A k \in DOMAIN p.files : IsSequence(p.files[k].lines)
    /\ \A k \in DOMAIN p.configs : IsSequence(p.configs[k].lines)

ASSUME PolicyAssumption

DiskAssumption ==
  \A d \in Disks : LET directories == DOMAIN d.above IN
    /\ IsSequence(d.arguments) /\ IsFiniteSet(directories) /\ d.cwd \in directories
    /\ \A k \in DOMAIN d.arguments : d.arguments[k].directory \in directories
    /\ \A above \in directories :
         d.above[above] \in directories /\ IsSequence(d.named[above]) /\ IsSequence(d.others[above])

ASSUME DiskAssumption

VARIABLES
  disk, database,      \* where main looks for a database, the one it found, if any
  policy,              \* what the user asks
  phase,               \* what main does next
  read,                \* how many files of this phase are read
  contracts, fromConfig, lifetimeRoles,       \* the texts collected so far
  stopped              \* did main exit with code 2?
configVars == <<disk, database, policy, phase, read, contracts, fromConfig, lifetimeRoles, stopped>>

-----------------------------------------------------------------------------
HasExplicitDatabase ==
  \E k \in 1..Len(disk.arguments) : disk.arguments[k].kind \in {"--", "-p"}

\* source_files: the places of arguments with the suffix of a source that are files.
SourceFiles ==
  {k \in 1..Len(disk.arguments) :
     LET a == disk.arguments[k] IN a.kind = "file" /\ a.source /\ a.exists}

\* The directory n steps up; above the root is the root.
Upward(directory, n) ==
  LET up[k \in 0..n] == IF k = 0 THEN directory ELSE disk.above[up[k - 1]] IN up[n]
Steps == 0..Cardinality(DOMAIN disk.above)

StartsAtWorkingDirectory == {Len(disk.arguments) + 1}         \* a slip

\* The search starts at the sources' directories, then at the working one.
Starts == SourceFiles \cup {Len(disk.arguments) + 1}

StartOf(k) == IF k \in SourceFiles THEN disk.arguments[k].directory ELSE disk.cwd

\* add_candidates_from_root
InRoot(directory) == disk.named[directory] \o disk.others[directory]

\* database_candidates: <<start, steps up, place there>>, in their order.  A
\* directory or a database met again adds nothing.
DatabaseCandidates ==
  UNION {{<<k, n, p>> : p \in 1..Len(InRoot(Upward(StartOf(k), n)))} : k \in Starts, n \in Steps}
DatabaseAt(a) == InRoot(Upward(StartOf(a[1]), a[2]))[a[3]]
NotAfter(a, b) ==
  \/ a[1] < b[1]
  \/ a[1] = b[1] /\ (a[2] < b[2] \/ (a[2] = b[2] /\ a[3] <= b[3]))

\* database_contains_all_sources
Covers(d) == \A k \in SourceFiles : disk.arguments[k] \in disk.knows[d]

\* discover_compilation_database: the first that covers the sources.
DiscoverDatabase ==
  LET covering == {a \in DatabaseCandidates : Covers(DatabaseAt(a))}
  IN IF HasExplicitDatabase \/ SourceFiles = {} THEN {}
     ELSE {DatabaseAt(a) : a \in {b \in covering : \A c \in covering : NotAfter(b, c)}}

-----------------------------------------------------------------------------
CountPrefixes == {"byte-count:", "byte_count:"}

\* valid_contract_spec, valid_lifetime_spec
ValidContract(text) ==
  /\ text.name # ""
  /\ \/ text.predicate \in {<<"null">>, <<"negative">>, <<"nonzero">>, <<"non-zero">>}
     \/ Len(text.predicate) = 2 /\ text.predicate[1] \in CountPrefixes /\ text.predicate[2] >= 0

ValidLifetime(text) ==
  text.name # "" /\ text.predicate \in {<<"alloc">>, <<"free">>, <<"realloc">>}

\* parse_function_config_line
ValidLine(line) ==
  \/ line.kind = "blank"
  \/ line.kind = "contract" /\ ValidContract(line)
  \/ line.kind = "lifetime" /\ ValidLifetime(line)

\* The first parts, one after the other.
Joined(parts) ==
  LET joined[n \in {0} \cup DOMAIN parts] ==
        IF n = 0 THEN <<>> ELSE joined[n - 1] \o parts[n]
  IN joined

\* The lines of a kind, as texts.
Texts(lines, kind) ==
  Joined([k \in 1..Len(lines) |->
    IF lines[k].kind # kind THEN <<>>
    ELSE <<[name |-> lines[k].name, predicate |-> lines[k].predicate]>>])[Len(lines)]

Stop == stopped' = TRUE /\ UNCHANGED <<disk, database, policy, phase, read, contracts, fromConfig, lifetimeRoles>>

InitConfig ==
  /\ policy \in Policies /\ disk \in Disks /\ database = {}
  /\ phase = "database" /\ read = 0 /\ stopped = FALSE
  /\ contracts = <<>> /\ fromConfig = <<>> /\ lifetimeRoles = <<>>

Discover ==
  /\ phase = "database" /\ phase' = "function configurations"
  /\ database' = DiscoverDatabase
  /\ UNCHANGED <<disk, policy, read, contracts, fromConfig, lifetimeRoles, stopped>>

\* collect_function_config, one file.
ReadFunctionConfig ==
  /\ ~stopped /\ phase = "function configurations" /\ read < Len(policy.configs)
  /\ LET file == policy.configs[read + 1]
         good == file.readable /\ \A k \in DOMAIN file.lines : ValidLine(file.lines[k])
     IN IF ~good THEN Stop
        ELSE /\ read' = read + 1
             /\ fromConfig' = fromConfig \o Texts(file.lines, "contract")
             /\ lifetimeRoles' = lifetimeRoles \o Texts(file.lines, "lifetime")
             /\ UNCHANGED <<disk, database, policy, phase, contracts, stopped>>

\* collect_contracts starts with the options themselves...
TakeOptions ==
  /\ ~stopped /\ phase = "function configurations" /\ read = Len(policy.configs)
  /\ phase' = "contract files" /\ read' = 0 /\ contracts' = policy.options
  /\ UNCHANGED <<disk, database, policy, fromConfig, lifetimeRoles, stopped>>

\* ... and adds the files.
ReadContractFile ==
  /\ ~stopped /\ phase = "contract files" /\ read < Len(policy.files)
  /\ LET file == policy.files[read + 1]
         texts == Texts(file.lines, "contract")
         good == file.readable /\ \A k \in DOMAIN texts : ValidContract(texts[k])
     IN IF ~good THEN Stop
        ELSE /\ read' = read + 1 /\ contracts' = contracts \o texts
             /\ UNCHANGED <<disk, database, policy, phase, fromConfig, lifetimeRoles, stopped>>

\* The check of all texts; then main's own part, and the analysis may start.
SetOptions ==
  /\ ~stopped /\ phase = "contract files" /\ read = Len(policy.files)
  /\ IF (\E k \in DOMAIN contracts : ~ValidContract(contracts[k])) \/ policy.mode = "invalid"
     THEN Stop
     ELSE /\ phase' = "set" /\ contracts' = contracts \o fromConfig
          /\ UNCHANGED <<disk, database, policy, read, fromConfig, lifetimeRoles, stopped>>

NextConfig == Discover \/ ReadFunctionConfig \/ TakeOptions \/ ReadContractFile \/ SetOptions

ConfigSpec == InitConfig /\ [][NextConfig]_configVars

-----------------------------------------------------------------------------
\* Looking a function up.

ContractNameMatches(f, name) == name # "" /\ name \in {f.qualified, f.name}

\* annotation_contract: the first declaration that has an annotation.
AnnotationContract(f) == IF f.annotations = <<>> THEN "none" ELSE Head(f.annotations)

ParsePredicateNoHyphen(predicate) ==                          \* a slip
  IF predicate \in {<<"null">>, <<"negative">>, <<"nonzero">>} THEN predicate[1] ELSE "none"

\* parse_predicate, parse_byte_count_parameter_index; -1 is no index
ParsePredicate(predicate) ==
  CASE predicate \in {<<"null">>, <<"negative">>} -> predicate[1]
    [] predicate \in {<<"nonzero">>, <<"non-zero">>} -> "nonzero"
    [] OTHER -> "none"

ParseByteCount(predicate) ==
  IF Len(predicate) = 2 /\ predicate[1] \in CountPrefixes THEN predicate[2] ELSE -1

\* The predicate of the first text that names f, of those at the places telling.
FirstNaming(f, telling) ==
  LET naming == {k \in telling : ContractNameMatches(f, contracts[k].name)}
  IN IF naming = {} THEN <<"none">>
     ELSE contracts[CHOOSE k \in naming : \A j \in naming : k <= j].predicate

ConfiguredContract(f) ==
  ParsePredicate(FirstNaming(f, {k \in DOMAIN contracts :
                                   ParsePredicate(contracts[k].predicate) # "none"}))

ConfiguredByteCount(f) ==
  ParseByteCount(FirstNaming(f, {k \in DOMAIN contracts :
                                   ParseByteCount(contracts[k].predicate) # -1}))

\* is_global_context, is_std_context: extern "C" blocks are passed over, and
\* so are inline namespaces inside of std.
Contexts(f) == SelectSeq(f.scope, LAMBDA context : context # "linkage")
IsGlobalContext(f) == Contexts(f) = <<>>
IsStdContext(f) ==
  LET around == Contexts(f) IN
  /\ around # <<>> /\ around[Len(around)] = "std"
  /\ \A k \in 1..(Len(around) - 1) : around[k] = "inline"

\* A name of each group of the tables.
BuiltinByteCount(f) ==
  IF ~f.system \/ ~IsGlobalContext(f) THEN -1
  ELSE CASE f.name = "getrandom" -> 1
         [] f.name \in {"read", "write"} -> 2
         [] OTHER -> -1

BuiltinContract(f) ==
  LET either == IsGlobalContext(f) \/ IsStdContext(f) IN
  IF ~f.system THEN "none"
  ELSE CASE f.name = "malloc" /\ either -> "null"
         [] f.name = "getenv" /\ IsGlobalContext(f) -> "null"
         [] f.name = "fclose" /\ either -> "negative"
         [] f.name = "pthread_create" /\ IsGlobalContext(f) -> "nonzero"
         [] f.name = "open" /\ IsGlobalContext(f) -> "negative"
         [] OTHER -> "none"

\* byte_count_parameter_index, failure_contract
ByteCountParameterIndex(f) ==
  IF ConfiguredByteCount(f) # -1 THEN ConfiguredByteCount(f) ELSE BuiltinByteCount(f)

FailureContract(f) ==
  IF AnnotationContract(f) # "none" THEN AnnotationContract(f)
  ELSE IF ConfiguredContract(f) # "none" THEN ConfiguredContract(f)
  ELSE IF ByteCountParameterIndex(f) # -1 THEN "negative" ELSE BuiltinContract(f)

-----------------------------------------------------------------------------
\* The texts of the first files.
InFiles(files, kind) == Joined([k \in 1..Len(files) |-> Texts(files[k].lines, kind)])

\* All the user wrote, in the order main gives it precedence.
Written ==
  policy.options \o InFiles(policy.files, "contract")[Len(policy.files)]
    \o InFiles(policy.configs, "contract")[Len(policy.configs)]

\* "negative ... nonzero ... null ... annotations take precedence"
\* (README.md:264-268; tests/test_contract_policy.py:132-234): once the analysis
\* starts, every text the user wrote counts.  For a function it names, and that
\* no text before it names, it says what fails, or which argument is the count;
\* only an annotation precedes it.  No text is accepted here and lost there.
PolicyHeard ==
  phase = "set" =>
    \A k \in DOMAIN Written, f \in Declared :
      LET text == Written[k]
          counts == Len(text.predicate) = 2
          precedes(j) == /\ ContractNameMatches(f, Written[j].name)
                         /\ (Len(Written[j].predicate) = 2) = counts
          first == ContractNameMatches(f, text.name) /\ \A j \in 1..(k - 1) : ~precedes(j)
      IN first =>
           IF counts
           THEN /\ ByteCountParameterIndex(f) = text.predicate[2]
                /\ FailureContract(f) # "none"
           ELSE f.annotations = <<>> =>
                  FailureContract(f) =
                    (IF text.predicate = <<"non-zero">> THEN "nonzero" ELSE text.predicate[1])

\* A database that was found knows every source, as a build of each of them
\* would; one is found if any directory on the way has one; and if a directory
\* above the first source has one, that or a nearer one is taken
\* (tests/test_auto_compilation_setup.py).
NearestDatabase ==
  phase # "database" /\ ~HasExplicitDatabase /\ SourceFiles # {} =>
    LET covering(directory) ==
          {d \in {InRoot(directory)[p] : p \in 1..Len(InRoot(directory))} : Covers(d)}
        first(n) ==
          Upward(disk.arguments[CHOOSE k \in SourceFiles : \A j \in SourceFiles : k <= j].directory, n)
    IN /\ database = {} <=> \A k \in Starts, n \in Steps : covering(Upward(StartOf(k), n)) = {}
       /\ \A d \in database : Covers(d) /\ database = {d}
       /\ \A n \in Steps : covering(first(n)) # {} =>
            \E m \in 0..n : database \subseteq covering(first(m))
=============================================================================

-------------------------- MODULE VerificationGate --------------------------
(***************************************************************************)
(* The gate of the verify node (graph/verification.py, called at           *)
(* graph/nodes.py verify): what changed, which checks apply to the         *)
(* project, one shell command after the other, and what is made of each    *)
(* result.  On the host a command that runs out of time yields bytes where *)
(* the checks expect text; in the sandbox it fails inside the container.   *)
(*                                                                         *)
(* A command is known by how it ended.  What it prints is told apart only  *)
(* as far as the checks do.                                                *)
(*                                                                         *)
(* The names keep clear of those of HarnessGraph, so that one module can   *)
(* extend both.                                                            *)
(***************************************************************************)
EXTENDS Naturals, Sequences, SequencesExt, FiniteSets

CONSTANT Targets  \* of "test", "lint", "typecheck", "build": what a project may name

ASSUME TargetsAssumption == Targets \subseteq {"test", "lint", "typecheck", "build"}

VARIABLES
  project,  \* what is in the workspace, and what git says has changed
  place,    \* where the shell runs
  todo,     \* the checks left, in order
  failed,   \* the types of the checks recorded as failed
  wrong,    \* history: the types of the checks whose program found fault, was
            \* missing or ran out of time
  misread,  \* history: the types of the checks that can be taken for failed by what
            \* their command prints, though its program found no fault
  outcome   \* what the verify node records: "skipped" is recorded as passed, and
            \* nothing is when an exception has "escaped"

gateVars == <<project, place, todo, failed, wrong, misread, outcome>>
-----------------------------------------------------------------------------
\* The facts the discovery looks at.  Makefiles and justfiles have no target
\* that is looked for but test, lint and typecheck.
Recipes == Targets \ {"build"}
Projects ==
  [changed : SUBSET {"python", "frontend"},
   rootTests : BOOLEAN,   \* test_*.py or *_test.py at the root
   testsDir : {"none", "test", "tests"},
   pyproject : {"none", "plain", "dev"},  \* whether it has dev dependencies
   ruff : BOOLEAN,        \* pyproject.toml mentions ruff
   scripts : SUBSET Targets, make : SUBSET Recipes, just : SUBSET Recipes]

\* The members of a set in the order of preference.
Preferred(targets, runner) ==
  [i \in 1 .. Cardinality(targets) |->
     <<runner, SelectSeq(<<"test", "lint", "typecheck", "build">>, LAMBDA t : t \in targets)[i]>>]
When(condition, command) == IF condition THEN <<command>> ELSE <<>>

FromPythonTests(w) == When(w.rootTests, <<"python", "unittest">>)
FromPyproject(w) ==
  IF w.pyproject = "none" THEN <<>>
  ELSE When(w.pyproject = "dev" \/ w.testsDir = "tests", <<"python", "pytest">>)
       \o When(w.ruff, <<"ruff", "check">>)
FromPackageJson(w) ==
  Preferred(IF "frontend" \in w.changed THEN w.scripts ELSE w.scripts \cap {"test"}, "npm")
FromMakefile(w) == Preferred(w.make, "make")
FromJustfile(w) == Preferred(w.just, "just")

AllCommands(w) ==
  FromPythonTests(w) \o FromPyproject(w) \o FromPackageJson(w) \o FromMakefile(w) \o FromJustfile(w)

\* Mutant: the limit is forgotten.
EveryCommand(w) == AllCommands(w)
\* _discover_project_commands: the first four.
ProjectCommands(w) == SubSeq(AllCommands(w), 1, IF Len(AllCommands(w)) < 4 THEN Len(AllCommands(w)) ELSE 4)

TestSurface(w) == w.rootTests \/ w.testsDir # "none"
\* A check is known by its type.
Checks(w) ==
  (IF "python" \in w.changed THEN <<"ruff", "python_syntax">> ELSE <<>>)
  \o When(TestSurface(w), "test_collection")
  \o [i \in 1 .. Len(ProjectCommands(w)) |-> "project_command"]
CheckTypes == {"ruff", "python_syntax", "test_collection", "project_command"}
-----------------------------------------------------------------------------
\* How a command ends: without fault, finding fault, finding it only after 200
\* characters of output, its program missing, out of time with or without
\* output so far, or _run_shell raises.  A program that finds no fault may still
\* name an error at the start of what it prints (a file tests/test_errors.py),
\* or print what is not text.
Ends == {"clean", "fault", "late fault", "missing", "silent timeout", "timeout", "raises",
         "naming error", "undecodable"}
Faultless == {"clean", "raises", "naming error", "undecodable"}
Timeouts == {"silent timeout", "timeout"}

\* Python itself is there.
EndsOf(check) == IF check = "python_syntax" THEN Ends \ {"missing"} ELSE Ends

\* _run_shell gives bytes for the output of a command it has cut off.
Bytes(end) == place = "host" /\ end = "timeout"

\* The command of the block fails on output that is not text: _sandbox_shell
\* then has its traceback for a result, with return code 1 and no output.  On the
\* host _run_shell raises.
Undecodable(end) == place = "sandbox" /\ end = "undecodable"

\* What can be taken for a failure though no program found fault.
Misreads(check, end) ==
  Undecodable(end) \/ (check = "test_collection" /\ end = "naming error")

\* Mutant: only silence is taken for a pass.
RuffOutcomeOfSilence(end) == IF end \in {"silent timeout", "raises"} THEN "pass" ELSE "fail"

\* What each check makes of the end of its command: it passes, it fails, or an
\* exception leaves it.  "|| true" hides the exit status of the first three.
RuffOutcome(end) == IF end \in {"fault", "late fault", "missing"} THEN "fail" ELSE "pass"

SyntaxOutcome(end) ==
  CASE end \in Timeouts \/ Undecodable(end) -> "fail"
    [] end \in {"raises", "undecodable"} -> "raise"
    [] OTHER -> "pass"

\* The collection fails on the word error in the first 200 characters.
CollectionOutcome(end) == IF end \in {"fault", "naming error"} THEN "fail" ELSE "pass"

\* Mutant: a command that ran out of time is passed over.
CommandOutcomeInTime(end) ==
  CASE Bytes(end) -> "raise"
    [] end \in {"fault", "late fault", "missing"} \/ Undecodable(end) -> "fail"
    [] OTHER -> "pass"

\* A project command passes by its exit status; one that cannot be run passes.
CommandOutcome(end) ==
  CASE Bytes(end) -> "raise"
    [] end \in Faultless /\ ~Undecodable(end) -> "pass"
    [] OTHER -> "fail"

Outcome(check, end) ==
  CASE check = "ruff" -> RuffOutcome(end)
    [] check = "python_syntax" -> SyntaxOutcome(end)
    [] check = "test_collection" -> CollectionOutcome(end)
    [] OTHER -> CommandOutcome(end)

\* The verify node around the gate: on the host every exception is a skipped
\* verification, in the sandbox a SandboxError is and others leave the node.
Excuses == IF place = "host" THEN {"skipped"} ELSE {"skipped", "escaped"}
-----------------------------------------------------------------------------
\* _detect_changed_files: git may fail, and then nothing has changed.
GateInit ==
  /\ project \in Projects /\ place \in {"host", "sandbox"}
  /\ todo = Checks(project)
  /\ failed = {} /\ wrong = {} /\ misread = {} /\ outcome = "none"

RunCheck(end) ==
  /\ outcome = "none" /\ todo # <<>> /\ end \in EndsOf(Head(todo))
  /\ wrong' = IF end \in Faultless THEN wrong ELSE wrong \cup {Head(todo)}
  /\ misread' = IF Misreads(Head(todo), end) THEN misread \cup {Head(todo)} ELSE misread
  /\ \E o \in {Outcome(Head(todo), end)} :
       /\ todo' = Tail(todo)
       /\ failed' = IF o = "fail" THEN failed \cup {Head(todo)} ELSE failed
       /\ IF o = "raise" THEN outcome' \in Excuses ELSE UNCHANGED outcome
  /\ UNCHANGED <<project, place>>

Conclude ==
  /\ outcome = "none" /\ todo = <<>>
  /\ outcome' = IF failed = {} THEN "passed" ELSE "failed"
  /\ UNCHANGED <<project, place, todo, failed, wrong, misread>>

GateStep == Conclude \/ \E end \in Ends : RunCheck(end)
GateOver == outcome # "none" /\ UNCHANGED gateVars
GateNext == GateStep \/ GateOver
GateSpec == GateInit /\ [][GateNext]_gateVars
-----------------------------------------------------------------------------
\* The types, and that no more than seven checks are run, whatever the project
\* names.
GateTypeOK ==
  /\ project \in Projects /\ place \in {"host", "sandbox"}
  /\ Len(todo) <= 7 /\ failed \cup wrong \cup misread \subseteq CheckTypes
  /\ outcome \in {"none", "passed", "failed", "skipped", "escaped"}

\* The gate passes only if no project command found fault, was missing or ran
\* out of time.
PassedIsEarned ==
  outcome = "passed" => "project_command" \notin wrong

\* When the gate fails, every check it records as failed is one whose program
\* found fault, ran out of time or is not there; or it is the collection, which
\* an error named by a clean one fails too; or its command printed in the sandbox
\* what is not text.
FailedIsDeserved == outcome = "failed" => failed \subseteq wrong \cup misread

-----------------------------------------------------------------------------
\* What the code says and does not do: the gate passes only if "all changed .py
\* files compile".
ChangedFilesCompile == outcome = "passed" => "python_syntax" \notin wrong
=============================================================================

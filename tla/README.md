# tlaiser in TLA+

tlaiser reads state machines from a manifest (`tlaiser.toml`), checks them, and
writes TLA+ specifications, PlusCal algorithms, TLC configurations and run
scripts. Beside the Rust program the repository has a Zig library with a C
interface and an Idris2 development of that interface. This directory models
the parts that make decisions, checks the models with TLC, and proves about
them with TLAPS.

    tlc -config MCWorkflow.cfg MCWorkflow  one of the runs below
    tlapm ParserProofs.tla                 one of the proof modules

Paths below are relative to `src/src/` unless they say otherwise.

## 1. Inventory

| Part | Code | State it keeps | Operations | What makes it hard |
|---|---|---|---|---|
| Manifest | `manifest/mod.rs` | the file `tlaiser.toml` | load, validate, init, info | init tests and then writes |
| Machine checks | `codegen/parser.rs`, `abi/mod.rs` | adjacency, visited set, queue of one search | validate_state_machine, check_reachability | cycles, dangling targets, order of the checks |
| TLA+ generator | `codegen/tla_gen.rs` | the text written so far | eleven sections | textual scan for primes, names that meet |
| PlusCal generator | `codegen/pluscal_gen.rs` | the text written so far | algorithm, transitions, properties | statements in sequence against conjuncts at once |
| Configuration and script | `codegen/tlc_gen.rs` | the text written so far | generate_tlc_cfg, generate_run_script, tlc_command | must name what the module defines, pass the options on |
| A script or a printed command in use | text of `generate_run_script` | what TLC has read | find the tools, start TLC | files of another generate, missing or half written |
| Command line, driver | `main.rs`, `codegen/mod.rs` | output directory | init, validate, generate, build, run, info | writes that fail or overlap, stale manifests |
| FFI engine | `interface/ffi/src/main.zig` | engines, heap, thread-local error | init, free, add, generate, run, get, last_error | ownership, threads, failed allocations |
| Idris2 semantics | `Semantics.idr`, `Invariants.idr` | locations and lock of two processes | request, acquire, release | an invariant that must be inductive without another |
| Idris2 layouts | `Layout.idr` | a vector of fields | verifyLayout, checkCABI | offsets and padding by hand |

How they interact: the command line loads the manifest, calls the checks on every
machine and then, machine by machine, the three generators and `fs::write`.
Invocations share only the file system, with each other and with the shells in which
the user runs the scripts they leave. A client of the FFI shares engines
between threads; errors are per thread, strings change owner. The Idris2
modules describe the same interface but are not linked with the Rust program.

What makes each part right is said by the properties of section 4; what is hard
to test is in `PROJECT.json` under `hazards`.

## 2. Modules

| Module | Models | Composition |
|---|---|---|
| `Parser` | the machine checks of one machine, loop iteration by loop iteration | |
| `Validation` | how validate and generate judge a whole manifest: the loops over machines and properties, one call of `Parser` after the other | EXTENDS `Parser`, refines the decisions of `Cli` |
| `Cli` | the commands over one project directory | the verdict of a machine is a field; `Validation` says which |
| `Workflow` | the same project in use: shells run the scripts and the printed commands while invocations write | EXTENDS `Cli` |
| `GenSpec` | what the generated TLA+ module means | abstract specification of `GenPlusCal` |
| `GenPlusCal` | what the generated PlusCal algorithm means | EXTENDS `GenSpec`, refines its `Spec` |
| `Artifacts` | what the generated text declares, defines and names, and the command of the run script | |
| `Engine` | the exported functions of the FFI | |
| `CriticalSection` | at most one process inside (abstract) | |
| `Mutex` | the transition relation of `Semantics.idr` | refines `CriticalSection` |
| `Layout` | layout arithmetic, verifyLayout, checkCABI | |

`MC*` modules give the inputs for TLC (`GenSamples` those of both generators);
`*Proofs` modules hold the theorems. `Mutex` is small enough to be run as it is.
Operators named *Slip* in a comment (`VisitUnmarked`, `AcquireAnyway`, ...) are
not part of a specification: each is what a definition would be with a
plausible mistake in the code, and shows that a property notices it.

### How the modules read the code

**Parser.** `pc` is the statement `validate_state_machine` has reached.
`Structural` is `StateMachine::validate`, `Identifiers` the calls of
`validate_tla_identifier` (which strings pass is the constant `LegalNames`),
`Link` one iteration of the loop that builds the adjacency map, `Seed`,
`PopOldest` and `Visit` the search with its `VecDeque` and the `insert` that guards
it, `Report` the comparison with the declared states. The `HashMap` is a total
function whose default is the empty sequence; the search asks it with `if let
Some`, so the two are the same to it.

**Validation.** `Project`, `MachineLoop` and `PropertyLoop` are `manifest::validate`, one turn
of a loop per step; `MakeDir`, `Deep`, `NextMachine` and `Return` are the directory and the
first loop of `generate_all`. `Call` is the call of `validate_state_machine`: every local variable
is new, which is what keeps one machine's search from leaking into the next.
`to_abi` is `StateMachineConfig::to_abi`. `CliPc` and `JudgedManifest` map all of it to one
invocation of `Cli`: `FollowsCli` is that step refinement, so the verdicts `Cli` and `Workflow`
start from are the ones this code computes.

**Cli.** One process per invocation. `Load`, `Validate`, `MakeDir`, `Check` (the loop
that validates all machines before the first write), then `Open` and `Fill` for
each of the four files of each machine. `fs::write` truncates (`Open`) and then writes its text
from the start at an offset of its own, in one write or several (`FillPart`, the last is `Fill`). So a file is
a sequence of pieces: `FileOf` is one text as it should be, `Put` what a write makes of a file,
and two writers of one path can leave the tail of the longer text behind the shorter one, or
a gap (`Hole`). A piece is reduced to which artifact of which machine it is from; in how many pieces a text
is written is the constant `Length`. `Stop` is a killed process or an error that `?` hands up; both leave the
same files. `Edit` is external: the user saves another manifest in one step, over the one that is there
or where there is none. That the user deletes the manifest is not modelled. `init` is `Exists`,
`Create`, `WriteTemplate`, the manifest written in pieces too; what `Load` makes of a torn manifest is
any outcome. `run` loads and prints; `build` and `info` load and print what
nobody reads on ("show").

**Workflow.** `WOpen`, `WFinish`, `WExists`, `WCreate`, `WEdit`, `WWork` are the actions of `Cli` with history variables
(`owner`, `good`, `clean`, `late`) that no guard reads; `late` holds the inits that another init or the user
has overtaken since they found no manifest. A shell runs a script (`RunScript`, `FindTools`)
or a command that `tlaiser run` printed (`RunPrinted`); bash reads so short a script at once.
A script that is torn (`Torn`: neither empty nor one text) does nothing, fails, or gets as far as a machine it
has a piece of; that one cut inside its TLC command line names some other file is not modelled.
TLC is external and appears as the two reads it makes, configuration first, each of the
file as it is at that moment: generate may open it in between. A torn file it may refuse or read.

**GenSpec, GenPlusCal.** A guard is the set of configurations in which it holds, a
right-hand side a function of the configuration: the generators do not evaluate
them. The form of a conjunct is what they look at:
`x' = e`, `x ' = e`, `x' \in S`, or no prime. And the PlusCal generator splits an action at every `/\`
(`codegen/pluscal_gen.rs:233`), also at one inside a right-hand side: `head` is what stands before the first of them.
The head of `(a /\ b)` is `IllFormed`, and the translator of PlusCal, which is external, refuses the algorithm
(`Translatable`, "refused"); a head that happens to be an expression is assigned in place of the whole. `Action` is the operator
`generate_transition_actions` writes, with the `UNCHANGED` computed by
`extract_primed_vars`. A PlusCal iteration is `Choose` (the awaits and
`state := to`), one `Statement` per conjunct, and `EndWhile`; `Skip` is the branch of
states with no transition. `PFairSpec` is the meaning of `--fair algorithm`. The working copy `new` becomes `cfg` at the label, the
only point other processes could see.

**Artifacts.** Names are sequences of characters, where a word that occurs only
whole (`Init`, `Trans_`) is one character. One action per section of
`generate_tla_spec`, each appending what it defines and what its text mentions;
then the PlusCal module, the configuration and the command line of the run script. The
three `sanitize_*` functions are translated separately because they differ. `TlcConfig` is what
serde makes of the `[tlc]` table: a missing key gets its default, an unknown key is dropped.
How TLC reads the command (`IsValue`, `Setting`, `Modules`) is part of the property `CommandIsRead`.

**Engine.** One action per exported function that changes state: init and free, the
calls that only check and report (`CallPlain`), `RunTlc`, the two adds, the three
calls that return a string, `FreeString`. `heap` holds blocks, so that a leak is a
block nobody owns. Allocation may fail wherever the code has an error path for
it; where a copy for the caller cannot be made the function returns null and
changes nothing. Clients keep to the interface: they pass null or a live handle and free
a string once. `get_*` functions that only read and the version strings have no
action. `RegisterCallback` tests for the null callback before it looks at the handle's state, `CheckOnly`
the other way round. Two calls on one handle never overlap: the code has no lock around
its lists, so this is asked of the clients, and only calls on different engines and the
errors of different threads interleave.

**Mutex.** `Process` gives P0 and P1, and `HeldBy0`/`HeldBy1` are the lock holding a
process. `Reachable` is an inductive type, so its values are derivations:
`derivation` is the list of states below `st`. Where the Idris2 code pairs two
constructors for the two processes, the model has one action with a parameter.

**Layout.** `Size` calculates, `Add` and `Choose` are the vector sum and its comparison, one field per step,
`Multiple` is the second decision of `verifyLayout`; `Look`
and `Comply` are the recursion of `decFieldsAligned` for `checkCABI`. The layouts of the
interface carry totals written by hand (`stateSpaceLayout`, `traceStepLayout`, `modelCheckRequestLayout`):
they start at "sum" with that total, as `MkStructLayout` asks of it what `verifyLayout` decides of a
calculated one. `decDivides` answers no for a divisor of zero (`Layout.idr:46`); `Callable` admits an alignment of zero wherever
`mod` is not called with it. The two folds of
`calcStructSize` are written as what they return: the right fold ignores its
accumulator and so ends at the head of the tail, which is the second field.

## 3. Bounds

| Run | Bounds | Why they are enough |
|---|---|---|
| validation | machines over 4 names, one illegal; up to 2 transitions (`MaxAny`) if the machine may be malformed, up to 4 (`MaxSound`) if it is structurally sound; manifests of up to 3 machines of every verdict and reason; property lists of every fault | every kind of fault alone and two together; three states and four edges give every cycle, fork, duplicate and unreachable part the search distinguishes; with three machines a fault is first, in the middle or last, and a later one may hide behind it |
| workflow | 2 invocations, 1 shell, 2 starts (`MaxStarts`), 1 edit (`MaxEdits`), 5 manifests of up to 2 machines, texts of 1 to 3 pieces (`MCLength`) | two starts give a run that stops half way and a run over its wreck, two overlapping runs, two overlapping inits, and a generate while a script reads; the edit gives two different manifests between them, or a manifest where init has found none. Where two artifacts share a path, and template and manifest share theirs, each text is once the shorter and once the longer one or of equal length, so a tail, a mix and a gap all occur. The theorems of `CliProofs` hold for any number of each. The invocations are interchangeable, and with safety and action properties only, symmetry in them is sound |
| generated_spec, pluscal, pluscal_swap | 2 states, 2 variables, 2 values, actions of at most 2 conjuncts | a conjunct can read, repeat or precede another, no more relations exist between two |
| artifacts, artifacts_level, artifacts_options | up to 2 transitions with 9 labels, 2 properties with 5 names of 3 kinds; every `[tlc]` table over 4 keys with up to 3 extra flags | a clash needs two names; three flags give a flag with its value and another before or after it |
| engine | 2 threads, 2 handles, 2 strings, 2 properties per list | another thread, another engine, and a list that is grown after its first block; threads, handles and strings are interchangeable and symmetry is declared |
| mutex | 12 steps of a derivation (`MaxSteps`) | every process goes round more than once |
| layout, layout_exact | interface layouts of 0 to 4 variables (`NumVars`), every layout of 1 to 3 fields placed as C does with sizes 1 to 8, every vector of up to 2 fields with offsets 0, 3, 4, sizes 0, 3, 4, alignments 0, 1, 2, 4 in layouts of alignment 0, 1, 4 | overlap, disorder, misalignment, and each of them at the second field; alignment zero wherever the code does not divide by it |

No bound is a property of the code; in `Validation`, `GenSpec`, `GenPlusCal`, `Artifacts` and
`Layout` the bound is only the set of inputs, and each input is run to its end.
`CHECK_DEADLOCK FALSE` is set in every run: a validation, a generation or a decision ends,
a machine may have no transition left, a bound on starts or steps may be
used up.

## 4. Runs

| Run | States | What it shows |
|---|---|---|
| validation | 191 016 | `VerdictCorrect`: accepted is exactly well formed and all states on a path from the initial one, with paths defined without a search; and this for each machine of a manifest in turn. `ReportExact`: the error names exactly the unreachable states. `NeverRequeued`: `insert` keeps a name from coming back. `OnlyDeepFaults`: what generate rejects after validate accepted is an identifier or an unreachable state. `BlamesFirst`: the machine an error names is the first at fault. `FollowsCli`: the loops decide what `Cli` decides in one step. `Ends`, under fairness. |
| workflow | 1 011 932 | `OnlyAcceptedOnDisk`: whatever is in an output file, and even where two invocations have mixed their texts, each piece is of an accepted machine that has this path. `ScriptLast`, `RejectedTouchesNothing` with two invocations interleaved at every step. `SuccessIsComplete`: a generate that wrote alone and ended well leaves at every path the artifact of the last machine that claims it, over whatever earlier runs left. `CheckedIsAccepted`: whatever the races, TLC never reads a piece of a machine that was not accepted or of another path's file, and what it reads as one text is the right kind for the machine named. `CleanRunIsCoherent`: after such a generate, module and configuration come from the same machine. `ManifestSurvives`: a manifest that is there stays as it is, except for the user and for an init that was overtaken. `MovesOn`. |
| generated_spec | 6 886 | `StepsAreTransitions`: nothing but declared transitions. `GuardedIsEnabled`: no UNCHANGED blocks an assignment. `MovesAlong`: under the generated `FairSpec` a state that can be left is left. |
| pluscal | 3 482 | `Specification`: on independent assignments the algorithm refines `GenSpec!Spec`; `FairSpecification`: the fair algorithm refines `GenSpec!FairSpec`, so liveness carries over; `BodyMatches`: an iteration ends in exactly the configuration the TLA+ action allows. |
| pluscal_swap | violation | see findings |
| artifacts | 147 574 | `DefinedBeforeUse` for every machine; for names that stay apart (`Apart`): one definition per name, `Next` has each transition once, the configuration names only what is defined; `ConfigIsComplete`, `SameProperties`; `CommandIsRead`: whatever complete flags the manifest adds, TLC starts on the machine's files with the settings asked for. |
| artifacts_level, artifacts_options | violation | see findings |
| engine | 5 193 | `ErrorIsOwn`, `HeapIsOwned`, `StringsAreHeld`, `FailureChangesNothing`, `LiveIsInitialized` |
| mutex | 2 185 | `SafetySound`, `CombinedOnReachable`, refinement of `CriticalSection` |
| layout | 16 683 | `CoversFields`: without overlaps no field sticks out and the size is never refused. `SizeIsMultiple`, `VerdictExact`, both saying what becomes of alignment zero. `InterfaceComplies`: each layout of the interface passes every check, with the total written by hand and with the calculated one, and its fields fill the written total without a gap. |
| layout_exact | violation | see findings |

### Fairness

- `VFairSpec` has `WF` of the whole next-state relation: a command is one sequential thread
  that waits for nothing.
- `FairSpec` of `GenSpec` is not an assumption but part of what is modelled: `generate_spec` writes
  `WF_vars(Next)`. It is fairness of `Next` as a whole, so a loop may be taken for ever in
  place of a way out; that is why `Departs` asks that every transition leave the state.
- `PFairSpec` is what `--fair algorithm` means. PlusCal puts `WF` on the iteration, which is one
  atomic step. Here an iteration is many steps and begins with the choice of its
  branch. A choice is disabled while a body runs, so weak fairness of the choice would not oblige the algorithm ever to take one that
  changes something; `SF_pvars(ChooseChange)` does. With `WF` alone TLC finds an algorithm that
  runs empty iterations for ever.
- `Workflow` states no fairness. That a command comes to its end is `MovesOn`, a measure that every
  step of the command makes smaller whatever others do, and this needs no assumption on scheduling.
- Engine, mutex and layout have nothing that must happen.

### Findings

1. `pluscal_swap`: the PlusCal output assigns `state` first and then variable after
   variable (`codegen/pluscal_gen.rs:181`), where the TLA+ action reads only old
   values. An exchange of two variables means different things in the two outputs,
   which `codegen/mod.rs:24` calls equivalent. `pluscal` and its proof state the condition
   under which they are: every conjunct an assignment, none reading the state or a
   variable assigned before it, none with a conjunction on its right-hand side (`Independent`).
2. `artifacts_level`: safety properties are configured as `INVARIANT`
   (`codegen/tlc_gen.rs:66`) but defined as `[](formula)`, which TLC refuses there.
3. `artifacts_options`: the template of `init` writes `max-states` (`manifest/mod.rs:309`), the field is
   `max_states` (`abi/mod.rs:327`) and is not renamed for serde. The key is ignored, and the limit every new
   manifest sets reaches no command.
4. `layout_exact`: `calcStructSize` adds the offset *after* the last field to the size of
   the *second* field (`Layout.idr:101`). Two 8-byte fields get 24 bytes. What the
   result still guarantees is `CoversFields` and `SizeIsMultiple`.

### Where the other properties stop

Preconditions in the properties above mark behaviour worth knowing:

- `Artifacts!Apart`: nothing in the parser checks that labels, properties, states and variables stay
  distinct after `sanitize_identifier`, so two transitions with one label define one
  operator twice (`codegen/tla_gen.rs:184`).
- `LettersFirst`: a property whose name begins with a digit or a sign is `Action_...` in the
  module (`codegen/tla_gen.rs:362`) and `Prop_...` in the configuration
  (`codegen/tlc_gen.rs:240`).
- `OnlyAssigns` asks for the form `x' = e`. With a blank before the prime,
  `extract_primed_vars` misses the variable and puts it under `UNCHANGED`.
- `Independent` also excludes conjuncts that are no assignments: PlusCal gets them as
  comments (`codegen/pluscal_gen.rs:253`). And it excludes `/\` on a right-hand side: the text is cut there
  (`codegen/pluscal_gen.rs:233`), `flag' = (a /\ b)` becomes `flag := (a;`, which no longer parses, and
  `flag' = IF c THEN a ELSE a /\ b` becomes an assignment of something else.
- `LastClaim` in `SuccessIsComplete`: two machines of one name, or one named like another's
  PlusCal module, share files, and the later write wins (`codegen/mod.rs:49`).
- `late` in `ManifestSurvives`: the test of `manifest/mod.rs:257` and the write of `:312` are two steps. A
  manifest that another init or the user puts there in between is overwritten, so one init
  is enough to destroy one.
- Two generates that overlap may leave a file that is the text of neither (`codegen/mod.rs:50`).
  `OnlyAcceptedOnDisk` and `CheckedIsAccepted` speak of its pieces; that a file is one text is claimed only
  where one invocation wrote alone (`SuccessIsComplete`, `CleanRunIsCoherent`).
- `EntryResolves` in `ConfigResolves`: two kinds of entries are refused by TLC, a safety property under `INVARIANT`
  (finding 2) and the `SYMMETRY` expression (below). Of these the property says only that their names are defined.
- Alignment zero: `decDivides` answers no for it (`Layout.idr:46`) also where `Divides 0 0` is
  inhabited. So a lone field of offset and alignment zero is reported misaligned, and `verifyLayout [] 0` says its
  size is no multiple (`VerdictExact`, `SizeIsMultiple`).
- `clean` in `CleanRunIsCoherent`: a script that runs while generate rewrites its files may give TLC
  the configuration of one generate and the module of another. A machine that has left the manifest
  keeps its files, so its script still runs on what they say. A truncated script does nothing
  and exits with 0.
- `Complete` in `CommandIsRead`: a flag of `extra_flags` without its value takes `-config` for it.
- `Departs` in `MovesAlong`: see fairness.
- `build` and `run` write no file; the quick start that offers
  `tlaiser build && tlaiser run` as the whole workflow (`src/README.adoc:150`) leaves no specification.
- `StringsAreHeld` is about clients of the C interface. The Idris2 wrapper `lastError`
  (`Foreign.idr:304`) drops the pointer it got without freeing it.

Smaller disagreements between text and code, met on the way and not made into runs:

- `run` documents "Additional arguments passed to TLC" (`main.rs:65`) and ignores them (`codegen/mod.rs:102`).
- `max_states` is documented as the number of states to explore (`abi/mod.rs:325`) and becomes
  `-maxSetSize` (`codegen/tlc_gen.rs:165`), the largest set TLC will enumerate.
- `workers` is documented to default to the number of CPUs (`abi/mod.rs:322`) and defaults to 4.
- The template compares `state` with strings (`manifest/mod.rs:298`) where the module's states are constants, which the configuration
  makes model values. It has three states and two properties where the comment on
  `init_manifest` promises two and one (`manifest/mod.rs:253`).
- `codegen/mod.rs:24` and `:26` announce `.pcal` and `run_tlc.sh`; the files are `{}PlusCal.tla` and `run_tlc_{}.sh`.
- The `SYMMETRY` entry is an expression where TLC takes a name (`codegen/tlc_gen.rs:89`); and as
  `Init` fixes one state, the states are not interchangeable in the first place.
- `modelCheckRequestSize` (`Types.idr:491`) says 36 where the layout of the same structure
  ends at 48; `HasSize` carries no obligation.
- `tlaiser_run_tlc` returns ok and leaves `not_run` (`interface/ffi/src/main.zig:337`), which `Types.idr` does not list.

## 5. Proofs

Theorems hold for every value of the constants that satisfies the named
assumption of the module; no other assumption is made.

**ParserProofs** (`TypeCorrect`, `VerdictIsCorrect`, `ReportIsExact`,
`SearchIsConfined`, `NothingIsRequeued`,
`ValidatorMovesOn`). `VerdictCorrect` is not inductive: it speaks of the end. `IInv` adds what
each phase may rely on (`Phases`), that `adjacency` is exactly the transitions read so
far (`Linked`), that a visited name out of the queue has all its targets visited or
pending (`Frontier`), and that nothing visited is unreachable. With an empty
queue `Frontier` says that the visited set is closed, so it holds every reachable state.
`ValidatorMovesOn` is what termination rests on: three natural numbers that fall in the lexicographic
order with every step. In the search the first that moves is the states not yet visited plus the names still queued: a
name enters the queue only as it leaves the former, which is what `insert` is for.

**ValidationProofs** (`EveryVerdictIsCorrect`, `EveryReportIsExact`, `NoCallRequeues`, `DeepFaultsOnly`, `BlameIsRight`,
`LoopsFollowCli`, `CommandMovesOn`), for manifests of any length. `VInv` joins the `IInv` of the current call with what the
loops have behind them: `Shallow` (all machines before `at` are structured, all of them once the loop is
over) and `DeepPass` (all machines before `at` are sound, and `sm` is the one at `at`). A step of the call is a step of
`Parser`, so its lemmas are cited; a call starts from new locals, so `IInv` holds again
(`StartedIInv`). `LoopsFollowCli` then shows every step a step of `Cli`'s action or a stutter: at a
decision `Shallow` or `DeepPass` says what the loop has found out. `CommandMovesOn` puts the loops to
come and the turns of the present one before the measure of the call.

**CliProofs** (`OutputIsAccepted`, `ScriptIsLast`, `RejectedIsHarmless`; `WorkflowIsCli`, `OnlyAcceptedIsChecked`,
`EveryInvocationMovesOn`, `SuccessLasts`, `CleanRunsAreCoherent`, `InitDestroysNothing`), for any number of invocations, shells, starts and edits. An invocation
that writes has validated the machines it loaded, whatever the manifest is by now,
and has created the earlier files of the current machine (`Phases`). Files are never
removed and a write adds only a piece of its own text (`Put`), which is why the claim survives the steps of other invocations, mixed files included. `WorkflowIsCli` says that the
steps of `Workflow` are steps of `Cli` or leave its variables, so `IInv` holds there too; `WInv` adds
`ShellsOK`, what a shell at each point has read, and what it has read stays accepted even
when the file has changed since. `HInv` carries the histories: while one invocation alone writes (`Owned`),
nobody else has a file open, and every file it has finished is in place
unless a later one it has opened claims the same path (`Complete`); at its good end that is
`SuccessIsComplete`, and `GoodStays` until the next file is opened. A clean shell reads
under a directory that is good. `OneInit`: while an init that has found no manifest
is not overtaken, there is none, or nothing but pieces of the template in it.

**GenProofs** (`TypeInvariantHolds`, `OnlyDeclaredSteps`, `NothingIsBlocked`; `PlusCalBodyIsEquivalent`,
`PlusCalImplementsSpec`). The first three hold for every accepted machine: that a guarded
transition is not blocked is shown by giving the next configuration, the
assigned variables by their right-hand sides and the others as they were. The last two are for machines whose
actions are independent. `BodyInv`: the conjuncts executed so far have their
right-hand side *of the old configuration* (whole, as it has no conjunction in it), all other variables are unchanged.
A statement keeps it because its right-hand side reads nothing assigned before. The
last statement gives `Action`, so `EndWhile` is a step of `Next` and the others stutter.

**ArtifactsProofs** (`NamesComeFirst`; `NamesAreUnique`, `NextNamesEveryTransition`, `ConfigurationResolves`,
`ConfigurationIsComplete`, `PropertiesAgree`, `TheCommandIsRead`), for machines of any size, names of any
characters, and any number of added flags.
`DefinedBeforeUse` is inductive only with `Progress`: which names the text has defined by the time
a section is reached. Each section mentions what `Progress` gives it, or an earlier item of its
own (`FairSpec` mentions `Spec`); `Written` is the lemma on appending such a section.
The other six need to know the text, not only its order. `WritingInv` says that after *k* sections the text is the
items of those *k* (`Sections`), the PlusCal module, configuration and command are what the generators
return of the input once their turn has come, and that the text so far is unambiguous. A new section keeps the
last because of three kinds of names: words the generator uses whole, names made up from `Trans_` and
two states, and the user's, which begin with no such word (`UserNamesAre`, `MadeUpNames`, `NamesAreApart`).
The filter of the configuration and TLC's reading of flags (`Only`, `IsValue`) are recursive functions on the length of a
sequence. That such a function exists, and what it returns, is shown by the least number at which it would
fail (`NatSetInduction`, `SeqSetInduction` with sets in place of predicates). The command ends in
`-config X.cfg X.tla`; added flags that are complete leave the reader between two words, so the
words behind them are read as if they stood alone (`ReadAlike`).

**EngineProofs** (`ErrorTheorem`, `InitializedTheorem`, `HeapTheorem`, `StringTheorem`,
`FailureTheorem`). The named invariants are inductive together: that a live handle is
initialised is what rules out one of the error codes.

**MutexProofs** (`SafetyTheorem`, `CombinedTheorem`, `HolderTheorem`, `ImplementsTheorem`). Safety
is not inductive, coherence of lock and locations (`Inv`) is. `HolderTheorem` starts from
every state in which `HolderCrit` holds (`HolderSpec`), reachable or not, as `holderIsInductive`
does.

**LayoutProofs** (`DecidesDivides`, `AlignUpDivides`, `CoversTheorem`, `MultipleTheorem`, `VerdictTheorem`,
`InterfaceTheorem`). `AlignUpDivides` is the general fact that the comment on `alignUpDivides`
says needs lemmas about division and that the Idris2 code decides case by case.
`DecidesDivides` is for every divisor but zero, and says what is answered for zero. The invariant of the loops:
the sum of the sizes passed is at most the end of the last field passed if none overlap, and equal to it where
they leave no gap. So a size that covers the last end is never refused, and
the written totals, each the end of the last field, are met exactly.
`InterfaceTheorem` is for any number of variables, and for the layout of the request too.

**Assumed of the inputs.** `ArtifactsAssumption` and `InputsAssumption` say what the earlier passes have
established: states and variables are identifiers (`codegen/parser.rs:56`), the initial state is declared, no
property has an empty name (`manifest/mod.rs:232`), the added flags are a sequence of words. And they say
that the operators of the library modules are identifiers that begin with no word of the
generator. Labels and properties may have any characters.

**Only model-checked.** Of the properties of the passing runs, `Ends`, `MovesAlong` and `FairSpecification`: liveness and
refinement of fairness are out of the prover's reach. What can be proved of `Ends` is `CommandMovesOn`, so only
that a next step is taken rests on fairness. All other properties of passing runs are stated by a theorem.

## 6. Not modelled

- TOML parsing, formatting of comments and headers, log output: no property is about them.
- `find_nondeterministic_states` and `generate_analysis_summary`: nothing in the program calls
  them. `print_info` and `build` only print.
- `ModelCheckResult` and its parts (`abi/mod.rs`): the program never constructs one, as
  nothing of it runs TLC or reads what TLC says.
- `FfiSeam.idr`, `Types.idr`, `Foreign.idr`, `Proofs.idr`, `Capstone.idr`: a table of eight result codes with its
  inverse, types, declarations of foreign functions, and bundles of the theorems `Mutex` and `Layout` are
  about. Nothing in them changes state, and Idris2 checks the table entry by entry.
- The engine keeps the pointers it was given as property names. Nothing reads them yet, so no
  step could see one that dangles.
- TLC itself is external. In `Workflow` it is the two reads it makes.
- `build.zig`, hooks, CI workflows, containers.

## 7. What would come next

The modules above cover the decisions the code makes today. When the program starts TLC by itself
(`codegen/mod.rs:100`, `interface/ffi/src/main.zig:328`), the reading of its output and the life cycle of that
process belong between `Workflow` and `Engine`, and `ModelCheckResult` gets a module of its own.

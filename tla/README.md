# Verification of kubeka

kubeka runs jobs that are written as nodes in text files. Some nodes are
entrypoints: their workflow is run once (`[entrypoint]` with `-j`) or again and
again by a thread of the daemon (`[periodic]`). A workflow is a tree: a node
has `JOBS[]`, that are run in sequence, or `EMITS[]`, signals other nodes handle,
or `EXEC[]`, shell commands. When a job fails, it and the jobs before it are
rolled back with their `ROLLBACK[]` commands.

This directory holds TLA+ modules of the parts whose correctness depends on
order, concurrency or failure, the configurations TLC checks them with, and
proofs TLAPS checks. The reference is the C code in `src/kubeka/src/`; `PROJECT.json`
has, for every definition that models code, the lines it stands for.

## 1. The system

| Part | Source | State | Operations |
|---|---|---|---|
| Workflow execution | `kbbi.c` 68-225 | the C stack of `kbbi_run`, each call's `ret`, loop indices, `*nwarnings` | `kbbi_launch`, `kbbi_run`, `kbbi_rollback` |
| Periodic thread | `kbbi.c` 286-415 | `struct thread_t`: `completed`, `retcode`; local counter, `nerrors`; the timer | `th_periodic`, `kbbi_thread_launch` |
| Interval timer | `kbperiod.c` | unit, count, expiry | `kbperiod_parse`, `_remaining`, `_reset` |
| Daemon | `kubeka.c` 48-54, 598-666 | `g_endloop`, `threads[]`, `trees` | `main` after instantiation, `sigh` |
| Instantiation | `kbnode.c` 131-442, 1079-1097; `kubeka.c` 488-514 | the stack of `node_instantiate`, the runtime nodes, `*errors` | `node_instantiate`, `node_find_dependent_jobs`, `node_del` |
| Command execution | `kbexec.c` | processes, pipes, directories | `kbexec_shell`, `spawn_child` |
| Evaluation | `kbtree.c` 129-325, `kbbi.c` 227-284 | symbol tables, environment | `kbtree_eval`, `resolve`, `exec_builtin` |
| Lint and pipeline | `kubeka.c` 400-597, `kbtree.c` 41-127, `kbnode.c` | the node list, counts of errors and warnings | read, coalesce, check, decide |
| Symbol table | `kbsym.c`, `kbutil.c` | for every node a map from names to arrays of strings, allocated and freed by hand | `kbsymtab_set`, `_append`, `_get`, `_copy`, `_del`, `kbutil_strarray_*` |
| Parser | `kbnode.c` 444-850 | the current node, the list of nodes, counts of errors and warnings | `kbnode_read_file`, `parse_nv`, `parse_value`, `detect_keytype` |
| Options and main | `kubeka.c` 56-420, 547-666 | what is left of `argv`, the option values, the list of files, the forked child | `opt_long`, `opt_short`, `opt_bool`, `opt_unrecognised`, `process_path`, `main` |
| Utilities | `kbutil.c` | none | arrays of strings (modelled with the symbol table), reading a file for a test |
| Test driver, build information | `test_node.c`, `build_info_kubeka.*` | none | |

How they interact. `main` reads files into a list of nodes, coalesces nodes with
the same ID, checks them, makes a runtime tree for every entrypoint
(instantiation), evaluates variables in the trees, and then either runs one
tree in its own thread (`kbbi_launch`) or starts a thread for every root and
waits for SIGINT (daemon). A thread runs its tree with `kbbi_run`, which
runs every command with `kbexec_shell`: that forks a child, which starts a shell
with `popen`, and reads output and status from a pipe. Threads share with main
only `g_endloop`, their entry of `threads[]`, and the tree main frees at the end;
they share with each other, without knowing, the process's descriptors and
the file system.

Where it is hard:

* *Compensation.* Handlers, commands and jobs have different rules for going on
  after a failure, and statuses are combined along the recursion. Right means:
  no job runs after a failed one, what has to be compensated is, once, in reverse, and
  a failure is never reported as success.
* *The loop of the periodic thread.* Four things end it (SIGINT, the
  counter, failures in a row, an error) and one thing starts a run (the timer). Right
  means: it ends when it should and only then, and runs again until then.
* *Main against its threads.* Flags without locks; memory freed by one side. Right means: what
  main frees is not used any more, and main neither waits for ever nor leaves early.
* *Cyclic and dangling references.* The recursion must end, errors must be counted for exactly
  the ill-formed configurations, and a tree that is stored must be whole.
* *Processes and pipes.* A pipe ends when its last holder ends, and whoever is forked in the
  meantime is a holder. Right means: the status that is returned is the
  command's, nothing is left behind, and every call returns.
* *Substitution.* Values are replaced in place, children before parents, variables in the
  order of a hash map, from other values that are replaced already or not. Right means: in any order a
  value becomes what it means where it stands, and every reference that leads nowhere is an error.
* *From a line to the decision.* Errors are counted per file, per phase and per node, and a file ends at its
  first one. Right means: nothing is run unless every line of every file is right.
* *Text.* Lines are taken apart by looking for delimiters anywhere in them, without quotes. Right means: what is
  read is what was written, as long as no value holds a delimiter.
* *Memory by hand.* Arrays that move, strings that are replaced in place, tables that are copied, nodes that are
  in two lists. Right means: everything has one owner until it is freed, and two nodes never share a value.
* *Options.* Each is searched for in what the ones before it left. Right means: they are understood as they are written, and
  nothing is run that was not asked for or not linted.
* *Numbers.* `(size_t)-1` for "no counter", a 32-bit interval, a remaining time
  that counts up, a rollback loop that counts an unsigned index down.

`PROJECT.json` lists these one by one as hazards, at the lines where they bite.

## 2. Modules

Abstract specifications say what a part promises; the others are translated
from the code. Indices count from 1 throughout.

| Module | What it is | Used by |
|---|---|---|
| `KbSaga` | promise of a workflow: a saga over a tree | refined by `KbRun` |
| `KbRun` | `kbbi_run`, `kbbi_rollback`, `kbbi_launch` | `MCKbRun`, proofs |
| `KbRunProofs` | theorems about `KbRun`, and its refinement of `KbSaga` | |
| `KbWorker` | promise of a thread to main | refined by `KbPeriodic`; `KbDaemon` has its threads as it says |
| `KbPeriod` | the timer, as operators | extended by `KbPeriodic` |
| `KbPeriodic` | `th_periodic` with its clock and SIGINT | `MCKbPeriodic` |
| `KbPeriodicProofs` | theorems about `KbPeriodic`, and its refinement of `KbWorker` | |
| `KbDaemon` | `main` with its threads and SIGINT | `MCKbDaemon` |
| `KbDaemonProofs` | theorems about `KbDaemon` | |
| `KbInstantiate` | the walk that builds runtime trees | `MCKbInstantiate` |
| `KbSequences` | lemmas: induction over numbers, flattened sequences | extended by `KbInstantiateProofs`, `KbEvalProofs`, `KbLintProofs` |
| `KbInstantiateProofs` | theorems about `KbInstantiate` | |
| `KbExec` | `kbexec_shell` with processes, pipes, directories | `MCKbExec` |
| `KbExecProofs` | theorems about `KbExec` | |
| `KbEval` | `kbtree_eval`, `resolve`, the built-in functions | `MCKbEval` |
| `KbEvalProofs` | theorems about `KbEval` | |
| `KbTable` | symbol tables by value: what a line means for the variables of a node | extended by `KbLint`, `KbTables`, `KbSymtab` |
| `KbLint` | files of lines, coalescing, checking, deciding | `MCKbLint` |
| `KbLintProofs` | theorems about `KbLint` | |
| `KbText` | taking a line of text apart, splitting values, and how lines are written | extended by `KbTables`, `KbSymtab` |
| `KbTables` | promise of the symbol tables: every node has variables of its own | refined by `KbSymtab` |
| `KbSymtab` | symbol tables in memory, from the text of a file to the end of `main` | `MCKbSymtab` |
| `KbMain` | `main` from its command line to its exit code | `MCKbMain` |

The modules are tied together through the abstract specifications: the actions of a thread in `KbDaemon`
are those of `KbWorker`, written once more for thread `t` (with what it touches of main's memory, and the thread that gives up before its loop), and `KbPeriodic`, the loop
as the code has it, is shown to implement `KbWorker`; `KbPeriodic` knows a run of the workflow only as a step that begins and one
that ends with a status, and `KbRun` says what happens in between;
`KbRun` runs a tree with a single parent for every node (`SingleParent`), which
is what `KbInstantiate` builds by making a fresh node for every reference; and `KbRun`
sees a command as one step with a status, which is what `KbExec` makes of it. `KbLint`
sees instantiation and evaluation as a step that may find an error; `KbInstantiate` and `KbEval` say when they do.
`KbLint` and `KbSymtab` share, in `KbTable`, what a line does to the variables of a node; `KbLint` begins
with lines that are taken apart, `KbSymtab` with their text (`KbText`). `KbMain` sees the lint, a run and the serving daemon by their
outcome only, and says which of them is reached, for which files.

### KbRun and KbSaga

`kbbi_run` is called once for a runtime node, so the locals of that call are functions of the
node: `pc[n]` is where it is, `step[n]` the loop index, `ret[n]` the local `ret`,
`undo[n]` and `act[n]` the indices of the rollback loops. `log` is a history
variable: the commands that ran, in order. The C stack needs no variable: it is the chain
of nodes that have neither returned nor not begun. One action is one
iteration: `CallHandler`/`HandlerReturned` (kbbi.c:141), `ExecCommand` (151),
`CallJob`/`JobSucceeded`/`JobFailed` (172), `RollbackCommand`/`RollbackMissing`
(68), `Return`. A node with handlers looks at nothing else, one with commands
not at its jobs; all handlers and all commands run, whatever the earlier ones returned;
jobs stop at the first failure. A command ends with any status of `Statuses`.

A status is an int, and may be negative: -1 when `pclose` fails (kbexec.c:81-85), or whatever bytes were last in the
pipe when the child died (231). `ret |= status` (kbbi.c:156) is bitwise, and of `BitOr` only that it is an int, and 0 exactly for 0 and 0, is
assumed (`BitOrAssumption`); MCKbRun gives it the `|` of `Bitwise` on two's complements. `ret += kbbi_run(...)` (143) is a sum of ints that wraps
around as the build computes it (`WrappedSum`, with `IntMax` for 2^31-1): the statuses of several failed handlers may cancel out, and
the node then counts as a success. `SuccessIsTotal` says exactly that much, and that nothing else hides a failure.

`KbSaga` leaves the verdict over several failed handlers open, as the code does; one is always a failure. Otherwise it has only `idle`, `active`, `ok`, `failed` for each node and how many of
its jobs are compensated. `KbRun` implements it under the mapping `Life`, `Undone`:
every command is a stutter, and a job counts as compensated when the rollback loop is past it.

### KbPeriod, KbPeriodic and KbWorker

A timer only compares its expiry with the clock, so it is kept as the seconds
left, which go negative. `parse_unit` gives a set of units, because what an
empty suffix gives depends on a byte beyond the string. `interval` is
the 32-bit product. The thread's loop is `Head` (test of `endflag` and counter), `Wake`
(after `sleep(1)`, which a signal cuts short), `NotYet`/`BeginRun` (the answer of the timer), `EndRun`, and
the two writes `SetCompleted` and `SetRetcode`, in the order of the code. `Tick` and `Signal` may happen
at any moment. `runs` and `afterEnd` are history.

`KbWorker` is what main may rely on: go on only while `endflag` is not set, announce
before publishing, no run after the announcement. A run's status is any int.

### KbDaemon

Main is `launch` → `wait` → `join` → `cleanup` → `gone`. `LaunchFails` stands for a root
that is not periodic (kbbi.c:397) and for a `pthread_create` that fails. `Begin` is what a thread does
before its loop: for a `PERIOD` without a unit the byte behind the string decides, as it did for the lint on another copy of the string, and a thread
that cannot parse its period is `returned` without having set `completed`. Cleanup frees the trees and then
the array of threads, in two steps, with the threads still running if they are; a thread that
uses freed memory is undefined behaviour in C, and is only noted in
`touched`: `NoRunOnFreedTree` says when the trees never get there. The array does: section 5. When main returns the process ends with its threads.

### KbInstantiate

The stack of `node_instantiate` is the variable `stack`, a frame being the node
made, its list of dependencies and the loop index. `node_findparent` looks at the
frames below the top, that is from the parent of the current node on, so a node that refers to itself is instantiated
once more before it is noticed. `Delete` is `node_del` with everything linked below; a handler is not taken out of its parent's list
of handlers (kbnode.c:270 removes from the list of jobs).
The list of dependencies has room for each job and signal (`Entries`) but is filled with
each handler; a behaviour that overruns it, or frees a node twice, sets `undefined`, and nothing is said about what follows: `TreesAreComplete` is about
the behaviours where neither happens. The run `instantiate_overrun` shows the one; `JobsFreedOnce` says that the other is due to handlers alone.

### KbExec

A *flow* is a thread of control inside `kbexec.c`: a thread of the program, or
a forked child. A *process* holds write ends of pipes. `Fork` copies all the program's
write ends to the child, including those of other threads; `StartCommand` copies the child's to the shell. The
parent reads until no process holds the write end (`EndOfFile`), and takes the last bytes
as the status, whether the child sent it (`sent`) or not, in which case any status is possible. A
child that cannot enter its directory, drop privileges or start its shell goes to the same cleanup as the
parent, and returns into the program: its flow goes on as a duplicate.
Faults are those the code handles: no such user, no pipe, no process, no
privilege to change user, no shell, a killed child; and a command that leaves a
background process.

### KbEval

`stack` holds the calls of `kbtree_eval`, a frame being the node, the next child and the variables still to do, which
`PickKey` takes in any order. `current` is the local `newvalue` with its place. A value is a
sequence of pieces, text or references, so a step of `Substitute` is one round of the loop at kbtree.c:291. `ds_str_strsubst` is not in
the repository: it may replace one or all places of the reference. Variables are looked up from the node being evaluated, also while it evaluates
a value that came from an ancestor: the scope is dynamic, and `Meaning` says so without any order. `Meaning` is what a value means in this code, not in its documentation: `$<x>` of a list
`x` is the whole list in brackets (`kbutil_strarray_format`), where SPECIFICATION.md:126-127 and 134 make it the first element, and the list in brackets is
that of `$<x[@]>` (140). What `ValuesAsScoped` shows is that order and scope do not spoil that meaning, not that it is the documented one: for lists it is not. A `getenv` is
sure to see a `setenv` only if that stands before it in the value as it is written, and even then not if it is replaced together with an
earlier `getenv` of the same variable, one that came out of another variable or has no `setenv` before it (`Left`).

### KbTable, KbText and KbLint

`KbTable` has a symbol table as a function and `kbsymtab_set` and `kbsymtab_append` as operators, with
their conditions (`SetAccepts`, `AppendAccepts`) apart. A line is what the parser makes of it: a header, an assignment, an append, a blank
line, one with an error, or one it does not know. `KbText` has the way there: `LineOf` is the body of the
loop of `kbnode_read_file`, on a text of tokens (the characters that mean something, and words), and `Written` is how a line is
written, in the notation of the comment at kbnode.c:693 and of the files in `tests/input`.

In `KbLint`, `current` is the node lines belong to, and `CloseFile` is the end of `kbnode_read_file`
with what `main` does with its counts. Two places run into undefined behaviour, and the model ends there with the
phase `undefined`: a header without `]` frees the current node and leaves it in the list (`CoalesceFreed`),
and an append to `x[2]` of a missing `x` reads out of bounds (`ReadBeyond`). The properties compare the decision with
`Sound` and `Spotless`, which look at all files, whatever was read of them and when. The list of files may be empty:
reading is then over before it begins (kubeka.c:420).

### KbTables and KbSymtab

`mem` is the heap: arrays of addresses of strings, and strings. A table has addresses of arrays. Each function of `kbutil.c` and
`kbsym.c` that allocates or frees is an operator from a heap to a heap, and a new object has the lowest free address, so that a
pointer to something freed would point to something else. `ReadNode`, `ReadAssignment`, `ReadNothing`, `RefuseLine` and `EndOfFile` are one
file; `Instantiate` copies a table (`node_instantiate` replaces that of its new node), `kbnode_set_single`
stores a value that was evaluated, `DeleteNode` and `DeleteTree` are the end of `main`. `lost` is history: arrays nobody points to any more.
`KbTables` has the same tables by value, and says of a line that cannot be read back only that it
changes no node but the current one.

### KbMain

The command line is read as the code does it: `argv` is what is left of it, and each option is one search for a
long name and one for a letter. A long option has the set of options its name is taken for (`--p` is taken for `--path`, a name longer than an option
for that option, `--` for every one), a short one is a sequence of letters; `opt_short`
replaces a letter by `_`, or cuts the argument off there and returns the rest. `Fork` is the daemon: from there on `at` is about the child, and the parent
either writes its pid file or cannot. `process_directory` lists files as `process_path` does, hidden directories apart. `Lint` is by the content of
files: broken, odd (a warning), the IDs and the entrypoints in them. `KillMain` and `KillParent` are SIGINT or SIGTERM without a handler.
`Meant`, `MeantPaths` and `MeantJobs` read the same command line from left to right, as the comment at kubeka.c:56-66 describes it, and
`Plain` says for which command lines the two agree. `Contradictory` is what the help says must not be given together. Under `--lint` the help has it that `--daemon` and `--job` "are
ignored" (kubeka.c:166-168); the code refuses two jobs, or a job and `--daemon`, with `--lint` as well (332-346). These command lines are `RefusedWithLint`, which `OptionsAsWritten` names as what it
is, a refusal against the help.

## 3. What the runs check

A `pass` run checks that its properties hold; each `violation` run states
what a document or a comment of the repository says, and shows a behaviour of the code that disagrees.

| Run | Question | Bounds |
|---|---|---|
| `saga` | does a run stop, compensate, report and end as a saga? | all trees of `MCTrees`: three jobs with 0-2 commands, four in all at most, and 0 or 2 rollback commands each; a job with jobs; a job that emits to two handlers, one with jobs; a root with three handlers. Statuses 0, 1, -1 and -4 in ints from -4 to 3 (`MCIntMax` = 3), so that they cancel out (1 and -1) and wrap around to 0 (-4 twice) |
| `periodic` | does the thread keep its counter, end for a reason, end after SIGINT, and act as `KbWorker`? | periods of 0, 1 and 3 seconds, counters 0, 1, 3 and none, clock up to 4 seconds past an expiry |
| `periodic_starves` | does a thread that does not end keep running? (no) | a period of 3 seconds |
| `daemon` | does main end after SIGINT, and free trees only when no thread runs? | one to three roots, with an entrypoint at each position, and a root whose `PERIOD` has no unit; statuses 0, 256 and -1 |
| `instantiate` | are errors counted exactly for ill-formed graphs, are stored trees whole, is a job freed once, does the walk end? | every way three nodes have up to two jobs or signals, with a missing reference and one or two entrypoints; four configurations of `tests/input` |
| `instantiate_overrun` | is there room for all handlers? (no) | two handlers for one signal |
| `exec` | is the status the command's, is nothing left behind, do all calls return? | two threads with one command each or one with two, one fault anywhere; statuses 0 and -1 |
| `exec_forked` | does a forked child always exit? (no) | one thread |
| `eval` | do values become what they mean, are errors counted for exactly what cannot be resolved, does evaluation end? | a root with one job, each with up to two variables of one value: text, references, `setenv`, `getenv`, malformed and some of them together; a root with two jobs, lists, a variable without values, a node without ID; a `getenv` that gets into one value several times around a `setenv`; two trees; `MaxLength` = 8, what a value is cut at, which no value of these trees grows to |
| `lint` | is anything launched, or declared clean, exactly if all files are sound? | a node with up to two of 22 further lines, alone or before one of four other files, with and without `-W` and `--lint`; the files of eight tests |
| `symtab` | is every string owned and freed once, is a line read as it was written, has every node its own variables? | four lines, two copies, one stored value. Above the first header any assignment of six forms with any value of up to three tokens, delimiters included; below it 17 forms of assignments to two variables |
| `main` | are options understood as they are written, and is nothing run that was not asked for or not linted? | every command line of up to two of 27 arguments, and of three of 11; two disks |

Why these bounds are enough. A run of a workflow treats siblings by
their order only, so three (before, at and after a failure) show every case; one more
level shows how a node that rolled back is seen from outside. Of ints it matters whether a sum is 0, which needs two statuses of opposite sign, or a wrap-around: ints of three bits have both. In the thread's loop the clock
matters by its sign and, once expired, by its never returning to zero; a counter matters at 0, 1
and above. Eleven failures in a row are not cut: `MaxErrors` is the code's 10. `MaxRuns` = 4 only caps the
history counters and is above the largest counter checked. Main treats all roots alike and looks at one at a time; two interfere with each other only
through main, three add the order of a failure between two successes. Three nodes have all
cycles that matter to a test for ancestors: of length one, two and three; the repository's own
tests are among the inputs because they have deeper trees. Two threads are
what a pipe can leak between, and a status other than 0 is only passed on; one fault (`MaxFaults`) meets every point of a call. Two variables on each of
two levels have every way a reference can go: within a node, up, up past a variable of the same name, and round in a circle; `MaxLength`
= 8 is only met by circular values, which grow. Two further lines are what it takes to set, and set
or append again, any variable the checks look at, and an error in the first of two files is
what counters that are reset for each file could lose. `UintRange` is cut to 1000 because no period checked comes near 2^32. Three tokens are
what it takes for `+=` between blanks or inside a bracket; four lines set a variable, change it in two ways and begin another
node or end the file; two copies show an instance next to another one of the same node. Two arguments have every pair of an option that
hides, cuts or takes the other; three are an option with a value next to another one.

The properties, by what would go wrong:

* `KbRun`: `QuietBelow` (two commands of a workflow at once), `StopsAtFailure`,
  `SuccessIsTotal` (a lost failure, other than in a sum that cancels out), `UndoInReverse`, `FailureIsCompensated` (all of it, also when
  rollback commands fail, and only after a failure), `ImplementsSaga` (which also ends).
* `KbPeriodic`: `CounterIsRight`, `StopsForAReason`, `AtMostOneRunAfterEnd` (one
  more run can begin after SIGINT, never two), `SignalEnds`, `IsWorker` (no run after the announcement).
* `KbDaemon`: `NoRunOnFreedTree`, `EndsOnSignal` (unless a thread gave up before its loop).
* `KbInstantiate`: `ErrorsIffIllFormed`, `BoundedDepth`, `TreesAreComplete`, `JobsFreedOnce` (nothing but a handler that failed is freed twice), `WalkEnds`.
* `KbExec`: `StatusIsCommands`, `NoWriterAfterReturn` (and no write end left behind; read ends are not modelled), `TemporaryStays`, `AllCallsReturn`.
* `KbEval`: `ValuesAsScoped`, `ErrorsIffUnresolved`, `EndsUnlessCircular`.
* `KbLint`: `LaunchedIffSound` (an error lost on its way to the decision).
* `KbSymtab`: `OwnedOnce` (double free, use after free, a leak other than the one of a replaced list), `ReadAsWritten`
  (exactly which values survive the parser and `setenv`), `ImplementsTables` (two nodes sharing a value).
* `KbMain`: `OptionsAsWritten` (for plain command lines), `RunsOnlyAsAsked` (no file that was meant is left out of the lint,
  `-W` counts, contradictory, unknown and mistaken options run nothing).

The properties of the violation runs are claims of the repository: `KeepsRunning`, `HandlersFit`, `ForkedExits`; `PROJECT.json` quotes the line of each under "findings".

Each of the others has, in the module before the definition it changes, a *Fault* operator:
the same step with a plausible mistake, which makes TLC find the property violated.

`CHECK_DEADLOCK FALSE` is set in every configuration, because every one of these systems
stops: a run returns, a thread ends, main exits. That they
do not stop too early is a property of its own (`ImplementsSaga`, `SignalEnds`, `EndsOnSignal`, `WalkEnds`, `AllCallsReturn`, `EndsUnlessCircular`, `OptionsAsWritten`).

### Fairness

* `KbRun`, `KbInstantiate`, `KbEval`, `KbLint`: `WF_vars(Next)`. Sequential code goes on; shell
  commands are taken to end.
* `KbPeriodic`: `WF(Tick)`, time passes; `WF(Thread)`, the thread is scheduled
  and a run ends. None for `Signal`.
* `KbDaemon`: `WF(Main)` and `WF` for each thread: separate kernel threads.
* `KbExec`: `WF(OwnStep)`, what the program and its children do of themselves, and
  `WF(LongStep)`: commands, background processes and duplicates end, without which no call needs to return.
* `KbMain`: `WF(Main)` and `WF(Parent)`, two processes; none for the signals, nor for the end of a daemon that serves.
* `KbSaga` has `WF(Next)`, so that `ImplementsSaga` says that a run ends.
* `KbWorker`, `KbTables` and `KbSymtab` have none: they are safety specifications.

## 4. What is proved

Every theorem below holds for all values of the constants that satisfy the assumptions of its module. TLC evaluates the assumptions
on the values it checks. None of the properties is inductive; the invariants of the proofs were first checked with TLC.

| Module | Theorems, each `Spec => ...` |
|---|---|
| `KbRunProofs` | `TypeCorrect` (`TypeOK`), `NoJobAfterFailure` (`StopsAtFailure`), `SequentialExecution` (`QuietBelow`), `SuccessNeverHidesFailure` (`SuccessIsTotal`), `FailureAlwaysCompensated` (`FailureIsCompensated`), `RollbackInReverse` (`UndoInReverse`), `StepsAreTheSagas` (the safety of `ImplementsSaga`) |
| `KbPeriodicProofs` | `TypeCorrect`, `CounterCountsRuns` (`CounterIsRight`), `EndHasAReason` (`StopsForAReason`), `OneRunAfterSignal` (`AtMostOneRunAfterEnd`), `ImplementsWorker` (`IsWorker`) |
| `KbDaemonProofs` | `TypeCorrect`, `TreesOutliveRuns` (`NoRunOnFreedTree`) |
| `KbExecProofs` | `TypeCorrect`, `StatusIsTheCommands` (`StatusIsCommands`), `NothingLeftOpen` (`NoWriterAfterReturn`), `DirectoryOutlivesCommand` (`TemporaryStays`) |
| `KbInstantiateProofs` | `TypeCorrect`, `ErrorsExactly` (`ErrorsIffIllFormed`), `DepthBounded` (`BoundedDepth`), `StoredTreesComplete` (`TreesAreComplete`), `FailureFreesOnce` (`JobsFreedOnce`) |
| `KbEvalProofs` | `TypeCorrect`, `ErrorsExactly` (`ErrorsIffUnresolved`), `ValuesExact` (`ValuesAsScoped`), `NoReferenceLeft` (what `ValuesAsScoped` says apart from the text of the values) |
| `KbLintProofs` | `TypeCorrect`, `DecisionExact` (`LaunchedIffSound`) |

`KbSequences` has no theorem of its own: it is what the last three need of sequences and of induction.

**A run of a workflow** (`KbRunProofs`), for every workflow in which no node is a child twice. From
`StopsAtFailure` alone one cannot exclude that a job which has returned begins again, or that a job is called while an earlier one is still
running. The invariant `Inv` is `TypeOK` and, for every node, `Order(n)`: which children
have returned, which one may be running and which have not begun, as given by `pc[n]` and
`step[n]`; with every job before `step[n]` having returned 0. `SingleParent` says that an action
on one node, which changes the state of at most one child, is seen by one parent only. The proof has one lemma for each action.

**How it ends** (`KbRunProofs`, second half). `OInv` adds what each node knows of the log from where it stands (`Outcome`): its handlers and commands so far; while it
rolls back, that all of the jobs above `undo` are compensated and of job `undo` the first `act` commands (`UndoneSoFar`), and
nothing else (`UndoneOnly`). A step is a step of one node: for the others one lemma (`OtherOutcome`) says that a longer log and a child that has returned
do not matter, and for the node itself there is a lemma for each action. `StepsAreTheSagas` then maps each step: commands to stutters, a rollback past its last command to
the saga's compensation of a job. It is the safety half of `ImplementsSaga`; the other half is that a run ends. Nothing is assumed of a status but that it is an int, so the invariant says of `ret` among handlers what survives a sum that wraps around: it
is 0 if all the handlers so far succeeded, and what the failed one returned if exactly one did (`OthersSucceeded`, `WordFacts`).
The assumption `OneKindOfWork`, a node with commands has no jobs, is what `kbnode_check` makes sure of (one action per node) before anything is run.

**The thread** (`KbPeriodicProofs`), for every period, counter, clock and width of integers. What makes the properties inductive is what the loop knows between its head and its
run: the counter is not spent (`RunLeft`), and `endflag`, if it is set, was set since (`NoneYet`), so that a run counted after the signal is
the last. `ImplementsWorker` maps each step to one of `KbWorker` or a stutter. `RunsAreCounted` says that the history counter `runs` is not capped below a `COUNTER`.

**Main and its threads** (`KbDaemonProofs`), for any number of roots. A thread is completed only when it has left its loop (`CompletedHaveLeft`); main passes a
thread in the join only when it is completed (`JoinedAreCompleted`), and cleans up without a failed launch only after the join
(`CleanupAfterJoin`); trees are freed only there. Threads that main has not come to are unborn, which is why the launch does not disturb any of this.
That the threads of `KbDaemon` behave like `th_periodic` is not proved there: their actions are `KbWorker`'s by the way they are written, and that `KbWorker` is right is `ImplementsWorker`. The two proofs are not composed.

**Commands** (`KbExecProofs`), for any number of threads, commands and faults. A child, and the command it starts, hold the write end of the pipe from the fork on, whatever
other processes hold it as well; so its parent cannot see the end of the pipe, and cannot go on to remove the directory, before both have let go. The invariant says who
holds what (`FlowOK`, `ProcOK`), that two flows share neither a pipe nor a temporary directory unless they are parent and child of one call (`Apart`), that the flows which use the directory of a running
command wait for it (`Waiting`), and that the program holds no end but those of calls in progress (`ProgramHolds`).

**Instantiation** (`KbInstantiateProofs`), for every list of nodes. `Inv` relates the stack to the graph: every frame has the dependencies of its node, and has
just passed the one that the frame above it is for (`Calls`), so that any frame leads to any above it (`OnePath`); two frames with one ID are next to each
other (`NoneTwice`). Without an error, all dependencies a frame has passed are well formed, except the one being gone through (`GoodSoFar`): the node that returns is then well formed by
`GoodFromBelow`. Each error is found at a node the current root leads to, so the root is ill formed by `BadAbove` (`BadAtRoot`). Together they are both directions of `ErrorsExactly`.
`DepthBounded` follows from `NoneTwice` by the pigeonhole principle on every other frame.
`StoredTreesComplete` has an invariant of its own (`Whole`). The calls in progress are one path down from a root that is not stored yet (`Planted`), so what `Delete` reaches from the node on top, which is a
set of younger nodes below it (`ReachedUnfolds`), has neither a stored root nor another call's node in it. A call has made the children up to where it is in its list, and a living node nobody works on has all of them
(`Grown`); the one exception is the node whose child has failed, between two steps: a handler that failed stays in its list, dead, but that node goes next. `KidsAdded` and `KidsKept` say what entering and deleting do to the
children of every other node.
`FailureFreesOnce` adds that a dead node which is still in a list is a handler (`Unlisted`): what `Delete` finds dead is below a living node, so in a list, so a handler.

**Evaluation** (`KbEvalProofs`), for every forest and all values. A substitution puts the values of one variable, evaluated already or not, in the place of a reference. So
the proof is about what does not change by it. A set of variables is `Steady` for a node if it has exactly the variables that are found and whose values use only variables of the set. The largest is
`Clear`, the variables all of whose references resolve; the least is `Grounded`, those that moreover do not lead on for ever. `SameValues` and `SameCurrent` say that for every steady set a value
keeps to it if and only if it did as it was read (`SameReference` for one substitution). That needs to know which values a substitution takes: a variable is found at the node
itself or at one of its callers (`ResolveFindsOwner`), the callers are the nodes of the calls in progress (`ChainCallers`), and of those only the last is touched (`Fresh`), because the nodes below two children have nothing in common
(`Disjoint`). When a node returns and no error was counted, all its values are free of references, so they keep to every steady set, so they did as read: all is `Clear` and `Grounded`, that is resolvable and not circular
(`ReturnedFinished`). An error is counted at a value that does not keep to `Clear`, or at a node without an ID (`NewError`). Together they are both directions of `ErrorsExactly`.
That instantiation numbers a node above the one it is made for (`IsForest`) is what lets induction go from the roots down (`Downwards`). Nothing is assumed of the bound `MaxLength`.

**What values become** (`KbEvalProofs`, second half). `Meaning` speaks of the values as they were read; evaluation replaces them in any order, a variable after those it uses or before them, in the
values of the node itself or from a caller. So the invariant `Scoped` says of every value at every moment that it still *stands for* its meaning. A value is opened (`Open`) by putting for every variable
left in it what that variable means, and the sequence that results is compared with the meaning place by place (`Half`): a place is what it is in the meaning, or an environment
function of the meaning that has been answered. Substituting a variable then leaves what a value stands for, because what comes in stands for what the variable means (`ReferenceStays`), and only
the two functions change anything (`PutHalf`, `PutAnswer`). That such relations pass through `FlattenSeq` and `Format` is proved once for any relation that is kept by concatenation (`FlattenPairs`, `FormatPairs`).
That the meanings exist at all, as a solution of equations between the variables of a node, is proved for the nodes whose variables are `Grounded` (`OfExists`), with the induction that the set `Grounded` is made by; they
are the only nodes `Scoped` is about, and without an error all nodes are among them.
The rest is about `getenv`. References are replaced from the left, so a `getenv` is answered when everything before it is text, unless it goes with an equal one before it. If its own value sets the variable before it
(`Right`), that `setenv` has been replaced by then, and the variable is set (`AnsweredHalf`); otherwise nothing is known. An earlier form of `ValuesAsScoped`, which had every `getenv` behind a `setenv` answered by
the variable, could not be proved, and is false: with `b = $getenv<E>` in `a = $b $setenv<E> $b` both are asked at once, before anything is set. Two such forests are now part of the run.

**The lint** (`KbLintProofs`), for every list of files. `LaunchedIffSound` compares two counters with what stands in the files, so the invariant says what the counters mean at every
moment (`Counted`). As long as there is no error (`NoneCounted`), all lines behind the reader are well formed where they stand, and the nodes are exactly what the headers behind it begin: `Begun(where)` is a bijection `where`
from the nodes to those headers, under which every node has the variables its lines define, those of the current one up to the line that was read. A line is therefore below a header if and only if there is a
current node, and meets the variables it should (`LineBelow`), so that it is refused if and only if it is not well formed (`LineVerdict`). A file that ends adds no node if and only if no header is in it; two nodes have one ID if and
only if two headers give one; a node passes `kbnode_check` if and only if it is complete (`CheckIsCompleteness`). From the first error on (`OneCounted`) the files are not sound, or elaboration failed, and that does not
change. Warnings count exactly what is `Odd` so far; they matter only while there is no error. The invariant is that of the defined behaviours: it says nothing of the phase `undefined`.

*Induction over data.* Both theorems `ErrorsExactly` need to know what recursive functions compute for every input: `Reachable`, `CallersOf`, `Uses`, `kbnode_resolve` and `FlattenSeq`. The library's induction theorems take an
operator as a parameter, which the provers cannot instantiate; `KbSequences` derives induction for a *set* of naturals (`Induction`) from the well-foundedness of the
subsets of a finite set, and uses it on the set of numbers for which a recursive function is right (`FlattenExists`, `FlattenSeqRange`, `FlattenGrows`; `SpreadsExists`, `ReachableLeast`, `ReachableClosed` in
`KbInstantiateProofs`; `CallersUnfold`, `UsesLeast`, `UsesClosed` in `KbEvalProofs`; `GrowsExists` in `KbLintProofs`). That a recursive function exists at all is proved the same way.

What only TLC checks:

* Liveness under fairness, which the provers do not reach: `SignalEnds`, `EndsOnSignal`, `KeepsRunning`, `AllCallsReturn`, `WalkEnds`, `EndsUnlessCircular`,
  `OptionsAsWritten`, and that a run ends (`ImplementsSaga`).
* `KbSymtab` and `KbMain`. What they say rests on definitions that would have to be proved about first: searching and splitting texts (`ReadAsWritten`), folds over the
  variables of a table and sorting addresses (`OwnedOnce`), finding a name in the letters of an option (`RunsOnlyAsAsked`).

## 5. What is not modelled

* Failed allocations, everywhere. They lead to the same exits as the modelled errors where the code checks them.
* The text of messages, and the contents of pipes apart from the status.
* The buffers of stdio that `exit` in a child writes once more, and
  children that are never waited for (zombies): hazards without a property.
* Dumps and the typed getters of symbol tables, `kbutil_file_read` and `kbutil_test`, the manual test driver.
* Characters inside a word: names and numerals are tokens. Long lines are refused like lines without a line feed.
* Files that change between being listed and being read, symbolic links and loops of directories.

Cases of the code that a passing property exempts, because it would not hold. The models go through all of them; a run of its own has none:

| Passing property | exempts |
|---|---|
| `SuccessIsTotal`, `ImplementsSaga` | several failed handlers whose statuses cancel out (kbbi.c:143): the node succeeds and is not rolled back, against SPECIFICATION.md:108 |
| `NoRunOnFreedTree` | the array of threads: `retcode` is written after `completed` (kbbi.c:365-366), when main, which means to "Wait for all threads to end" (kubeka.c:634), may have freed it |
| `NoRunOnFreedTree` | a launch that failed, as that of an `[entrypoint]` among the roots always does (kbbi.c:397): main frees everything under the threads that run |
| `EndsOnSignal` | a thread whose `PERIOD` has no unit: the byte behind the string decides in the lint and again, on another string, in the thread, which may return without setting `completed` |
| `JobsFreedOnce`, `TreesAreComplete` | a handler whose instantiation failed stays in its parent's list of handlers and is freed again (kbnode.c:269-271), against the comment at kbnode.c:263 |
| `TemporaryStays` | a directory that `DIRECTORY` names is removed with `rm -rf` as well (kbexec.c:245), under another node's command |
| `ValuesAsScoped` | the documentation's sense of lists: `$<x>` is the whole list, against SPECIFICATION.md:126-127 and 134 |
| `EndsUnlessCircular` | variables that use each other are substituted for ever (kbtree.c:291), against SPECIFICATION.md:43 |
| `OptionsAsWritten` | two jobs, or a job and `--daemon`, with `--lint`: refused (kubeka.c:332-346), against the help (kubeka.c:166-168) |

Two places have undefined behaviour that the models only lead to, and no property is about: a header without `]`
(kbnode.c:710) and an append beyond the end of a list that was just made (kbsym.c:491). The list that a replacement loses (kbsym.c:383) is allowed for in
`OwnedOnce`, by name (`lost`). That the parent of a daemon succeeds whatever becomes of its child is what its help says ("return a successful return code", kubeka.c:163).

Noticed in the code while modelling, without a run of its own:

* A one-letter unit goes through a truth value: `5m` is five seconds (kbperiod.c:24). The model has it so.
* `kbperiod_remaining` is 0 until the expiry, so a run begins before the first
  interval is over (kbperiod.c:115).
* `COUNTER` is substituted into commands once, so that they do not see it change (kbbi.c:344).
* A failed command gives its wait status (256 for exit code 1) as the return code (kbexec.c:82).
* A child that ends without sending anything makes its parent read the status from before
  the buffer (kbexec.c:231).
* A node with nothing to do returns success (kbbi.c:199).
* A child forked between another thread's `pipe` and `close` keeps that pipe open (kbexec.c:201): a call
  can last as long as another node's command.
* The ROLLBACK of a node whose own EXEC failed is run only if that node is a job of a sequence: a handler's or a
  root's never is (kbbi.c:182-191), where README.md:48-50 and SPECIFICATION.md:108 say it can undo an incomplete EXEC.
* `x = v` changes the first value of an existing list and `x[0] = v` replaces the list (kbsym.c:372), where SPECIFICATION.md:135 has
  one as a shorthand for the other.
* `ID = [ ]` is one empty value, `ID = []` none (kbsym.c:77); a file name that begins with `[` is a list.
* `name!`, announced at kbnode.c:697, is an unrecognised line. A last line without a line feed is an error (kbnode.c:674).
* `+=` anywhere in a line makes it an append, a `#` ends it, and a single value that begins with `[` is a list (kbnode.c:736, 684,
  kbsym.c:36): `Clean` is exactly what survives. `setenv` cuts a value at its second `=` (kbbi.c:242).
* Grouped letters are lost behind one that is searched for earlier: of `-dW` only `d` is seen, `-lW` does not turn warnings into
  errors (kubeka.c:106), where the comment at kubeka.c:65 promises `-xyz`. A value that is attached is searched for options that
  come earlier: `-jdeploy` is read as `-p loy` and `-j de`. An option's value that is an argument of its own and begins with `-` is read again.
* A prefix of a name is that option, and `--` is `--help` (kubeka.c:77). `--file=x` stores a copy of NULL (kubeka.c:311), and `--path` without a value is the path "".
* A daemon is forked before `-W`, unknown options and files are looked at (kubeka.c:357): the parent writes the pid file and succeeds even if
  its child has ended by then.
* `x[1] = v` replaces all values of `x` (kbsym.c:372) and frees none of them.
* `$<x[1]>` is never found, because the subscript is taken for part of the name (kbtree.c:181).
* A node with `ID = []` passes the check for an ID with a warning only (kbnode.c:1033).

## 6. Plan

Done, in this order: `KbSaga`, `KbRun`, its first theorems; `KbPeriod`, `KbWorker`, `KbPeriodic`;
`KbDaemon`; `KbInstantiate`; `KbExec`; `KbEval`; `KbLint`; `KbTable`, `KbText`, `KbTables`, `KbSymtab`; `KbMain`.

Next, models:

1. An abstract specification of `KbEval` (a substitution by meaning, one value at a time), and of
   `KbInstantiate` (a set of trees), with refinements.
2. A composition of `KbDaemon` with `KbExec`: what threads with a workflow of commands do to each
   other's pipes and directories.
3. A composition of `KbMain` with `KbLint`: the outcome of the lint from the lines of the files that were listed.

The first proofs are those of section 4. Next, proofs, most important first:

1. `KbSymtab`: type correctness, and `OwnedOnce`. Its heap operators (`Fresh`, `NewArray`, `kbsymtab_copy`, `kbsymtab_del`) need lemmas of their own.
2. `KbMain`: type correctness, and that nothing is run without a lint that succeeded.

## 7. Running it

    tlc -config MCKbRun.cfg MCKbRun
    tlapm KbRunProofs.tla        (and the other modules of proofs)

Each configuration belongs to the MC module whose name it begins with; the community modules must be on the path. No
run takes more than two or three minutes with two workers.

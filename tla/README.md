# terok-util in TLA+

terok-util is a Python library and a command, `terok-matrix`. The command
builds container images for a list of distributions ("slots"), runs a
package's tests in each, and publishes a JSON report while it does. The library
holds what the terok packages share: a lock and receipts for setup, output
capture, configuration layers, file helpers. This directory models the parts
in which several threads, processes or signals meet, and the algorithms whose
inputs have many combinations; it checks them with TLC on small instances, and
proves the most important results with TLAPS for every instance.

Paths below are relative to the repository; `matrix/` is
`src/terok_util/matrix/`.

## Inventory

| component | state | operations | meets | what is hard, and what makes it correct |
|---|---|---|---|---|
| `matrix/jobserver.py` | implicit lock, closed event, self-pipe; the server's pipe outside | `slot`, `close`, `_wake`, `_drain_wakes`, `_take_token` | pool threads of one run; make and its other clients | wakes stolen by one waiter, tokens kept by others, close and cancel racing admission, a kill. Tokens are conserved, the cap holds, every run leaves |
| `matrix/report.py` | per-slot states, matrix state, exit code, lock, file | `update`, `finish`, `_write` | main thread, pool threads; a polling reader | updates after the close, failed writes. Verdicts are final, the code is earned |
| `matrix/cli.py` | phase of the run, futures, exit code | `_run_matrix`, `_walk_matrix`, `_run_slots_tagged`, `_teardown` | report, job server, podman, signals | signals and exceptions at every point, the last lines included. Teardown alone, report closed, exit status equal to the report for the exceptions that are expected |
| `matrix/runner.py` | containers and images of podman; the files a slot leaves | `build_image`, `run_slot`, `sweep_containers`, `prune_dangling` | podman, the scripts inside | leftovers of killed slots, a booted slot whose record is missing, torn or of an earlier walk. A slot passes only for what was done |
| `matrix/inner.py` | the steps of two generated scripts, `$_rc`, `$TEROK_EXPECT` | `outer_script`, `inner_script`, `_phase_walk`, the boot files | pytest and systemd in the container | which steps are best effort, which phases run after a failure, what the next suite is told to expect then, a boot that hangs. A suite that does not run has a failure to blame that is named |
| `matrix_skip_plugin.py` | skip counts, a file per slot | record, merge at session end | successive pytest phases | a kill between truncate and write. The sum of all phases, never more |
| `matrix/config.py`, `contract.py`, `_files.py`; selection in `cli.py` | none | parse and validate a declaration; choose the slots a host runs | `matrix.yml`, the host | a key that nothing consumes, sections that default to one another. Nothing declared is quietly dropped |
| `setup.py`, lock | mutex, `_setup_fd`, flock | `setup_lock`, at-fork handler | threads, processes, forked children | fork at any step, crash, nesting. Mutual exclusion, nothing retained |
| `setup.py`, receipts | one JSON file per owner | `check`, `clear`, `write`, `setup_status`, `require_setup` | versions of several packages | check-then-act, a read that fails, crash between any two steps. No downgrade of a receipt that was read, a readable receipt is true, no torn receipt |
| `output_capture.py`, `journal.py` | descriptors 1 and 2, pump thread, sink | `tee_output`, `_capture`, `_pump`, journal writer | child processes, terminal, journald | surviving writers, failing sinks, bytes cut anywhere by `read`. Nothing lost, the sink faithful, a block that begins is left |
| `untrusted_fs.py`, `matrix/_files.py`, `fs.py` | files and directories | publish, read, remove, lock and collect in a task's tree; `write_sensitive_file`, `write_config_file` | a task that renames and links; other processes | a name that changes between two system calls, a kill in between. Only own inodes change; what is named in a task's tree is whole, a secret or config file that is not has its writer at work, failed or killed |
| `config_stack.py` | layers | `deep_merge`, `resolve`, `resolve_section` | callers, `paths.py` | deletion by null, `_inherit` in three forms. The last layer that speaks of a key wins |
| `paths.py` | environment, user namespace, three config files | the directory resolvers, `host_uid`, `_is_root` | an OCI hook and an agent in nested namespaces | who counts as root. All processes of one operator resolve the same directories |
| `cli_types.py` | an immutable tree of commands, lazy nodes | `find_at`, `walk`, `overlay`, `extend_at`, wiring, dispatch | packages that extend each other's trees | lazy nodes that become others when resolved, sharing by identity, a guess of the verb that decides what is imported. Composing is exact, a command line reaches its handler unless an option's value is taken for the verb |
| `hardening.py` | `no_new_privs`, Landlock domains of the threads | `harden_self`, `confine_filesystem` | other threads of the process, the kernel's ABI | threads that start between the count and the confinement, kernels with a part missing. The report is true of every thread |
| `security.py`, `logging.py`, `yaml.py`, `podman.py`, `host_tools.py` | log files | string work, best-effort I/O, lookups | callers | never raise to the caller |
| `matrix/containerfiles/` | none | Jinja templates | `runner.py` | data, not modelled |

`cli.py` drives everything in the matrix: it writes the report through
`report.py`, runs slots on a thread pool whose threads wait in
`jobserver.slot()` and then call `run_slot()`, and tears down through
`runner.py`. The setup lock is used by other packages around their receipts;
`paths.py` resolves its three files through `config_stack.py`.
`PROJECT.json` lists the hazards of all these parts, each at its line.

## Modules

    SlotPool <- Jobserver <- MCJobserver, JobserverProofs
    SlotLifecycle <- MatrixRun -> MatrixReport;  MCMatrixRun, MatrixRunProofs -> MatrixRun
    SlotRun <- MCSlotRun, SlotRunProofs
    OutputCapture <- OutputCaptureProofs
    FilePublish <- MCFilePublish, FilePublishProofs
    SetupLock <- SetupLockProofs;  SetupReceipt <- SetupReceiptProofs
    SetupLock, SetupReceipt <- MCSetup
    ConfigStack <- Paths;  Paths, MatrixConfig, CommandTree <- Library
    Hardening, Library <- LibraryProofs, MCFunctions

* **Jobserver** models `matrix/jobserver.py` at the grain of system calls and
  lock operations. A run is one call of `slot()`: `pc[r]` is its place in the
  loop of lines 115-133, `implicit` is the lock, `held[r]` its token, `pipe` the
  bytes in the server's pipe, `wakePending` whether the self-pipe is readable.
  `Call`, `CheckEnded`, `TryImplicit`, `TryToken`, `SelectReady`, `Recheck`,
  `DrainWakes`, `FreeImplicit`, `WakeWaiters`, `ReturnToken` are the steps of the
  loop in the order of the code; `SetClosed` and `CloseWakes` are `close()`;
  `Cancel` sets a caller's event. `OthersTake`, `OthersReturn` and `Kill` are the
  environment. Tokens are distinct values, so that a token written back twice, or
  changed, is visible although make's bytes are often equal.
* **SlotPool** is its abstract specification: a run works while it holds one
  slot of a pool. `Jobserver!SlotPoolSpec` maps `holder` and `phase`. The
  implicit slot is one more slot of the pool.
* **MatrixReport** models `report.py`. `update()` and `finish()` hold one lock
  from the change in memory to the replacement of the file; each is a
  `Begin...` step and a `Publish` (or, on an exception, `AbandonWrite`) step,
  and `disk` is what a reader of the file sees. The initial snapshot is written by
  the constructor.
* **MatrixRun** extends it with `cli.py`: the main thread (`pc`), the pool
  threads (`worker[n]`), the exception on its way out (`raised`: a
  `KeyboardInterrupt`, an `OSError`, or one of another kind), the local `exit_code`
  (`code`) and the process's exit status.
  `Unwind` states where an exception takes the main thread from each point: the
  walk, the pool's `except BaseException`, its `shutdown`, the pool's `__exit__`,
  the handlers, the teardown and its own `finally`. `Signal` (Ctrl-C, or SIGTERM
  through its handler) and `MainFails` (an exception of either kind) use it;
  `SignalKills` is a signal once main() has put the handler back. The report is
  closed by `MainPublishes`, and `LastWords` and `Cleanup` are what main() does
  afterwards: it prints, removes its temporary directory and takes the status
  from what it caught, 2 for an `OSError`, 1 for what it lets through. The teardown is
  `KeepDangling`, `SweepContainers`, `PruneDangling` and `ExternalLeftovers`, as
  `_teardown` calls them. The pool takes its queued slots in any order, which
  includes the executor's. `late` and `afterwards` are history variables: a signal
  landed outside of the `try`, a mishap struck after the close.
* **SlotLifecycle** is the abstract report: a ladder of slot states, and a
  closing step after which nothing moves.
* **SlotRun** is what MatrixRun takes as one step: `run_slot()`, the two scripts that
  `inner.py` writes, the boot and the skip plugin. `OuterScript` and `InnerScript` are
  the sequences of their steps, as the facts of the slot make them; `Needs` says what
  a step rests on, `BestEffort` whose failure the script swallows. `StepWorks` and
  `StepFails` walk the script; `SkipPhase`, `RunCommands` and `RunPytest` are the
  phase walk with `$_rc` and `$TEROK_EXPECT`, against which the capability contract
  measures what the phase is provided with (`Provided`, `ContractHolds`): one that
  does not match is `refused` before its tests, and the walk goes on. Each pytest
  phase that runs ends by reading, merging and rewriting the counts. `BootCompletes`
  and `BootDeadline` are systemd reaching the service, and the timer that ends a boot
  which does not; `Record` writes `<slot>.exit`; `Collect` is what the host makes of
  status, record, version and counts. `PytestKilled`, `ServiceKilled` and
  `ContainerDies` end things in between.
* **OutputCapture** models `tee_output()` with both sinks. The streams are sequences
  of a few kinds of bytes: printed before, inside and after the block, a line end, a
  carriage return, a child's. `buffer` is Python's own, `pipe` the kernel's, of `Room`
  bytes; `out` is where descriptors 1 and 2 lead. The caller's steps are those of
  `_capture()`, `finally` included; `PumpRead` takes any prefix, `PumpForward` and
  `PumpSave` may fail. `FlushFails` is a flush that raises: the first keeps the block
  from running, the one in `finally` skips the restore, the close and the join.
  `refused` is tee_output() left before its block, by that flush or by a journald
  socket that does not take the connection. `Split` is what the journal's sink makes
  of bytes, the lines and the rest without an end; `Kept` picks the bytes of some
  kinds out of a stream.
* **FilePublish** has every public call of `untrusted_fs.py`, the collection of
  skip counts in `_files.py`, `write_sensitive_file` and `write_config_file`,
  each as its system calls. The path has two directories below the root: `first`
  and `second[d]` are what their names lead to, `leaf[d]` the file's entry in directory
  `d`, `temp[p]` what a call's temporary name leads to, `content` the inodes; a call
  keeps the directory and the file it has opened (`dir[p]`, `fd[p]`), and may be
  refused for a symlink, a kind of file or a size. The task moves directories, replaces
  entries and the temporary name, between any two steps; `Kill` ends a call anywhere.
  `config` is the config file, which is truncated in one step and written in the next,
  which may fail after a part.
* **ConfigStack** is the merge engine: `MergeLevel` is the loop of `deep_merge()`,
  whose calls of itself `DeepMerge` unrolls from the innermost mappings outwards
  (`MaxNesting` bounds how deep they nest). Its reference is `LastWord`: what the
  layers say last of each key. **Paths** extends it with `paths.py`: a process is a
  record of its uid map, its environment and what its config files hold, and
  `Directories(p)` is what it resolves.
* **CommandTree** has the trees of `cli_types.py`; a node's `id` is the identity
  of the `CommandDef`, so that sharing is visible, and an import is a lookup in
  `Registry`. The code's recursions are unrolled by levels: `Level` goes down from the
  roots (`_walk_node`), while `Overlay`, `Extended` and `WireAll` come up from the deepest
  nodes, `MaxDepth` verbs down, each with the body of the recursive function as an
  operator (`OverlayNode`, `ExtendNode`, `WireCommand`). Its references are
  `OverlayIsExact`, `ExtensionIsExact` and `LazinessIsInvisible`, which compares each
  command line with the tree wired in full. `IsForest` is what a program's tree is: its
  ids are those of distinct objects, none of them a copy that `replace()` has yet to make,
  a module gives a full node, and a lazy node has the name of the one it stands for.
* **MatrixConfig** has the acceptance of a declaration, one operator per section
  of the parser, and the selection of slots. `IsTakenWhole` is its reference.
* **Hardening** models `confine_filesystem()` after `harden_self()` or without
  it, one action per system call, while other threads start and end. A Landlock
  domain is the rights it handles and those it grants; `Policy` is what the
  docstring promises, written without the order of the calls.
* **SetupLock** models `setup_lock()` and the at-fork handler: a mutex and
  `_setup_fd` per process, open file descriptions shared by fork, one flock.
  Entering, opening, locking, setting `_setup_fd`, clearing it, closing and
  releasing the mutex are separate steps; `Fork` copies a process with its
  forking thread, `ResetAfterFork` is the handler, `LeaveInherited` the with-block
  a child leaves without having entered it, `End` an exit, a kill or an exec.
  `raced` is a history variable: the children forked while another thread kept a
  descriptor that `_setup_fd` does not name.
* **SetupReceipt** models the receipts of several owners and the transactions that
  the class's docstring (l.105-109) lays down for the packages that use it:
  under the lock, `Preflight` of the whole closure; then for each owner `clear()`
  (`ClearChecks`, `Unlink`), the owner's own `Change` and verification, and
  `write()` (`WriteChecks`, `CreateTemp`, `DumpAndFlush`, `Replace`, `RemoveTemp`).
  `Newer` is what a check that reads the receipt refuses; a check may fail to read any
  receipt, and answers "invalid" then, which is not refused: `unread[p]` has the owners
  where that happened. `Closure[p]` is the version and inputs that program `p` brings
  for each owner, `temp[p]` what its temporary file holds. `Fail` is an exception of any of
  these, `Release` the end of the transaction or of its process at any point. The
  packages' changes are outside the repository; `installed` says only what they amount
  to, or that they are half done. The lock is one holder, as SetupLock's theorems
  justify.

* **Library** states what the algorithms that keep no state promise: a state is a
  `question` put to one of them (a stack of layers and a section, a home, a declaration
  and a host, a tree and what to replace, to add or to run in it), and the invariants
  compare the answer with its reference.

MCFunctions puts these questions, small sets of each, into one run. The questions are
independent of each other; they share a run because each alone is an enumeration of
inputs and nothing else. The behaviours of
Hardening go on from its own initial states in the same run. MCSetup does the same with
the two halves of `setup.py`: a behaviour is about the lock or about the receipts.

Definitions introduced with "Mutant:" are bugs a change to the code could
plausibly introduce, one for each property that shows it can fail; no
specification uses them.

## Runs

| run | instance | shows |
|---|---|---|
| `jobserver_safety` | 2 runs that may take the implicit slot, 1 launcher, 2 tokens, close, cancellation, kill | `HoldsOneSlot`, `TokensConserved`, `WorkerCap`, refinement of SlotPool |
| `jobserver_liveness` | 3 such runs, a launcher and one token, one of the runs and the launcher cancellable, no kill; the timeout of line 131 is fair only once a launcher has called, a wait was cancelled or close() was called | `NoMissedWake`, `EveryRunLeaves`, `AllBackAfterClose`, `CancelledWaitEnds` |
| `matrix` | 2 slots and an unavailable name, `--jobs` up to 2, 2 signals or exceptions | `ExitCodeIsEarned`, `StatusMatchesReport`, `TeardownAlone`, `NothingLeftOpen`, `InterruptCancelsQueue`, `EndsWithAClosedReport`, refinement of SlotLifecycle |
| `matrix_build_only` | expected violation | see Findings |
| `slot` | eight slots of every shape, three phases each, one skip per suite | `PassedIsEarned`, `GroundIsLaid`, `EverySuiteRuns`, `SkipsAreCounted`, `EverySlotEnds` |
| `slot_refused` | expected violation | see Findings |
| `capture` | a pipe of 2 bytes, 3 prints, 1 byte of a child, 1 failure of sink, flush or terminal | `SinkIsFaithful`, `NothingIsLost`, `BlockIsLeft` |
| `files` | 2 calls of every pair of operations, 2 moves of the task, kills, failing writes | `PublishedIsWhole`, `NothingLeftBehind`, `OnlyOwnInodesChange`, `ConfigHasItsWriters` |
| `functions` | the questions above, and 3 threads on kernels with at most one thing missing | `LastWordWins`, `NestedProcessesAgree`, `CompositionIsExact`, `CommandsReachTheirHandlers`, `NothingQuietlyDropped`, `ReportIsTrue` |
| `merge_leak` | expected violation | see Findings |
| `functions_guess` | expected violation | see Findings |
| `setup` | the lock: 2 processes of 2 threads, a forked third, nesting 1, 4 descriptions | `MutualExclusion`, `OwnerKeepsLock`, `OnlyRacesRetain`, `IdleMeansFree` |
| | the receipts: 3 programs (old, new, newer parent with changed inputs), 2 owners, 2 versions | `ReceiptCertifies`, `NewerIsKept`, `NeverTorn` |

Bounds.

* Three runs and two tokens are the least with two sleepers while a token and the
  implicit slot are both out. Where the question is whether a wait ends, one token is
  enough, and three runs besides the launcher have one that holds the implicit slot
  and two asleep, one of whom drains the other's wake.
* `MaxJobs = 2` has a serial run and a pool; a slot waits in the pool's queue
  until a thread takes it, also when there is a thread for each. Two slots and one
  name that is not available show every outcome of a slot next to another one.
  `MaxMishaps = 2` counts signals and exceptions together: a failure and a signal
  during its handling, or the impatient operator's second Ctrl-C.
* Three phases are a provider, a suite that rests on it and one that does not; two
  phases would have no suite after one that a failure must not stop. `MaxSkips = 1`
  tells a merge from an overwrite, with two pytest phases.
* A pipe of two bytes blocks a caller who prints three. One failure is
  enough: after it the pump drops its sink, or is gone.
* Two calls and two moves: a directory moved aside and a link in its place, or
  moved and put back, around any step of a call that another call also
  disturbs.
* Two layers have no value that is overridden twice, or inherited from a layer
  that itself inherits; three have. Trees of up to three roots and command lines of
  up to three tokens, an option with a value among them, have every wrong guess of
  a verb. They nest three deep, additions four (`MaxDepth = 4`), with a lazy node at the
  top, below an eager group and below another lazy one, and a command that has both a
  handler and commands under it. ABIs 0, 1, 2, 3, 7 and 8 are those at which the code decides.
* Four descriptions are as many as three processes can have open at a time, one of
  them leaked; a single nested level shows all of nesting, since the code does not
  count. Two owners and three programs have a closure that is newer in one owner and
  older in the other, and an installation cut short between them, which is what
  the preflight of the whole closure is for.

`CHECK_DEADLOCK FALSE` is set where the system may stop: a killed process, all
processes or calls ended, a block left or stuck behind a child, a question
answered. Symmetry is used for tokens, descriptions and calls, in runs without
liveness only.

Fairness. `Jobserver!FairSpec` has weak fairness of each thread's next step,
since threads are scheduled by the operating system, a with-block that works ends (its
podman run does), and `select()` returns when it is woken. Its timeout is fair in the
code, too; the specification counts on it only once the process is `Disturbed` (a
launcher has called, a wait was cancelled, close() was called), so that `EveryRunLeaves`
shows it to be a safety net otherwise. The other clients, `close()`, `Cancel` and `Kill`
have no fairness, so they may keep tokens for ever. `MatrixRun!FairSpec` has
weak fairness of the main thread and of each pool thread, and rests on
Jobserver's `EveryRunLeaves` for the waits in between, and on SlotRun's
`EverySlotEnds` for a slot under way; signals and failures have none.
`SlotRun!FairSpec` has weak fairness of `Progress`: the commands of a script and
the suites end, and systemd's timer fires; nothing makes a boot complete, or
anything die. `OutputCapture!FairSpec` has it of the caller, whose block ends, and of
the pump; a child need not end, and `BlockIsLeft` assumes that it does.

## Findings

* A build-only run with one failed image reports the images it did build as
  `error`, against README l.77 (`matrix_build_only`).
* `deep_merge()` interprets a mapping or list of the override only where the base
  has one too; the lowest layer with a section brings its `_inherit` and nulls into
  the result as values (`merge_leak`, config_stack.py l.207), against
  tests/unit/test_config_stack.py l.50. `LastWordWins` is stated for the other
  stacks (`RawBottom` names these).

* A pytest phase that fails grows the capability contract all the same, and the next
  suite is refused before a test of it runs (`slot_refused`, inner.py l.605), against
  "pytest phases record the failure and continue, so one run surfaces every failing
  suite" (config.py l.53-55) and l.603's own comment, "The phase above succeeded".
  `EverySuiteRuns` names the phase to blame.
* An option's value that is the name of a lazy command is taken for the verb, and the
  command that was meant is wired without its handler (`functions_guess`, cli_types.py
  l.407), against "a wrong guess costs laziness, never correctness".
  `CommandsReachTheirHandlers` leaves these guesses out by name (`Misguessed`).

The models also have the following behaviours of the code, which a property above leaves
out by name. In the first list a sentence of the repository says otherwise; TLC finds each
of them as soon as the name is taken out of the property.

* `StatusMatchesReport`, `raised # "other"`: an exception that is not an `OSError` (text
  that is not UTF-8, in a fragment or from podman) ends the process with 1, while the
  report is closed with 2, or, from the teardown, with what the walk had earned, success
  included (cli.py l.165, l.175, against l.117). The test of a failing teardown is called
  "does not publish a successful matrix" (test_matrix_report.py l.114).
* `BlockIsLeft`, `refused`: a journald socket that refuses the connection raises out of
  `tee_output()` before the block has run (output_capture.py l.234), although "the block
  still runs, un-teed - durability is a bonus that never blocks the operation" (l.222).
* `PublishedIsWhole`, `killed`: a `write_sensitive_file()` killed between the creation and
  the write leaves an incomplete file that later calls take for the secret (fs.py l.112),
  although it is to "atomically create" (l.97) and to leave "a clean state rather than a
  half-baked secret" (l.118).
* `NewerIsKept`, `unread`: a newer receipt whose read fails is "invalid" and not
  refused (setup.py l.122, l.189), so that an older program removes it and sets up over
  it, although "newer installed setup cannot be replaced by an older package" (l.237).
* `OnlyRacesRetain`, `raced`: a child forked by another thread between `os.open()` and
  `_setup_fd = descriptor` (setup.py l.58), or between `_setup_fd = None` and
  `os.close()`, keeps the flock, although a child "must neither inherit ownership nor
  retain the parent's lock" (l.70).
* `OverlayIsExact`: a group with a lazy node below it is copied by every overlay,
  whatever is named in it (cli_types.py l.466), although "nodes the consumer doesn't touch
  share object identity" (l.197).
* `LazinessIsInvisible`, `FirstVerb(argv) # {}`: a command line without a verb wires the
  lazy commands as placeholders (l.331), which a test expects (test_cli_types.py l.554),
  although the docstring of `wire()` says that the whole tree is materialised (l.310).

About the others the repository says nothing:

* After `close()` has returned, a run that passed the check of jobserver.py l.116
  before may still be admitted; `AllBackAfterClose` shows that it gives its slot
  back.
* A signal between the report's first snapshot and the `try` (cli.py l.153), in
  the except clause or inside `finish()` leaves the report at `running`, or with a
  code that is not the exit status: `late` in `StatusMatchesReport` and
  `EndsWithAClosedReport`. One that lands after the close, while the last lines are
  printed or the scratch directory is removed, changes the status alone, as a broken
  pipe does: `afterwards`.
* A second signal before `shutdown(cancel_futures=True)` has cancelled the queue
  makes the pool's `__exit__` run all of it (cli.py l.342): `InterruptCancelsQueue`
  is about one mishap. Each exception ends at most one join of the pool, so that
  three mishaps reach the teardown with slots running: `TeardownAlone` is proved for
  two, the bound of its run, and so are `NothingLeftOpen`, `StatusMatchesReport` and
  `LifecycleSpec`, which late slots would break.
* A terminal that fails ends the pump, and the block then waits on a full pipe
  (output_capture.py l.184): `terminalOk` in `BlockIsLeft` and `NothingIsLost`. A flush
  that fails in the `finally` (l.200) leaves descriptors 1 and 2 in the capture and closes
  the sink under the pump: `NothingIsLost` is about a block whose `finally` was run to
  its end.
* A config file that does not load empties the layer it stands for, for every
  section in it (paths.py l.207); all processes of the home see the same.
* `write_config_file` truncates in place (fs.py l.89): a kill between truncation
  and write leaves an empty file, a failed write a partial one, and two calls at once mix
  theirs.
  `ConfigHasItsWriters` shows that nothing else does.
* The temporary name of `write_untrusted_bytes` is the task's to replace before
  `os.replace` (untrusted_fs.py l.81): the call then publishes what the task put there,
  which `PublishedIsWhole` does not count as the library's. That the task links the
  unfinished file to the final name itself is the task's own publication and not modelled.

## Proofs

For every set of slots, phases, runs, launchers, tokens, processes, threads,
descriptions, calls, paths, kernels and grants, every size of a pipe and of an output,
every stack of layers, home and declaration, from the named assumptions of the modules
(null values are distinct from what they stand for; tokens and threads are finitely many;
nesting is bounded by a natural number; the caller is a thread; the layers of a stack
are mappings, and operators are not root):

* `JobserverProofs`: `TypeCorrect`; `EveryRunHoldsOneSlot` and
  `ConservationOfTokens`, from the inductive `SlotInv`: that a token in the pipe
  is nobody's, and that a run that gives one back holds it, need each other, and a
  launcher must not even be about to try the implicit lock. `CapHolds` counts:
  the working runs but one inject into the tokens in no other place.
  `WakesAreNotMissed`, from `WakeInv`, which speaks of a run that has found the
  lock busy and is still on its way to sleep; a launcher that has yet to call disturbs
  nobody. `ImplementsSlotPool`: every step
  is a step of SlotPool or a stutter; `OneHolder` says that the choice in the
  refinement mapping has one candidate.
* `MatrixRunProofs`: `TypeCorrect`; `CodeIsEarned` and `QueueIsCancelled` for any
  number of mishaps, and with no more than two of them `TeardownIsAlone`,
  `NothingIsLeftOpen`, `StatusIsReported` and `ClimbsTheLadder` (the refinement of
  SlotLifecycle). `Inv` follows the walk: `LoopInv` says what each loop has left to do
  and who has been submitted, `BuildInv` and `TestInv` what the report says of each
  slot meanwhile, `CodeInv` that a code 0 or 1 is set when the slots have earned it
  and nothing moves any more (`Quiet`), also when the teardown fails later.
  `MishapInv` counts: how many signals and errors it takes to be past a join that was
  never completed. Three are what it takes, and `EndInv`, on top of it, relates the
  exception on its way out, of whichever kind, to the exit code and closes the slots, on
  to the steps behind the close.
* `SetupLockProofs`: `TypeCorrect`; `SetupIsExclusive` and `LockStaysWithOwner`,
  from `LockInv`. Inside one process the mutex excludes. Between two, each owner
  keeps a description of its own (`DescsDiffer`) that is open in its own process
  (`DescIsOpen`), so that nothing another process closes gives up the lock
  (`FlockKept`), and one flock cannot be granted on two descriptions. `FdMeansOwner`
  is what keeps a second thread from taking a set `_setup_fd` for its own.
  `NothingElseRetains` and `IdleLockIsFree`, from `OpenInv` as well: outside the
  children in `raced`, every description a process has open is one that a thread
  keeps, or that its at-fork handler is about to close; and a granted flock is
  open somewhere. So the window of setup.py l.58 is the only leak there is.
* `SetupReceiptProofs`: `TypeCorrect`, `ReceiptsAreTrue`, `NoDowngrade`,
  `ReceiptsAreWhole`, from `SetupInv`: one program at a time is past `idle`; past
  its preflight no receipt of its closure that it has read is newer, which the steps of
  that program keep since they write its own versions only; the owner it changes
  has no receipt until the change is verified; and what its temporary file holds when
  `write()` comes to the rename is its own receipt, whole.
* `LibraryProofs`, the confinement: `ReportsAreTrue`, from `Inv`. `ReportIsTrue`
  alone is not inductive: the last call confines with whatever the ruleset holds, and covers
  whoever lives then. `ConfineInv` adds that the ruleset is what the first
  `granted` grants make of it (`Built`; the lemma `OneMore` is one grant's step,
  `AllIsPolicy` that all of them, in the order of the calls, are the policy, which
  knows no order), and that below ABI 8, where a call confines its own thread only,
  the caller is alone from the count on: only a thread starts a thread
  (`OneIsCaller`).
* `SlotRunProofs`: `TypeCorrect`, `PassesAreEarned`, `GroundIsLaidFirst`,
  `SuitesAllRun` and `CountsAreTrue`, from `Inv`, for slots with any phases.
  `ScriptInv` says what the steps behind the script's place have done, best-effort
  ones aside; the last step of the inner script stands for all of both. `ProofInv` is
  what the proof of the init and of the user manager rest on, `WalkInv` that the phases
  behind the walk have passed, were not selected or are tolerated as long as `$_rc` is 0,
  and that only an aborting command, or a capability that an earlier phase was to
  provide, keeps a phase from running. `StatusInv` carries that
  to the verdict, past the record: one that says 0 is the earned one or was there
  before this walk, and that one is gone once the slot starts. `SkipInv` is that the file
  of counts never says more than was seen, nor less unless a write was cut short.
* `OutputCaptureProofs`: `TypeCorrect`, `BlockLosesNothing` and `SinksAreFaithful`,
  from `IInv`. `NothingIsLost` is an account of the stream: what is on the terminal, what
  the pump has in hand, the pipe and Python's buffer are, in this order and the
  child's bytes aside, what was printed (`LossInv`). It needs where the
  descriptors lead at each step of the caller (`PlaceInv`, `ChildInv`), that each
  redirection finds the buffer empty (`BufferInv`), and that a pump that ends has an
  empty pipe and no writer (`PumpInv`). `SinkInv` is the account of the sink: what it
  stores and keeps is what the pump has forwarded from inside the block, but for the
  bytes it has yet to save. Two lemmas carry them, for sequences of any length:
  however a stream is cut, its pieces have the lines that it has whole
  (`SplitConcat`), and what is kept of two pieces is kept of the whole
  (`KeptConcat`).
* `LibraryProofs`, the algorithms. `LastWordIsKept`: `resolve_section()` is what
  `resolve()` has of the section, since a merge is made key by key and calls itself
  only for what both sides have at that key (`LevelsAgree`, `DeepMergesAre`); and
  layer by layer, the section is a mapping exactly when a layer holds it that no later
  one has put aside, and then the last word on every key (`SectionInv`), unless the
  lowest of these layers is raw. `ProcessesAgree`: the place in the namespaces counts only
  for whether the process is root, which neither the hook nor the agent is, and row by
  row of the uid map for `host_uid()`. `NothingIsDropped`: acceptance goes down to each
  phase and skip, and a slot is skipped for the declared reasons only.
* `LibraryProofs`, the command trees: `CompositionsAreExact` and `HandlersAreReached`, for
  trees of any width and of any nesting that `MaxDepth` bounds. What a place is, at each
  level, comes from `IsForest` once (`PlacesAre`). An overlay or an extension then has a
  lemma for one node (`InOverlayIs`, `InExtensionIs`), one for the places below a node
  (`OverlaidBelow`, `GrownBelow`; a forest is unchanged exactly when every node in it is
  the very one listed, hence no lazy one), and by induction over the levels the new tree
  has the images of the old places and, below the target, the additions (`OverlaidLevels`,
  `GrownLevels`). That untouched branches are shared is an induction from the deepest level up
  (`OverlayShares`), that an extension which is not refused has a target one from the
  roots down (`ReachesTarget`). For the wiring: what `find_at` finds depends on the node
  of the first name alone (`FindsAlike`), which is wired in full if it was guessed
  (`VerbFindsItsNode`); without a guess there is no word on the command line
  (`NoVerbNoWord`), and everything else is wired eagerly. An overlay of an overlaid tree
  is covered after its copies are given ids of their own, as the objects they are have.
* `FilePublishProofs`: `PublishedAreWhole`, `ConfigsHaveTheirWriters`, `NothingStays`,
  `OthersAreUntouched`, from `Inv`: a directory that a call holds is never the one
  outside, since the walk only opens what a name leads to and a link is no directory
  (`DirInv`); an inode with
  a name, or that somebody has open, is whole, and the call that made it is past
  every step that writes (`Settled`), which is what a reader with an old descriptor
  needs; a secret's name belongs to the call that writes it until it is whole; a
  lock or a temporary name belongs to a call that is at a step which drops it; and a
  writer that was alone finds the config file as it truncated it (`ConfigInv`).

The `TypeCorrect` of Jobserver, MatrixRun, SlotRun, OutputCapture, SetupLock and SetupReceipt
are listed without a property: no run spends an invariant on types there.

Induction over data has no theorem of the library that the provers can use, since these
take the statement as an operator. `LeastOne` replaces it: the intervals `0..n` are
ordered by inclusion, which is well founded on finite sets, so a set of numbers has a
least element; `Inductive` and `SeqInductive` follow, with the statement as a set of
numbers or sequences. Recursive functions come with a lemma each that such a
function exists (`KeptExists`, `PairsExists`, ...).

Model-checked only: the liveness properties (under fairness, out of the prover's
reach). Every invariant and every action property of the passing runs is stated by a
theorem.

## Not modelled

* `from_environ`, argument parsing, the listing modes, and everything printed;
  podman itself, whose calls end in a verdict or an `OSError`; `podman.py`,
  `host_tools.py`, the network-error hint and the option lists of `runner.py`: I/O
  without a state of its own.
* A slot named twice in the matrix run (SlotRun has what an earlier walk of a slot left
  behind); a signal inside the few bytecodes between taking a lock and entering its
  `try`.
* The shell text of a script's step, beyond what it needs and whether its failure
  ends the script; window sizes and hints of the capture; the limits on size, events and
  nesting of a YAML file, and name patterns, which are the values `good` and `odd`.
* `read_config_top_level`, the per-process caches and `_safe_subdir` of `paths.py`;
  `ensure_dir` and its wrappers, whose directories no other call modelled
  here reads back; the three floors of `harden_self` that do not bear on
  the confinement.
* Of `cli_types.py`, the definitions of arguments, help texts and `LazyHandler`; trees
  whose siblings share a name are composed, but not wired (`IsWirable`), as argparse
  refuses them.
* `security.py` and the text of `logging.py`: string work; the container templates:
  data; `setup_status`, `require_setup` and `python_identity`, which change nothing. No
  module has a loss of power, which is what the `fsync` calls are for: what a kill leaves
  is what the system calls before it have done.

## Plan

Done: everything above.

1. SetupLock and SetupReceipt composed: the transactions refine those of
   SetupReceipt when they hold SetupLock's lock.
2. SlotRun in the place of MatrixRun's one-step slot, so that a signal kills a
   slot between any two of its steps.
3. `LastWord` for sections with mappings in them: the reference applied at each
   level.

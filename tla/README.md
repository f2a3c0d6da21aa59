# Diagonal in TLA+

Diagonal is a command line tool with a set of subcommands: `diag fix`, `diag
cycle`, `diag root` and others run a user's command again and again, others
decode VCDIFF, cluster files or lines, and compute hashes and statistics.  This
directory has models of it, the TLC configurations that check them, and proofs.
Paths such as `diag-fix.c` are relative to `src/src`.

The models follow the POSIX build.  Each subcommand is a process of its own,
single-threaded.  What makes those that run a command hard is the company they
keep: child processes that fail, are killed or stopped, process ids that come
back, files shared with the children by name, short reads and writes, and steps
that fail half way.  What makes the others hard is long sequences of small
changes to a data structure that must stay sound in between: trees and lists
that are changed while someone walks through them, caches that two parties keep
in step, tables, and counters at their limits.

## Inventory

| component | state | operations | correct means |
|---|---|---|---|
| diag-fix (`diag-fix.c`) | copy of stdin, current input file, counter, exit status | copy stdin, run, wait, compare, print | prints a fixed point; removes its files |
| diag-times (`diag-times.c`) | the same, and the number of runs | copy stdin, run, wait, print | prints the num-th iterate |
| diag-cycle (`diag-cycle.c`) | vector of output files, queue of files to remove, tree from hashes to lists of numbers | copy stdin, run, wait, hash, look up, compare, report | finds the smallest loop, confuses no two outputs |
| diag-root (`diag-root.c`) | two last points and values, temporary file | read guess, evaluate, secant step, print | what it prints is a root |
| running a program (`system.c:289-379`) | child process, its output files | fork, redirect, exec, wait | status and files belong to the run |
| running agents (`system.c:485-529`) | child processes | fork and exec, wait for any | reports an agent that exited |
| diag-pool (`diag-pool.c`) | vector of process ids | launch, wait, respawn | keeps track of its processes |
| diag-rep (`diag-rep.c`) | counter, exit status | run, wait | makes its runs one by one, and gives the last one's status |
| ports (`port.c`) | kind, stream, positions | read and write a block, copy, diff | copies and compares whole contents |
| temporary files (`temporary-file.c`) | path, port | new, destroy | a fresh file |
| red-black tree (`rbtree.c`) | nodes, colours, count | insert, delete, search, minimum, maximum, successor, predecessor | order, colours, a list sorted by key with equal keys in order of insertion |
| single linkage, diag-file (`singlelinkage.c`, `diag-file.c`) | tree of distances, merged pairs, sets | build, pick, walk, merge, group, print | in each round the pairs and their single-linkage distances; groups within clusters |
| diag-line (`diag-line.c`, `line.c`) | buffer; parent vector | read a line, join groups, display | the lines of the input; groups are connected components |
| VCDIFF decoder (`vcdiff.c`, `diag-dec.c`) | sections, address cache, target | read header and windows, decode code by code | what was encoded, or a refusal |
| VCDIFF encoder (`vcdiff.c`, `diag-enc.c`) | rolling hash, tree of copies | roll, look back, contract, expand; cluster, deltas | the script expands to the data |
| containers (`deque.c`, `vector.c`, `set.c`) | their elements | push, pop, shift, unshift, append, insert, erase, contains | sequences and sorted sets |
| trie (`trie.c`) | double array | traverse, insert, relocate | finds what was inserted |
| metrics, LCS (`hamming.c`, `levenshtein.c`, `lcs.c`) | rows of a table, farthest points | compute | the defined distance, a shortest script |
| hashes (`hash.c`, `diag-hash.c`, `diag-uniq.c`) | window, value | init, roll, sort, filter | rolling equals direct; common hashes are counted |
| statistics (`qselect.c`, `diag-mean.c`, `diag-medi.c`, `diag-mode.c`) | array, two trees | select, sum | the defined statistic |
| paths (`filesystem.c`) | tree from depths to paths | scan, map, serialize | all files, or none |
| lists, pairs, byte vectors, hash table, dispatcher, memory, code points (`list.c`, `pair.c`, `bytevector.c`, `hashtable.c`, `diag.c`, `memory.c`, `code.c`) | none of interest | | |

How they interact: the four iterating tools call `diag_run_program` and
`diag_process_wait`, and share with the child the files whose names they build
from its process id on both sides of the fork (`system.c:33,310-317,338-345`);
they copy and compare files through ports, and remove files with `diag_remove`.
diag-pool and diag-rep call `diag_run_agent` and `diag_wait_agent`, which take
whatever `wait()` reports.  diag-cycle keeps its index in a red-black tree of
deques; diag-file (for distances, for the objects met in a round and for
paths), diag-enc, diag-mode and the encoder use that tree as well.  diag-hash
and diag-file share the sorted hashes, the encoder and diag-hash the rolling
hash, and all tools that read lines share `line.c`, which reads through a port.

The behaviours that are hard to test (each with its line in `PROJECT.json`
under "hazards"): which file is handed from run to run and which is removed
when; which failure ends in which exit status; a child that is stopped, killed
or slow; a process id that is used again; children that belong to someone else;
hashes that collide; blocks that end where the content does; a deletion that
frees another node than the one asked for; a pair met twice; an address cache
that two windows share; lines cut by short reads; counters of eight bits.

## The models

`Program` has the state that a tool and its children share: `command` (the
user's command as a function from contents to contents, fixed in a behaviour),
`fs` (what each file holds) and `child` (the process table).  It gives the steps
of a child: opening its files by the three calls of `system.c:318-332`, each a
step of its own, so that an input that is at the same time the output is
truncated before it is read; success and failure, with any part of the output
written; and signals, which kill, stop or continue a child at any moment after
the fork, also between two of these calls.  It gives the operators the tools build their actions from: `Fork`,
`Waitable`, `WaitStatus` and `Reap` for `diag_process_wait`, `Removed` for
`diag_remove`, and `Transferred` for a copy that is cut short without an error.

| module | models | state corresponds to | actions correspond to |
|---|---|---|---|
| `Fix` | diag-fix | `tfin`, `file`, `n`, `r` are the variables of `main`; `pc` is the place in it; `pid` stands for the process and the command with its file names | one per branch of `main`: `Wait` is lines 89-98, `Advance` the case `d == 1`, `Reproduced` and `PrintFile` the rest; every `goto done` is an action or a branch that ends in `Done` |
| `Times` | diag-times | likewise, with `i` and `num` for the counter and -n | likewise |
| `Iterators` | one execution of either | `tool` tells which | `Parent` of the tool, or a step of a child |
| `Iteration` | what the two promise | the value reached, how often the command was applied | `Apply`, `Succeed`, `GiveUp` |
| `Cycle` | diag-cycle | `v`, `q`, `n`, `dqe` as in `main`; `tree` maps a hash to the deque in its node | `InsertHash` and `FindHash` are `find_or_insert`, `Differs`, `Equals`, `Found` and `PushHash` the loop over the deque |
| `Root` | diag-root | `x`, `x1`, `x2`, `r1`, `r2` are `x_n`, `x_n1`, `x_n2`, `r_n1`, `r_n2`, or the last two guesses | `evaluate` is the actions from `RunProgram` to its callers' branches |
| `Agents` | `diag_run_agent`, `diag_wait_agent` | `proc`, `code`: the process table; `mine`: the agents not reaped | each `wait()` is a step |
| `Pool` | diag-pool | `pv`, `i`, `r` as in `main`; `lost` is a history variable | `Launch` and `Respawn` are the two calls of `diag_run_agent`, the rest is `diag_wait_agent` |
| `Rep` | diag-rep | `num`, `early_exit`, `exit_code`, `i`, `r` as in `main`; `outcome` is a history variable | likewise |
| `Port` | `diag_port_copy`, `diag_port_diff` | positions, buffers and results; `pos` is `pos` and `pos1`, `pos2` | each `read_bytes` and `write_bytes` is a step, of the kind of port it is called on |

| `RBTree` | `rbtree.c` | a record with root, comparison, count and nodes by address; `ok` turns false where an assertion of the code fails | operators, one per function; what the code writes for left and for right is written once with a side |
| `Containers` | callers of tree, deque, vector, set | addresses are renamed after each call, as `malloc` is free to choose them; `call` is the last call with its arguments | one call each |
| `Store` | what the containers promise | lists of entries, and `call` | the same calls, each with what it does to the list: a deletion takes away the entry it names |
| `Linkage` | `singlelinkage.c`, grouping in `diag-file.c` | `m`, `aux` (`tree`), `cur`, `nxt`, `n`, `t` as in `analyze`; `live` is a history variable | `Pick`, a step of `Walk` for each node, `Push`, `Group` for each couple, `PrintGroups` |
| `Vcdiff` | decoder, and an encoder that follows the RFC | `vm` as in the code; `encoder` is external; `read` is a history variable | a step for each header, window and code; `ShortRead` is a `read()` that gives less of a section than there is, `ReadFails` any read that fails |
| `Contract` | `diag_vcdiff_contract`, `lookback`, `diag_vcdiff_expand` | `i`, hash value and `arr`, copies in the tree | `Lookback`, `Finish` |
| `Hashes` | `hash.c`, `cmp` of diag-hash, the hash metrics of diag-file | | operators |
| `Lines` | `diag_line_read` | buffer, line so far | `Fill`, `Scan` |
| `Groups` | diag-line, clusters of diag-enc | parent vector; `wide` tells a build whose pointers are wider than `unsigned int` | operators |
| `Strings` | metrics, deltas, LCS | rows; farthest points and paths | operators |
| `Stats` | diag-medi, diag-mode, diag-mean, diag-uniq | | operators, with `qselect.c` by what its moves leave |
| `Paths` | `diag_paths` | | operators on a tree |
| `Trie` | `trie.c` | `base` and `check`; `words`, `tops`, `collided`, `outside` are history variables | `Insert` |
| `Tools` | one run of one of these | `tool`, `input`, `state` | the steps of the tool, or one step to its result |

`Tools` instantiates the modules with loops (`Linkage`, `Vcdiff`, `Contract`,
`Lines`, `Trie`) with its own `state`, and takes the pure algorithms as one step
from an input to a result, which the properties compare with a definition that
is written without regard to the code.

`MCIterators`, `MCCycle`, `MCRoot` and `MCTools` give values to constants for
TLC.
`PoolProofs`, `RepProofs`, `PortProofs`, `CycleProofs`, `RootProofs` and
`ToolsProofs` have the proofs about the module of that name, `IteratorsProofs`
those about `Fix` and `Times` by way of `Iterators`, and `ProgramProofs` the
lemmas about `Program` that three of them share.

`Seqs` has three operators of the community modules as recursive functions.  What
an instance has from a library cannot be unfolded in a proof, so that the
modules that `Tools` instantiates take them from there.  RECURSIVE operators are
in `Containers` only.

Definitions marked as faulty are not part of any specification.  Each is a way
the code next to it could have gone wrong, and shows that some property would
notice.

Abstractions, common to all: contents are members of a small set with a relation
`Partial` of what may be there when one is not there in full; err files are
never read, so that they hold `Empty`; formatting, options, messages and memory
management are left out; a failure of `diag_command_new` is merged with the
failure of fork, both being `goto done` without a child.  Writes to stdout are
taken to be complete (`Port` looks at those that are not).

## The runs

| run | module | question |
|---|---|---|
| `iterators` | `MCIterators` | do diag-fix and diag-times print what they should, keep the input of a run in place, implement `Iteration`, and end? |
| `iterators_signals` | `MCIterators` | what of the files still holds if commands are stopped and process ids are recycled? |
| `iterators_stop` | `MCIterators` | expected violation: a stopped command is taken for one that succeeded |
| `cycle` | `MCCycle` | is the loop found the loop of the orbit, are vector, files and index in step, does the search end? |
| `root` | `MCRoot` | is what is printed a root, does the command run on the number the tool has, does the search end with -n? |
| `root_status` | `MCRoot` | expected violation: exit status 0 without a root |
| `pool` | `Pool` | are all agents tracked, and how many are there? |
| `pool_manual` | `Pool` | expected violation: a killed agent is not replaced |
| `rep` | `Rep` | runs, their order, early exit, exit status, end |
| `port` | `Port` | are copies complete and comparisons right? |
| `containers` | `Containers` | does every sequence of calls do what `Store` says, and do the colours of the tree stay sound? |
| `tools` | `MCTools` | does each of the other tools do what its name promises on all small inputs? |

Bounds and why they are enough:

* Contents: three, one a prefix of the other (two in `iterators_signals`, four
  numerals in `root`).  All functions on them serve as the command, so that all
  shapes of orbits occur: a fixed point at once or later, loops of length one to
  three, with and without a tail.
* `MaxRuns`: diag-fix and diag-cycle have no limit of their own.  With three
  contents an orbit repeats after three runs at most, so 3 lets diag-cycle
  always finish, and with 4 diag-fix finishes whenever it can.  When diag-fix
  does not converge the model stops following it (`BoundReached`).
* `MaxNum`, `MaxIter`: up to four runs of diag-times, three of diag-rep, two
  iterations of diag-root; the first, a middle and the last run differ.
* Process ids: two or three.  A run has one child at a time, and the output of
  the run before is still there, named after its id; fresh ids need one for each
  file kept.
* `Port`: blocks of two bytes and contents of up to five, so that there are no,
  one or two full blocks with and without a rest; a region of four bytes.
* `Pool`: four process ids for three slots, any of which may be in use before.
* `Containers`: five entries with two keys in either order, which has trees of
  three levels, every case of rebalancing, and every order of insertions and
  deletions that leads there; six entries pass as well, with 214432 states.
* diag-file: up to five files with any order of their distances, equal ones
  included, so that the tree has up to ten nodes and four rounds are made.
* diag-dec: files of up to three codes in any division into windows, which have
  all modes of addresses among them; sizes and addresses at the limits of the integers of
  seven bits and of the counter of RUN.  All files are cut between any two of
  their windows, those of up to two codes (`MaxCut`), in one window or two, at
  any byte; reads come short or fail at any section and window.
* Lines: every text of up to six characters, one of three kinds being the
  newline, with a buffer of two; all cuts by short reads, an error at any place.
* Strings of up to four (metrics), five (hashes), seven (diag-uniq) or eight
  (contract) bytes of two kinds; hashes modulo 8, so that they collide and wrap.
* Samples of up to five numbers; lines of up to five characters with columns.
* Four directories within each other, one empty, any of them failing, and one or
  two arguments, a missing one among them.
* Six of the words of up to three bytes of two kinds, in any order, put into the
  trie: relocations occur from the second word on.

Deadlock is not checked in `tools`, since all its tools end.

Fairness.  A tool is a sequential program that keeps executing: weak fairness of
its steps.  The command is assumed to terminate whenever it runs, that is weak
fairness of a child's own steps; signals are not assumed to come or to stay
away.  No fairness is asked of the order of children, and none of success: a
run may always fail, which ends the tool.  `Terminates` of diag-fix has the
hypothesis that the orbit converges within the bound, `Terminates` of diag-root
that -n was given; without these the code does not promise to end.

What the runs show beyond the expected: with recycled process ids the files are
still handled correctly, only the results are not to be trusted.  With stopped
commands the user's input is safe and the copy of stdin is removed, but a child
that was stopped while it opened its files or wrote to them may leave them, or
make its err file, after the tool has succeeded; `FilesInTheEnd` says that
nothing else is left (`Unreaped`).  diag-rep is immune to children that it did not start even though
`diag_wait_agent` stores their statuses into its variable.  The pool tracks its
agents even when a stale slot holds the process id of a new agent.

## Where the code and its documents differ

Each is recorded with its lines under "findings" in `PROJECT.json`.  Three
differences are shown by runs that expect a violation.

* diag-fix takes a stopped command for a successful one (`system.c:372`).  The
  same holds for the other three tools that use `diag_process_wait`.
* diag-root exits with 0 after most failures (`diag-root.c:171,206,211,219`).
* diag-pool does not replace an agent that was killed (`system.c:519`).

The others were met while modelling, and bound what properties say.

* diag-rep exits with an older status if its last run is killed;
  `StatusOfLastRun` makes the exception.
* diag_port_copy takes short reads for the end and short writes for complete
  ones; `CopiesWhatWasRead` supposes complete writes.
* diag-file prints the files of one cluster in several groups, and compares -I
  and -F with counters (`diag-file.c:301`, `singlelinkage.c:146`); `GroupsSound`
  claims what is left.  Its levenshtein is that of files of one size
  (`diag-file.c:60`); so `MetricsExact`.
* The decoder keeps one cache for all windows, counts HERE and copies in its own
  way and has a RUN that does not end (`vcdiff.c:701,738,746,747,771`).  The
  encoder of the model follows the RFC; it keeps `plain` as long as a file uses
  none of this, and `Decodes` asks for the right target of plain files only.  Of
  other files it asks that they are refused when cut within a window, or when a
  read comes short or fails.
* A complete file is refused if a read from a pipe gives less of a section than
  was asked for (`vcdiff.c:92-94`, `port.c:41-47`); `Decodes` says so.
* A script whose copies overlap does not expand to the data (`vcdiff.c:979`);
  `ExpandsUnlessOverlap` says that this is the only case.
* diag-hash -s is no order on hashes far apart (`diag-hash.c:30`).  For files
  with such hashes, as most have, `SharedHashes` has upper bounds only: nothing
  is counted that is not shared.  That nothing is missed is said of files without
  (`near`).  Hashes are not windows: what is counted is at most the windows shared
  if no two different ones collide, and at least those if `near`.
* diag-uniq writes a wrong tail (`diag-uniq.c:100`), of which `UniqFilters` claims
  the length only; diag-mean takes zeros for
  columns that are not there (`diag-mean.c:84`), and the tools that read lines
  take an error for the end (`line.c:79`).
* diag-enc reads pairs of int as pairs of pointers and dereferences NULL for one
  line (`diag-enc.c:126,132`).  `SameGroups` says that it finds the groups in a
  build of 32 bits, for two lines or more, and exactly when it leaves what the
  program defines: with wider pointers as soon as any two lines are near.
* The trie overwrites slots in use and writes beyond its array
  (`trie.c:148-158`); `FindsInserted` ends where `collided` or `outside` begins.
* A listing of a directory may fail for an old errno, and directories in
  directories count as files in the usual build (`filesystem.c:76,96`).

A tool that fails leaves files behind: diag-fix, diag-times and diag-root the
outputs of the failed run, diag-cycle all its files.  The models have this;
`FilesInTheEnd` is about success.  With -O diag-cycle leaves the copy of stdin.

## Proofs

The theorems are `Spec => []P`, but for one action property and one refinement.
Each rests on an inductive invariant (`IInv`, in `IteratorsProofs` `FilesInv` and
`ValuesInv`) that TLC has checked on small instances, and on one lemma for each
action or group of actions that change the same things.

| proved about | theorems | hypotheses on the constants |
|---|---|---|
| diag-fix, diag-times | `FilesGoneInTheEnd`, `UserInputIsKept` | |
| | `SuccessLeavesNothing` | `~Stops` |
| | `FixPrintsFixedPoint`, `TimesPrintsIterate`, `InputStaysInPlace`, `IteratorsImplementIteration` | `~Stops`, `~PidsCollide` |
| diag-cycle | `CycleFindsLoop`, `CycleKeepsIterates`, `CycleIndexesAll`, `CycleFilesInTheEnd` | `~Stops`, `~PidsCollide` |
| diag-root | `RootPrintsRoot`, `RootInputMatches` | `~Stops`, `~ShortTransfers` |
| diag-pool | `PoolTypeOK`, `PoolTracksAll`, `PoolHasItsSize` | |
| diag-rep | `RepRunsDoNotOverlap`, `RepStatusOfLastRun`, `RepRunsAll` | |
| ports | `PortCopiesWhatWasRead`, `PortReadsToTheEnd`, `PortDiffCorrect` | |
| reading lines | `LineReaderReadsLines` | |
| metrics of strings and files | `MetricsAreExact` | |
| diag-uniq | `UniqFiltersBlocks` | |
| diag-hash, diag-file | `SharedHashesCounted` | |

All of them suppose the assumptions of the modules they are about, which TLC
evaluates in the runs.

### Tools that run a command

`DataAssumption` and `ProcessAssumption` say that contents
have a relation `Partial`, which holds of each content and itself, and that exit
statuses are in `1..255`.  There are three switches.  `Stops`: commands may be
stopped and continued.  `PidsCollide`: a process id may come back while files
named after its previous holder are there.  `ShortTransfers`: a numeral may be
written in part.  Theorems about values suppose that they are off where the code
gives no answer to what they stand for: a stopped command is taken for one that
succeeded (run `iterators_stop`), the output of a run with an old process id
overwrites the older output, and a numeral cut short is another number.  These
are the hypotheses of the runs `iterators` and `cycle`; `root` has `PidsCollide`
off, which the theorems about diag-root do not need.

`ProgramProofs` says once what each step of a child and each of the operators
`Fork`, `Reap` and `Removed` changes.  `ChildChanges` bounds what any step of any
child can do to files: it changes only its own output and err file, and makes
them only when it opens them, before it runs.  `ChildWithoutStops` says that
nothing is stopped unless `Stops`.  `RunOf(p)` is what is known of a child all through its run,
that its input is what it was given and its output is, in the end, what the
command makes of it; `ForkStartsRun` establishes it, `ChildKeepsRun` keeps it if
nothing is stopped, and `WaitedFor` is what `diag_process_wait` may conclude
from status 0.

`IteratorsProofs` first shows that every step of `Fix` and of `Times` is one of
eight steps that both tools have in common (`ParentSteps`), from `Begins` to
`Prints`, so that the rest is proved once for both tools.

`FilesInv` needs nothing of signals and process ids.  `FilesInTheEnd` is about
the end only, and is not inductive: `NoneForgotten` says at each place of the
program which of the files made can be there, apart from those of children whose
end nobody has waited for, and `FileToRead` that the copy of stdin is kept in
mind (`tfin`) exactly as long as it is the file to read.  A stopped child may
open its files after the tool has turned away from it, but it stays in the
process table, and so its files stay `Unreaped`.  `OnlyAwaited` says that without
stops there is no such child, from which `SuccessLeavesNothing` follows.
`UserInputKept` is an action property and follows from it, since what
is removed as an input after the first run is an output.

`ValuesInv` adds that the one child is a run on the file to read (`OnlyChild`),
that this file is there and holds the value reached (`FirstValue`, `FileKept`),
that after a run the output is the command's (`OutputMatches`), and that
diag-times is at the n-th element of some orbit (`RunsDone`).  The orbit is a
function that satisfies the equations of the iteration (`IsOrbit`), not a
recursive definition; each run extends it by one element.

The refinement of `Iteration` maps the value to the content of the file to read,
or of the output when that has taken its place, and the outcome to the exit
status.  With `ValuesInv`, handing over an output is `Apply` (`AdvancesApplies`,
`HandsOverApplies`), printing is `Succeed` (`PrintsSucceeds`), each of the ways
to fail is `GiveUp` (`FailsGivesUp`), and everything else is a stutter, the steps
of the children included: they never touch the file that holds the value.

In `CycleProofs` the four properties hold together or not at all: that no
iterate is overwritten (`IteratesKept`) needs to know that the output of a run
is none of the files in the vector (`VectorInStep`), the report is right
(`LoopFound`) because all earlier iterates are in the index (`IndexComplete`)
and those under the same hash that were passed differ from the output
(`Passed`), and the files left in the end are those of the queue
(`NoneForgotten`).  Nothing is assumed of the hash.

In `RootProofs` the invariant ties the run under way to the numeral of `x`
(`InputMatches` and `OnlyChild`); the numbers that the secant method meets are
any numbers.

### Agents

`AgentsAssumption` says that there are process ids, that exit statuses are in
`0..255`, and that the switch for signals is a Boolean.

`PoolProofs` proves for every number of slots, every set of process ids and
every set of statuses:

* `PoolTypeOK`: `Spec => []TypeOK`
* `PoolTracksAll`: `Spec => []AllTracked`
* `PoolHasItsSize`: `Spec => []PoolSize`

from `PoolAssumption` (there is at least one slot), `UnsetAssumption` (no
process has the id that an unset slot holds) and `AgentsAssumption`.

Neither `AllTracked` nor `PoolSize` is inductive.  `AllTracked` speaks of the
waiting pool, and after an exit it must be known that no *other* agent was in
the slot to be refilled alone; `SlotsOfAgents` says where the slots of agents
are at each place of the program.  `PoolSize` is disturbed if `AgentExited`
finds a child that is not an agent in a slot; `SlotsAreOwn` says that a process
id that is in use and in a slot is an agent's, and it depends on `AgentsExist`,
that an agent not reaped holds its process id, so that no other process can get
it.  `AgentCount` has what the proofs need of the cardinality of the set of
agents.

`RepProofs` proves for every number of runs, every set of process ids and every
set of statuses:

* `RepRunsDoNotOverlap`: `Spec => []NoOverlap`
* `RepStatusOfLastRun`: `Spec => []StatusOfLastRun`
* `RepRunsAll`: `Spec => []RunsAll`

from `RepAssumption` and `AgentsAssumption`.  The hazard is a child that is not
the agent, whose status `diag_wait_agent` stores all the same.  `Awaited` is the
strengthening: while the tool waits, its agent either is not reaped, and then
nobody else has its process id, or has been killed, and then nobody has it, so
that the loop can end only at the end of the children.

### Ports and lines

`PortProofs` proves for every set of bytes, every length of the buffer, every
size of the memory behind an output and contents of every length (`MaxLen` is
only assumed to be a natural number):

* `PortCopiesWhatWasRead`: `Spec => [](TypeOK /\ CopiesWhatWasRead)`, where
  `TypeOK` also says that nothing `malloc` left in the buffer is put out
* `PortReadsToTheEnd`: `Spec => []ReadsToTheEnd`
* `PortDiffCorrect`: `Spec => []DiffCorrect`

from `PortAssumption`.  The properties speak of the end; the invariant says what
holds on the way: the buffer has the piece of the content between the two
positions (`Block`), what a read says of its length is true (`AfterRead`), the
output has what the blocks before have (`Copying`), and the contents agree up to
the current blocks (`Agree`, in `Diffing`).  `BlockContinues` is the step of the
copy and `BlocksAgree` that of the comparison; `VerdictIsRight` covers the ways
in which the last blocks can differ.

`ToolsProofs` begins with lines, and proves for every set of characters, every
input and every size of the buffer that `Spec => []LinesRead`, from `LineSizes`
(the buffer has room for a character, the newline is a character), which `Tools`
assumes.  `LinesRead` says
that there are places in the input, each a newline but the last, which may be
its end, such that the lines returned are what is between them.  The
invariant adds where the rest of the input is (`FollowsOn`): what was read of
the next line and what is left in the buffer continue the lines returned up to
the position of the port, and there is no newline in the former.  After a last
line without a newline nothing follows (`Behind`); without this case the
invariant would not be inductive, since the reader learns only from the next
read that the input is over.  `NextLine` is the step that adds a line.

### Algorithms on strings and files

The other theorems of `ToolsProofs` are about algorithms that take one step in
the model, so that their invariant only says that the result is the operator's
(`StringsInv`, `UniqInv`, `HashInv`), and the proof is about what a recursive function
computes.  Its means are at the beginning of the module: `SetInduction` and
`StrongInduction` have a set of numbers for a parameter, not an operator;
`Recursion` gives the function that a recursive definition stands for, if the
values it refers to have a smaller rank, and `PrimitiveRecursion` is the case of
a loop.  A recursive definition is a CHOOSE, so that nothing is known of it
before its equation is known to have a solution.

`MetricsAreExact` is `Spec => []MetricsExact`, from `TextsAssumption` (the texts are
sequences of numbers).  The way goes over tables of edit distances (`IsTable`),
functions on pairs of places in the two strings:

* the recursive definition of the distance goes from the ends of both strings
  backwards, the code from their beginnings forwards: `Backwards` and the
  lemmas on it show that both tables end in one number, since there is a path
  of the same cost;
* the code keeps two rows of the table: after i rounds, the row is row i;
* it swaps the strings so that the second is the shorter one (`TableSwapped`),
  and cuts off what both have in front and at the end.  That this loses nothing
  rests on neighbours in the table, which differ by one at most;
* `LevenshteinIsEditDistance` puts this together, and for the metric with a
  limit `ELevenshteinIsEditDistance`;
* `HammingIsCount` and `EHammingIsHamming`: the loop that counts, and the one
  that gives up, count what differs.

`UniqFiltersBlocks` is `Spec => []UniqFilters`, from `BlocksAssumption` (files are
sequences of numbers, the count is not 0).  `Written` is the invariant of the loop:
after m blocks the output has those that were kept, each at the place that the
number of those before it gives, and nothing else; `WrittenStep` adds a block.

`SharedHashesCounted` is `Spec => []SharedHashes`, from `HashAssumption` (files are
sequences of numbers, windows and bases are not 0, as `hash.c` asserts) and
`ModulusAssumption` (the modulus is even).  It has five parts:

* `RollIsHash`: rolling the hash of a window gives that of the next one.  While
  both windows are read byte by byte, the two hashes differ by the first byte
  times the factor so far, modulo the modulus (`RollingStep`, `Congruent`);
  `CollectHashesWindows` is the loop over the file;
* `SortedAscends`: the comparison is a difference that wraps around.  On hashes
  that are less than half the modulus apart it is the difference itself
  (`CmpIsDifference`), hence an order, and the sort leaves the same hashes in
  ascending order.  Beyond that nothing is supposed of the sort but that it
  moves hashes around (`SortedArranges`);
* `MergeCountsCommon`: in each turn of the merge, what was counted and what the
  rests of the files have in common (`Common`) are what the files had in common
  in the beginning (`CountingTurns`);
* `MergeCountsShared`: whatever order the two lists are in, the merge counts a
  pair of places that have one hash and that no earlier pair used
  (`MatchingTurns`).  Such a matching is not larger than what the lists share:
  each of its pairs goes to its hash with its number among the pairs of that hash
  (`MatchingFits`);
* `SharedGrows`: what two lists share can be matched (`SharedMatches`), and is a
  matching of any lists that agree at these places.  Windows that are
  equal have equal hashes, and equal hashes are of equal windows if none collide;
  this leads from the hashes to the windows.

### What stays with TLC

* Liveness: `Terminates` of each tool.
* `Containers` with `Implements` and `StructureSound`, which has RECURSIVE
  operators, and what is built on a red-black tree: `GroupsSound` (diag-file) and
  `SameGroups` (diag-line and diag-enc) would need that a tree is in order
  after insertions, and balanced ones after deletions while walking.
* `Decodes` and `ExpandsUnlessOverlap`: an invariant would have to say what the
  rest of the file decodes to, at each place of the decoder.
* `EditScripts`: that the script of `lcs.c` is as short as possible is a theorem on
  the greedy search along diagonals.
* `StatsExact`, `PathsComplete` and `FindsInserted`.

Type correctness is stated as a property of its own where it says more than the
ranges of variables (`Pool`, `Port`); elsewhere `TypeOK` is a part of the
invariant.

## Not modelled

* Code tables that a VCDIFF file brings along (`vcdiff.c:378-485`): the decoder
  runs a second one on them, which is the one that is modelled; `addr_encode`,
  which nothing calls; dumps and statistics of `diag-dec` and `diag-enc`.
* Ports byte by byte, their opening and closing; the choice of the temporary
  directory; file mappings, and what the wrappers of `memory.c` do when memory
  runs out, which is to end the process.
* Byte vectors, and lists and pairs on their own, which are thin wrappers around
  memory (the path that `lcs.c` builds of them is a sequence in `Strings`); `hashtable.c`, a stub
  that stores nothing; the hash of 64 bits and Adler-32, which no tool takes.
* Parsing of options, wording and layout of what is printed, the dispatcher
  `diag.c`, the conversion of code points, the Windows branches.
* Floating point: numbers of the statistics are small integers, those of
  diag-root abstract values.  Infinities and NaN are left out: `DivByZero` is the
  case of two equal values, where the code asks whether their difference is 0
  (`diag-root.c:204-205`), which for two infinities it is not.

## What could follow

The data structures without recursion, so that single calls can be proved about:
the balance of `RBTree` after one insertion, the sections and the cache of
`Vcdiff` after one code, and the slots of `Trie` after one relocation; code
tables in `Vcdiff`.

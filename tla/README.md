# A verification project for pybatsim

pybatsim is the Python side of the Batsim simulator of batch schedulers: Batsim
simulates a cluster and its jobs, pybatsim runs a scheduler, and the two talk over a
ZeroMQ socket. This directory holds TLA+ models of pybatsim, the TLC runs that
check them, and proofs checked by TLAPS. `PROJECT.json` is its index: every
definition with the lines it models, every run, mutant, finding, hazard and theorem.

## 1. Inventory

| Part | State | Operations | Talks to |
|---|---|---|---|
| `batsim/batsim.py`, class `Batsim` | `jobs` (with `job_state` and `state` of each), the counters `nb_jobs_*`, `jobs_manually_changed`, `_events_to_send`, `_current_time`, `running_simulation`, `no_more_static_jobs` | `_read_bat_msg` (one message: receive, dispatch every event, reply), `execute_job(s)`, `reject_jobs`, `kill_jobs`, `change_job_state`, `register_job`, `notify_*`, `wake_me_up_at`, `consume_time`, resources, energy, metadata, `resubmit_job` | the simulator by messages, the scheduler by callbacks |
| `batsim/network.py` | one socket | `send`, `recv` with a timeout | the simulator |
| `batsim/tools/launcher.py` | none | exit code from the counters | `Batsim` |
| `batsim/validatingmachine.py` | `availableResources`, `jobs_waiting`, `previousAllocations` | a scheduler around the scheduler (`--protect`), replaces `bs.execute_jobs` | both |
| `batsim/storageController.py` | storages with their datasets, tags, timestamps, free and reserved space; `current_transfers` | `ask_data_transfer`, `make_space` (LRU), `data_staging_completed`, `stop_all_data_transfers` | `Batsim` by registered jobs, the scheduler by callbacks |
| `schedulers/schedSlurm.py` | `pending_jobs`, `running_jobs`, `available_resources`, partitions, usage statistics | `schedule`, `onJobSubmission`, `onJobCompletion` | `Batsim` |
| `schedulers/fillerSched*.py` | open jobs, available, unavailable and running machines | first fit; machines that fail and come back | `Batsim` |
| `schedulers/easyBackfill.py` | linked list of free spaces, running jobs, reservation | `assignJob`, `unassignJob`, `allocBackFill` | `Batsim` |
| `schedulers/fcfsSchedSleep.py` | five sets of machines by power state | `scheduleJobs`, `onMachinePStateChanged` | `Batsim` |
| `schedulers/intervalContainer.py` | linked list of intervals with a state | `changeState` | none |
| `schedulers/schedBebida.py` | free, available and to-be-removed machines | removal of machines, kill and resubmission | `Batsim` |
| `batsim/sched/` | objects `Job`, `Allocation`, `Resource` and their states | the high-level API: the job life cycle, `fill`, `backfill` | `Batsim` |
| `experiments.py`, `postprocessing.py`, `cmds/`, generators, profiles, `common_pyss_adaptator.py`, `unMaintained/` | | process launching, data, wrappers | not modelled (section 5) |

**How they interact.** The socket is REQ/REP, so the two processes alternate. While
pybatsim waits, the simulator applies the commands of the last reply one by one,
advances its clock, and queues events; it then sends them all as one message.
pybatsim dispatches the events in order, each to one callback, in which the
scheduler appends commands to `_events_to_send`; after the last event comes
`onNoMoreEvents`, and one reply leaves. The constructor of `Batsim` already
handles the first message, and calls `onAfterBatsimInit` after its reply.

**What is hard.** There is one thread, yet what pybatsim knows lags behind what
happened: a job may complete while the order to kill it is under way, a registered
job may be executed before it is acknowledged, and several completions may arrive
together, each making the scheduler hand out machines again. A machine may be announced
unavailable while a job runs on it, switch off while a job that wants it arrives, or be
asked back while the jobs on it are being killed. Backfilling works on a schedule that is
changed for a moment, and must be what it was afterwards. The timeout of `recv` turns an everyone-waits situation into `onDeadlock`. `PROJECT.json`, "hazards",
lists these at their lines.

**What makes each part correct.**

- `Batsim`: its job table says what really happened to every job about which
  nothing is under way; each counter is what one gets by counting the jobs; a
  killed-jobs callback names killed jobs only; a correct scheduler never makes the
  simulator abort; every message gets its reply; the exit code is 0 in the end.
- `SchedSlurm`: no machine is given twice or lost; a job gets as many as it asked for,
  in its partition; jobs start in the order of priority unless they do not fit; no
  job that fits waits while machines are free; the simulation ends.
- `StorageController`: the capacity of a storage is never exceeded; a dataset that
  is announced is there (which `storage_arrival` refutes); tagged datasets stay, others
  leave in the order of their last use; every transfer ends.
- `ValidatingMachine`: accepts a correct scheduler, and its own account of the machines
  is the simulator's. What it does not forward is lost: a scheduler that works in
  `onNoMoreEvents` does nothing behind it.
- Fillers: what they take for available is idle and not announced unavailable; no
  open job is left that fits.
- FCFS with sleep: its account of each machine is the simulator's, through every switch;
  no machine stays awake, or asleep, for nobody.
- EASY: the list of free spaces is exact and maximal outside of a pass; nothing that
  could be backfilled is left; the reserved job is not delayed (which
  `easy_reservation` refutes).
- Bebida: nothing runs on a machine that was given back; what is asked back is given
  back; a job that was killed runs again (which `bebida_balance` refutes).
- `batsim/sched`: jobs, allocations and resources agree, no assertion fails once the clock has
  left 0 (at 0 one can, see `HighLevel` in section 2), no temporary allocation stays, and a job
  at the head is never delayed by one behind it.

## 2. Modules

| Module | What it is |
|---|---|
| `Batsim.tla` | the message loop, the API and the simulator; also the most general scheduler that respects the API |
| `MCBatsim.tla` | instances for TLC |
| `Batsim_proofs.tla` | the types, the counters, the job table and the end, for any client |
| `Cluster.tla` | abstract: exclusive allocation of machines to jobs |
| `SchedSlurm.tla` | the SLURM-like scheduler; EXTENDS `Batsim` |
| `MCSchedSlurm.tla` | instances for TLC |
| `SchedSlurm_proofs.tla` | the types of `SchedSlurm`; its machines, and the simulator's; work conservation and priorities; no job is lost, it implements `Cluster`, and `Cluster` is safe |
| `Replicas.tla` | abstract: datasets on storages of limited capacity |
| `StorageController.tla` | the storage controller; EXTENDS `Batsim` |
| `MCStorage.tla` | an instance for TLC |
| `Sums_proofs.tla` | what the folds of the community modules compute, for finite sets and sequences |
| `Storage_proofs.tla` | the accounts of the storages, eviction, that they implement `Replicas`, and that no transfer is lost |
| `Platform.tla` | the simulator and the loop as a scheduler without kills sees them |
| `ValidatingMachine.tla` | the wrapper of `--protect`; EXTENDS `Platform` |
| `FillerSched.tla` | `fillerSched.py` and `fillerSchedWithEvents.py`; EXTENDS `ValidatingMachine` |
| `FcfsSchedSleep.tla` | `fcfsSchedSleep.py`; EXTENDS `ValidatingMachine` |
| `Launcher.tla` | composes the simulator, the wrapper and one of the three schedulers |
| `MCLauncher.tla` | an instance for TLC |
| `Launcher_proofs.tla` | the inductive invariant of `Launcher`, and its theorems |
| `EasyBackfill.tla` | `easyBackfill.py`; EXTENDS `Platform` |
| `MCEasyBackfill.tla` | instances for TLC |
| `EasyBackfill_proofs.tla` | the list of free spaces stays exact, and no job that could run is left behind |
| `Bebida.tla` | `schedBebida.py` with its own simulator, which kills and lends |
| `MCBebida.tla` | instances for TLC |
| `Bebida_proofs.tla` | its machines are used soundly, and registration is closed only at the end |
| `HighLevel.tla` | `batsim/sched` and the three schedulers written on it; EXTENDS `Platform` |
| `MCHighLevel.tla` | an instance for TLC |
| `HighLevel_proofs.tla` | no assertion fails after time 0, the objects agree with Batsim, EASY keeps its promises |

### `Batsim`

`phase` is the place in `_read_bat_msg`: `recv` (in `network.recv`), `events`
(between two events of the `for` loop), `handler` (in a callback), `init` (in
`onAfterBatsimInit`), `ended`, or the two ways to fail, `deadlock` (`onDeadlock`
raised) and `exception` (the handling of an event raised). `events` holds the rest
of the message with the event that is dispatched at its head. Each branch of the
`if/elif` chain is an action `Dispatch...`; the API calls are operators
(`ExecuteJobs`, `RejectJobs`, ...) that a scheduler's actions use as conjuncts.
`job_state` and `state` are two variables, as they are two attributes in the code:
the constructor and the dispatcher write the first, `execute_job` and
`reject_jobs_by_id` the second. When JOB_SUBMITTED arrives for a job that is
already in the table, its object is replaced, so `state` is reset.

`truth` is what the simulator knows about each job. The simulator is external: its
actions are what `batsim.py` relies on (a static job is submitted once, only a
queued job can be executed or rejected, the completions of killed jobs come before
the acknowledgement of the kill, whose progress has the jobs that were running).
A command that cannot be obeyed makes it abort. Nothing else is in flight: the socket
neither loses nor reorders.

Left out: the payload of commands and events that no decision of the loop depends
on (profiles, allocations as strings, energy, metadata), the branches that only
forward to a callback (FROM_JOB_MSG, RESOURCE_STATE_CHANGED, ANSWER, machine
events), Redis and the publisher. The commands of a reply are sorted by
timestamp; `_current_time` only grows while they are appended and the sort is
stable, so the sort changes nothing and the model has no timestamps in commands.
`Timeout` happens only when nothing can come any more: the model does not say how
long the simulator may compute before it answers.

The client of `Batsim` (`ClientCall`, `ClientConsume`, `ClientReturn`) makes any call
that respects the API in any callback: it executes, rejects or changes a job at most
once, kills what it executed and has not seen completed, registers nothing once it
has closed the registration, and asks to be woken up at a later time.

### `SchedSlurm`

Replaces that client by the callbacks of `schedSlurm.py` and keeps the rest of
`Batsim` (`LibraryStep`). A callback that calls `schedule()` is several steps:
its entry (`OnJobSubmission`, `OnJobCompletion`, with `ScheduleBegin`), one
`ScheduleNext(j)` for every iteration of the loop over the sorted jobs, in the order
`Precedes`, and `ScheduleEnd`. Splitting it costs nothing in faithfulness (nothing
else runs meanwhile) and lets the invariants speak about the middle of the loop. A
priority is a weighted sum of quotients of integers; the model compares the sums
exactly, over their common denominator, where the code uses floating point.
`available_resources`, the partitions and allocations are sets of machine numbers, as
`ProcSet`s are; `pending_jobs` is a set with the order of arrival, which is all that a
stable sort sees of a list.

`onJobsKilled` is not modelled: SchedSlurm never kills a job, so it is never called.

### `Cluster`

Four actions: a job is accepted or refused by its size, starts on free machines, as
many as it asked for, and finishes. `SchedSlurm` implements it (property
`ImplementsCluster`): a job waits from `onJobSubmission`, runs from the iteration
of the loop that gives it machines and is finished when `onJobCompletion` has run;
every step of the library, the simulator and the rest of the scheduler is a stutter.

### `StorageController`

Sits between `Batsim` and a scheduler. A transfer is a dynamic job of `Batsim`, which
the controller registers and executes in one go (`issue_data_staging`); its
acknowledgement is ignored (`StagingSubmitted`), its completion handled by
`data_staging_completed` before the scheduler's callback. If the source has lost
the dataset meanwhile, the code calls a method of `None`: `phase` becomes
`exception`. `make_space` is written without its loop: a dataset is evicted exactly
if it has no tag and the older ones without a tag do not make enough space. "Older"
is the order of the stable sort: by timestamp, then by insertion, so `datasets` is a
sequence for each storage. `finish_time` is the time of the event, which may lie
before the time of its message.

The scheduler here is any that asks for transfers between existing storages of datasets
that are not larger than the destination (for others the code asserts), tags
and untags datasets, and stops all transfers, in `onNoMoreEvents`. It rejects the
jobs of the workload, which do not touch the storages.

### `Replicas`

Every storage holds a set of datasets that fits its capacity, some of them pinned. A
dataset comes to a storage only while some storage has it, and leaves only while it
is not pinned. `StorageController` implements it (`ImplementsReplicas`) with its tagged
datasets pinned; reserved space, timestamps and the transfers are hidden.

### `Platform`

The schedulers below neither kill nor register jobs, and what the library does for
them was checked in `Batsim`. `Platform` is the same protocol in less detail: events
gather in `inbox`, a message takes all of them, callbacks handle them in order, and the
simulator waits. Because it waits, nobody can tell a command that takes effect when it
is issued from one that does when the reply arrives, so `RunJobs` and `RefuseJob` act at
once. `place` remembers where a job was started, completed or not.

### `ValidatingMachine`, `FillerSched`, `FcfsSchedSleep`, `Launcher`

`Launcher` chooses a scheduler and whether it is wrapped, for the whole behaviour. The
wrapper's part of a callback and the scheduler's are one step, as they are one call:
`AfterSubmission`, `AfterCompletion` and `AsBefore` are what the wrapper knows when it
forwards, `execute_jobs` (`execute_jobs_valid` behind the wrapper) updates that or
raises. Callbacks the wrapper does not define are not `Forwarded`.

`FillerSched` walks over a copy of a set, in an order Python does not promise: `Orders` are all
orders, and `Fill` says of each what the loop does, without recursion.
`fillerSchedWithEvents` starts jobs in `onNoMoreEvents` only; `down` is what the simulator has
announced, `unavailableResources` what the scheduler has handled. Left out: storage
machines mapped by id.

`FcfsSchedSleep` keeps five sets of machines, which are one function `machines_states`. Each
machine has a pstate and a `target` in the simulator; a switch ends at any time
(`Switched`) and its acknowledgement waits in `inbox`. The two `sys.exit` in
`onMachinePStateChanged` are steps the model does not take; `SleepAgrees` says that the
acknowledgement is always the expected one, so they are never called for. The code has
`nb_resources` machines (lines 56, 62, 84, 101) and refuses jobs by `nb_compute_resources`
(149); in the model both are `N`, so it is about platforms whose machines all compute.

### `EasyBackfill`

`listFreeSpace` is the doubly linked list, as a sequence. A space that reaches beyond the
reservation is doubled into a long narrow one and a wide short one, linked so that what
one loses the other does; here `linked` marks the two, and `Partner` finds the
other. That there is never a second pair is what `OneBeyond` proves (4, item 14). A pass
(`Pass`) is one step of a callback, built from folds over the waiting jobs, as nothing
else runs meanwhile; a job ends at its walltime at the latest, which is when the
code estimates it to end. `promised` is a history variable: the last reservation made for
a job.

Two things are assumed of the platform and the workload. All machines compute: the free
spaces are made of `nb_resources` machines (line 244) and jobs are refused by
`nb_compute_resources` (251), and both are `N`. Every job has a walltime: one without has
`requested_time` -1 (`batsim.py:744`), so it is estimated to end before it starts.

### `Bebida`

Has a simulator of its own, for kills, dynamic jobs and loans. The commands of a reply are
obeyed one by one, and a job may end by itself before the kill that names it is obeyed;
the completions of killed jobs and the acknowledgement follow, as `batsim.py`
dispatches them: the callback is not made when all jobs had ended by themselves, and
`job_progress[jid]` raises when some had (`DispatchJobKilled`, `overtaken`). A job that is
killed is registered again under a new id; since its earlier attempt is over by then,
one state per job is enough. Variant `pfs`. Left out: the I/O profiles that `schedule`
generates and registers (data that nothing decides on), HDFS locality.

### `HighLevel`

A pass works on a record of what the objects hold, and every assertion or call of
`fatal()` on the way sets `dead` (`Failing`). `reserve`, `allocate`, `schedule`, `free` are
the methods of `Job` and `Allocation`; `AvailableNow` and `AvailableAt` say for which times
`find_first_time_to_fit_walltime` answers with the time it was asked for: at the
present an allocation under way has no end, in the future it has its estimated one.
`find_resources_without_delaying_priority_jobs` is in `BackfillOne`: it puts the temporary
allocation on the machines (`Reserved`), looks, and takes it away, for every job that is
tried. The lists that `ObserveList.filter` and `sorted` make are `Without`, the list
without some jobs, and `backfilling_sort`, a stable insertion sort, both by recursion on
the length so that they can be proved about. `TIME_DELTA` is the unit of time, jobs start and end at
multiples of `Unit`, so that the distance the code keeps between two allocations is there.
Left out: kills (`onJobsKilled` raises KeyError on every kill, see the hazards), messages,
power states, special resources, jobs submitted by the scheduler.

A simulation begins at 0 or later (`Init`). The time of the scheduler is the `now` of the
message, and an allocation must start after 0 (`alloc.py:35`). Each iteration that returns
consumes the `sched-delay`, by default 1e-21: added to a time of a `Unit` or more, the float
does not change; added to 0, it gives a time that `alloc.py:35` accepts. `consumed` says that
this happened; it stays true, since a message never has a time before that of the reply to
the one before it, which carries the consumed time. So only the first iteration can find
the clock at 0. It is about a single job, and when that job can be started the process ends. The
repository comes close to it: the first job of `tests/workloads/test_delays.json` has
`"subtime": 0`, and `tests/generate.py:63-92` makes experiments of `schedFiller` and
`schedEasySjfBackfill` on it. Whether they fail is up to Batsim, which is not in the repository: they do if the
message with that submission has `now` 0, and nothing in pybatsim rules it out. `MachinesExact` and `JobsEnd`
therefore say that no assertion fails, and every job ends, with this one exception; `AssertionsHold`,
without the exception, is no property of a run, and TLC refutes it within four states. The model
has the default delay only: a larger one, given as an option, would move the clock between
the callbacks of a message, off the multiples of `Unit`, and is not modelled.

Every job has a walltime of at least a `Unit`. One without has `requested_time` -1
(`batsim.py:744`) and an estimated end before its start: not modelled.

## 3. Runs

| Run | Instance | Result |
|---|---|---|
| `batsim` | one static and one dynamic job, both acknowledgement modes, one tick, one wake-up | 8 properties hold (660 thousand states) |
| `batsim_kill` | two jobs may be killed by one call | `NoKeyError` fails |
| `slurm` | three jobs, each of one of six kinds, five machines | 8 properties hold |
| `slurm_fit` | as `slurm` | `AcceptedJobsFit` fails |
| `storage` | two storages, three datasets, two transfers, one tag, one tick, both acknowledgement modes | 8 properties hold (193 thousand states) |
| `storage_arrival` | as `storage`, without tags | `ArrivalFits` fails |
| `launcher` | three jobs of three choices of sizes, three machines, three schedulers, wrapped or not, two external events | 6 properties hold (158 thousand states) |
| `easy` | four jobs, three choices of sizes, two of walltimes, four machines | 3 properties hold (579 thousand states) |
| `easy_reservation` | five jobs on three machines | `ReservationKept` fails |
| `bebida` | two jobs, three machines in two loans, three removals | 4 properties hold (180 thousand states) |
| `bebida_balance` | two jobs that are no sequences, nothing asked back | `ReScheduled` fails |
| `highlevel` | four jobs, two choices of sizes, two of walltimes, three of dependencies, three machines, three schedulers, the clock at 0 or later | 3 properties hold (917 thousand states) |

**`batsim`.** Two jobs are enough for everything that relates jobs here: a static and
a dynamic one exercise both ways of submission, and every order of their commands
and events. The counters are sums over jobs, so the mistakes that two jobs can make,
one of each origin, are those any number can make. One tick separates times; one
wake-up is enough because REQUESTED_CALL carries nothing. `KillSize = 1` keeps this run
out of the behaviour `batsim_kill` shows, in which the process ends with an exception.
`InitCalls = FALSE` keeps it from using the API in `onAfterBatsimInit`, which no
scheduler of the repository does: what is commanded there is thrown away, as the
invariant `NoCommandLost` shows when it is checked with `InitCalls = TRUE`. The outcomes are
one member of `Job.State` and one name it does not have.

**`slurm`.** Five machines give partitions of two and three. The six kinds of jobs are:
one machine in either partition, two and three machines (a part and all of the second
partition), five (the whole cluster: accepted, too large for its partition) and six
(refused). Since the simulator submits jobs in every order, one order of each choice
of kinds is enough: 56 workloads. Three jobs is the least at which a job can be
overtaken by a second while a third runs. `MaxTime = 0` because `consume_time`
advances the clock at every call of `schedule` anyway; with `MaxTime = 1` all
properties hold as well, in three times the time. The weights make age, size and partition
comparable, so that ties and inversions occur; the fairshare factor is constant in the
code, because `job_state` is never RUNNING when the usage is updated.

**`storage`.** One storage holds two small datasets and is full, the other a dataset
of twice their size with room for one more. Two transfers, in either direction, are
the least at which a source loses a dataset that is being transferred, two transfers
compete for the same space, or a dataset that has arrived is older than one that was
there before. One tag protects one dataset of the two that would have to go; one tick
makes timestamps differ. A staging job completes successfully or is killed; a failure
takes the same branch as a kill. `KillSize = 1` for the reason given above.

**`launcher`.** Three machines and jobs of one to four: jobs that fit side by side,
jobs that need all, and one that is refused. Three jobs are the least at which one runs, one
waits at the head and one behind it. Two external events are a machine that goes and
comes back, or two that go, or one and the announcement that there will be no more;
switches of machines are not bounded. Two events per message is the least at which a
callback sees the effect of the one before. `JobsEnd` says what stands in the way: for
`FillerSchedWithEvents` behind the wrapper nothing ever starts, and a job that
needs machines that stay unavailable waits for ever (hazard: the list that should be
rejected is never filled).

**`easy`, `easy_reservation`.** Four jobs are a running one, a head that waits for it
with a reservation, one that is backfilled and one that is not; four machines leave free
spaces on either side of a running job and let two spaces merge. The disagreement
needs a hole strictly inside a reservation, hence a fifth job and sizes made for it.

**`bebida`.** Two loans, of one and of two machines, can be asked back together or one
by one, and lent again in between; the jobs want two machines each, or one and all, and are
sequences or not. Three removals let the same loan be asked back twice. Two jobs are the
least at which one is killed and the other is not.

**`highlevel`.** Four jobs are a running one, a head that waits, one that fits
beside it in time and one that would delay it; a chain of dependencies makes the head
runnable late, a dependency on the last job makes it wait for one submitted after it, or for one
that is refused. Each policy runs on every choice, from 0 and from a later time (72 initial
states). `Unit = 2` leaves room for one `TIME_DELTA` between two allocations. A simulation
that begins at 0 goes on past its first iteration if the job that arrives first cannot be
started: it waits for another, or is refused.

In the instances of `launcher`, `easy`, `bebida` and `highlevel` the system stops when all jobs have
ended (or, in `Bebida` and `HighLevel`, after an exception), so deadlock is not checked there; that it does not stop earlier is what
`JobsEnd` says.

**Fairness.** pybatsim is one process that goes on as long as it can: weak fairness
of its steps, where the calls of a callback are finite in number. `SimulationEnds`
also needs the simulator to inject commands and send messages, to reach every
submission time, and to end every running job, which the walltime enforces.
`EveryTransferEnds` assumes the same of transfers: the simulator ends a copy of finitely
many bytes. In `EasyBackfill`, `Bebida` and `HighLevel` fairness is stated of the loop by
what it does with the message (`LoopGoesOn`), whichever callback that is, and of the
simulator's steps together; the loop raises or goes on, it does not hang
(and in `HighLevel` it is asked to go on only while nothing was raised: `~dead`). Nobody has to
ask machines back, announce one unavailable or announce it available again. No
fairness is assumed of the timeout, and none of anything that could be disabled and
enabled again for ever.

**The five disagreements**, each between the code and a comment or docstring, are
in "findings": jobs larger than their partition are accepted (`slurm_fit`); the dispatch of
JOB_KILLED raises when only some of the jobs of a request were still running
(`batsim_kill`); a dataset may be announced on a storage that had no room for it
(`storage_arrival`); a job may be backfilled into a hole inside the reservation and delay the
reserved job (`easy_reservation`); a job killed to be given more machines blocks the
Bebida scheduler for ever unless it is a sequence (`bebida_balance`).

Every property of a passing run has a mutant, an operator of the module that changes
one mapped definition the way a mistake in the code would ("mutants").

## 4. Proofs

The theorems about `SchedSlurm` hold for every number of machines, every finite set
of jobs, workload, weight and bound. They assume `ConstantsAssumption` and
`SlurmAssumption`, which TLC evaluates on every run, and nothing else; the steps are
those of the whole system: library, simulator and scheduler.

1. `TypeCorrect` (`SchedSlurm_proofs`). `SlurmTypeOK` is not inductive: the message
   loop of the library dispatches any event, and an event the scheduler never
   provokes could start a job or make a counter negative. `TypeInv` adds which
   commands can ever be under way (EXECUTE_JOB and REJECT_JOB, about one job each),
   hence which events, hence which states of a job; and that `schedule()` runs inside the
   callback of a submission or a completion.

2. `MachinesSafe`, `NeverOversubscribed`, `SimulatorObeys` (`SchedSlurm_proofs`).
   `MachinesPartitioned` alone is not inductive either: a second completion of a job would free
   machines that belong to another by then, and a second submission of a running job
   would give it machines twice. `WayInv` says where on its way a job is. A
   job has at most one message under way in each direction (`OneEach`); the job
   of a submission under way is queued in the simulator and neither pending nor
   holding machines; that of a completion has run and still holds its machines; that
   of an EXECUTE_JOB is queued and among the running jobs; that of a REJECT_JOB is
   queued and known to the scheduler no more. `Inbox` and `Outbox` are the queues
   under way whichever process acts, so a step of the loop that hands a queue over
   changes neither. Every step moves at most one job one place along, except the
   end of `schedule()`, which hands over all it has given machines. That the simulator
   never aborts is part of the same invariant, and in the simulator a running job is
   always among `running_jobs`, which gives `NeverOversubscribed`.

3. `NothingIdle`, `NoOvertaking` (`SchedSlurm_proofs`). Both hold because of
   `TriedInVain`: a pending job the loop has tried does not fit. The loop only takes
   machines, so a job that did not fit does not fit later; every event that frees
   machines or adds a job starts the loop over all pending jobs again.
   `NoOvertaking` also needs `SafetyInv`, to know that a completed job is not pending.

4. `OnlyMisfitsBlock`, `ImplementsAllocation` (`SchedSlurm_proofs`). `WayInv` says that a
   job is at *one* place of its way at most; `Tracked` says that it is at one at least: a
   job the simulator has queued is in a submission under way, pending, given machines in
   this call or in a command under way, and one that is done is in a completion under way
   until its machines are free. `Told` says what the job table shows at each place. So when nothing
   is under way and nothing runs, every job of the table is pending; and since no machine
   is idle that one of them could use (3.), and all machines are free, a pending job is larger than its partition.
   The same invariant gives the status of a job in `Cluster` at each step:
   `LoopUnseen` (a step of the loop or the simulator is a stutter), `AcceptMaps`, `RefuseMaps`,
   `StartMaps` and `FinishMaps` (one step of the scheduler is one of `Cluster`). A start takes exactly as many
   machines as the job asks for: `FirstOfSize`, the cardinality of `list(S)[:n]`, is an
   induction on a set of numbers. `ClusterSafe` shows that the abstract allocation never
   shares a machine (its invariant, `SafeAllocation`, is inductive as it stands), and
   `AllocationIsSafe` that the scheduler therefore does not either.

The theorems about `Batsim` with its most general client assume `ConstantsAssumption`.

5. `TypesKept`, `CountersAgree`, `OnlyKilledToldKilled`, `CompletionIsFinal` (`Batsim_proofs`) need
   the first layer of the invariant, `LoopInv`, which holds even when commands are lost: the
   types; `WayInv`, which events can be under way about a job in which state of the
   simulator and of the job table; and `CountInv`, each counter by the jobs it counts. A kill makes up
   to two messages about a job, in order, and the job may be over before the
   kill is obeyed: the invariant says which messages can follow which.

6. `NothingAborted`, `MirrorHolds`, `ExitIsClean` need the second layer, `ObeyInv`, which says that
   nothing is lost (`NothingLost`), that the commands about a job are in an order the simulator
   can obey (`Ordered`), and what the table shows while a command is under way
   (`UnderWay`). It needs `~InitCalls`: what a scheduler asks for in
   `onAfterBatsimInit` after the reply has left is lost (a hazard; the runs `batsim` and `batsim_kill` are
   without such calls too). The theorems say so: they are stated for `~InitCalls`.

The theorems about `Launcher` hold for every finite set of jobs, every number of machines,
every choice of sizes and every bound on messages and external events. They assume
`PlatformAssumption`, `FillerAssumption` and `LauncherAssumption`, which TLC evaluates on
the run `launcher`, and nothing else.

7. `LauncherTyped`, `AlwaysExclusive`, `AvailableIsUsable`, `SleepAlwaysAgrees`,
   `NothingIsLeftUndone` (`Launcher_proofs`) follow from one inductive invariant,
   `Inv`: the types, and
   - `JobsInv`: a job has at most one event under way; it waits at the scheduler or
     holds machines, not both; two jobs that hold machines share none. A job holds
     machines until its completion is *handled*, which is why `Exclusive` alone is not
     inductive: the machines of a job that has completed are still taken.
   - `WrapperInv`: the wrapper's account is exactly that, so it never raises.
   - `AtRest`: a scheduler that is not loaded keeps its initial state, and only
     `FillerSchedWithEvents` is sent machine events.
   - `FillerInv`: available is what is neither held nor announced; the second filler's
     `runningResources` is what is held.
   - `SleepInv`: machine by machine, the scheduler's state agrees with pstate, target and
     the acknowledgement under way; "Computing" is what is held; no job is queued twice.
   - `UndoneInv`: nothing that fits is left, at every point where the scheduler has
     just scheduled.

   The three schedulers start jobs through one operator, `execute_jobs`, so one
   lemma shows that jobs started on machines that are free and apart keep `JobsInv` and
   `WrapperInv`; each scheduler then only owes that its machines are. `First(S, n)` is used
   through what the proofs need of it: it is a subset of `S`.

The theorems about `StorageController` hold for any number of storages, datasets, tags and
staging jobs, under `StorageAssumption` and `ConstantsAssumption`.

8. `SpaceIsAccounted` (`Storage_proofs`). `StorageInv` is about the storages alone: the datasets of each and its
   free space make up its capacity; the sizes of the transfers under way make up what is
   reserved; the next staging job is a new one. It does not rest on what the messages
   carry, so the accounts are right in every order of acknowledgements, completions and
   kills, also those the simulator never produces; only after an exception, which
   `data_staging_completed` raises when the source has lost the dataset, the reservation stays.

9. `TaggedKept`, `OldestGoFirst`, `EvictionIsMinimal`. `OnlyEvictionTakes` shows that a dataset only leaves by
   an eviction for a transfer granted in the same step. `OlderOrders` shows that the order in which
   `make_space` tries the datasets, by timestamp and then by insertion, is a strict total
   order, whatever the timestamps; what is evicted is therefore closed under older untagged
   datasets, and of the evicted the last one has too little before it.

10. `StoragesAreReplicas`. The end of a transfer maps to `Arrive` or a stutter, a request to
   `Evict` or a stutter, a tag to `Pin`, its removal to `Unpin`. That the copy fits is a
   conjunct the code checks late: `add_dataset` does not store what has no room.

11. `StorageTypes`, `TransfersAreTracked`. Unlike the accounts, these rest on what the messages
   carry, and on the theorems about the library (`Batsim_proofs`).
   - `Messages`: the types; `Turns`, that the two processes speak in turn and SIMULATION_BEGINS
     comes first and once; `Submitting`, that what is in submission is staging jobs, counted
     one by one when submissions are acknowledged, or not acknowledged at all. So the
     acknowledgement of a staging job finds a counter it can lower. `StorageTypes` follows from this and
     `StorageInv`, and needs no assumption on when transfers are asked for.
   - `Tracking`: for every staging job `Way`, a relation of eight things: the jobs numbered so far, the
     transfers known, the status of the job, the commands and the events under way, the
     simulator, and the event that is handled now. A job that was not numbered is mentioned nowhere;
     until it runs, its execution is under way, behind its registration; once it is done,
     its completion is under way exactly as long as the transfer is known, and never twice.

   `Way` is kept by the seven moves a staging job can make, one lemma each: it is asked for
   (`WayAsked`), registered (`WayRegistered`), executed (`WayExecuted`), ends (`WayCompleted`), its
   completion is handled (`WayFinished`), the handler returns (`WayReturned`), and everything else
   (`WayKept`). That an event about one job leaves the `Way` of another alone uses that a staging job's
   registration, execution and completion are about this job only. `TransfersAreTracked` assumes
   `~InitCalls`: a transfer asked for in `onAfterBatsimInit` is known and its space reserved, but its
   commands are lost, as in 6., and the transfer never ends.

The theorems about `Bebida` hold for every number of machines and jobs, any disjoint loans,
all demands and any number of removals, under `BebidaAssumption`.

12. `MachinesAreSound`, `ClosesAtTheEnd` (`Bebida_proofs`). Neither property is inductive: a
   machine is given back by a command that is still under way, about a job whose kill is
   further ahead in the same reply, and that may have ended by itself. `Inv` has
   - `Lives`: for each job, one of the twelve points of its exchange with the simulator
     (`Stage`): what the simulator knows, what the scheduler knows, and exactly which
     messages about it are in the inbox and in the reply. It is why one attempt is over before the next
     is registered, and why no command reaches a job in a state in which it means
     something else.
   - `Loaned`: the same for each loan (`LoanStage`), with what is awaited before it is
     given back and that none of its machines is available meanwhile.
   - `Vacated`: a job on machines that were asked back leaves them in time (`Leaves`): a removal that
     awaits a kill is of jobs in killing; the kill is before RESOURCES_REMOVED in the reply; and if
     the machines are lent again in the message that tells of the kill, the job's completion is before
     ADD_RESOURCES, or what becomes free would be given twice. These are facts about the *order* of messages,
     hence the lemmas on queues (`PrecedesTail`, `PrecedesJoin`, `TailTakes`, `JoinBrings`, ...).
   - `Apart`, `NotFree`: what the scheduler takes for running holds machines of its own, none of
     which is both free and available.
   - `Closed`: when registration is closed, or about to be, every job completed by itself. It needs
     `Lives`: with an empty inbox no job can be COMPLETED_KILLED, so that the test of
     `onNoMoreEvents` is enough.

   After an exception only the two properties are kept, since the loop has stopped in the
   middle of a message. That two jobs are given different machines in one call of `schedule()` (`FitsAreApart`) is
   arithmetic: a job takes the machines whose rank is between what the jobs before it want
   and that plus its own demand. The model says it in this form, and not as a fold over the jobs, so that it
   can be proved; the reachable states are the same.

The theorems about `HighLevel` hold for every number of machines, finite set of jobs,
choice of sizes, walltimes and dependencies, under `PlatformAssumption` and
`HighLevelAssumption`.

13. `MachinesAreExact`, `PriorityIsKept` (`HighLevel_proofs`). Both follow from `InvHolds`: `Inv` holds
   between two callbacks, or the assertion of `alloc.py:35` has failed in the first iteration
   (`Broken`: dead at 0, nothing consumed, nothing promised). `Inv` has
   - `PassInv`, of the record a pass works on: the allocations are those of the jobs that
     are scheduled and not completed, active, started at a time of the clock, apart from one
     another, and on the machines of `place`; `_jobmap` and the list of jobs agree with the
     flags; a pass only touches jobs that were open and submitted.
   - `Lives`: where each job is on its way between the simulator, the messages and the
     books. It is why a submission is of a job the scheduler does not know, a completion of
     one that has an allocation, and why with an empty inbox every allocation is of a job
     that runs.
   - `~Late => Fresh`: while the clock is at 0 no iteration has run, so the books are empty.
   - under EASY, `Keepable` and `Waiting`: a promise that is still open was made to the first of the
     open jobs, that job can run, there are neighbouring machines for it on which every
     allocation is over by then, and none that are free now.

   `PassInv` is kept by each job a pass tries (`FillOneHas`, `BackfillOneHas`), and so by
   every pass, through the steps of its fold (`FillerSteps`, `BackSteps`), if no job that comes
   up can start at 0 (`Timely`). Otherwise it is the first iteration, with a single job
   (`FirstPass`): the assertion fails (`ScheduleRefused`) and `Broken` holds from then on
   (`BrokenStays`). That no assertion
   fails is part of it: what the search offers overlaps nothing (`FreeNow`, `EarliestHas`), so
   `add_resource` takes it; freeing the temporary allocation gives back the very record from
   before (`FreeIs`). When the pass of the filler stops, the first runnable job has no room
   (`FillerHas`); so a temporary allocation exists, in the future, for any job that is not
   larger than the cluster (`ReservableSome`: at the latest when every allocation is over), and no job is
   backfilled on it: the search for the other looks at the present, where a machine with a
   reservation is only available if the job is over before. Hence a new reservation is
   never later than what was promised (`PromiseStays`): the promised machines are still free
   by then, and the search takes the earliest time. Finally the clock cannot pass a promise
   (`TickKeeps`): some allocation is on the promised machines, because there was no room;
   it is of a job that runs, since no message is waiting; the clock stops before its end, and it
   ends before the promise. Here the times being multiples of `Unit` matters.

The theorems about `EasyBackfill` hold for every number of machines, finite set of jobs, choice of
sizes and walltimes, under `PlatformAssumption` and `EasyAssumption`: a walltime is less than
`Infinity`, which is `float('inf')` in the code.

14. `SpacesAreExact`, `NobodyLeftBehind` (`EasyBackfill_proofs`) follow from `EasyInv`, which
   `EasyInvariant` shows of every state:
   - `EasyTypes`, `EasyEvents`, `EasyLists`: a job has at most one event under way; its
     submission is of a job in no list, its completion of one still in `listRunningJob`.
   - `Plain(listFreeSpace)`: the spaces are in order and apart, and none is empty, virtual,
     linked or short.
   - `Taken`: each job in `listRunningJob` has machines side by side (so that giving back the
     interval from its first to its last gives back exactly these), apart from the others',
     and the spaces are what is left.
   - `Fair`: no job that waits fits a space in time.

   The work is in what happens between: during a pass the list is not `Plain` but only
   `Sound`. The spaces that are not virtual are in order and apart; a virtual space is part of
   another that is short, beginning or ending with it, and jobs are placed in the two from
   opposite ends (`Halves`); at most one pair is linked.
   - `AssignHas` is the argument for the links: whichever of the two a job is placed in, the
     other loses what the two have in common, and goes if that is all it had; so the
     list stays `Sound` and has exactly the job's machines less.
   - `UnassignHas`: in all four cases of `unassignJob` a plain list stays plain, so the spaces
     are always maximal.
   - `FindHas`, `AlignedAtEnd`: the reservation is at one end of a space of a later list, and
     that space contains every present one it meets. So only one present space can reach
     beyond the reservation (`Aligned`, `OneBeyond`), and `allocFutureJob` gives a `Sound`
     list of the same machines (`FutureHas`). If two could, or one at both ends, a second
     link would overwrite the first in the code.
   - `RestoreHas`: the end of `allocBackFill` makes any `Sound` list `Plain` again, with the
     same machines.
   - For `Fair`: a job that fits no space of a list fits none after others were placed
     (`Shrunk`, `StillNone`). A job that would be over before the reservation begins finds no space
     too short; so if it fits none of the list with the reservation it fits none of the restored
     one, and neither does the head, since a virtual space is never wider than the one it
     doubles (`NoneFits`).

   `ReservationKept` is not among the theorems because the run `easy_reservation` refutes it: a
   space strictly inside the reservation is not shortened. `Fair` does not depend on it.

`Sums_proofs` makes the folds of the community modules usable in proofs. They are recursive functions
on the subsets of a finite set, hence a CHOOSE: `RecursionExists` shows that there is one,
`SumUnique` that it is the only one, and the laws of sums (`SumTakeOut`, `SumSplit`, `SumMonotone`) and
of dropping elements from a sequence (`LeftHas`, `LeftOrder`) follow by induction on sets. For a
fold over a sequence whose steps keep a set of values, `FoldSteps` gives its run: the list of
the intermediate results, one step from each to the next, on which an invariant of the
steps can be shown by induction on numbers.

All invariants and their parts were checked with TLC on the instances of the runs before
they were proved.

Only model-checked: liveness (`EveryMessageAnswered`, `SimulationEnds`, `EveryTransferEnds`,
the three `JobsEnd`, `RemovalsAnswered`, `ReScheduled`), which is out of the prover's reach.
Every invariant and every action property of a passing run is a theorem, and so are the two
refinements.

## 5. Not modelled

- `intervalContainer.py`: only `unMaintained/easyEnergyBudget.py` uses it, and that cannot
  run (it calls `iteritems()` on dictionaries and methods `Batsim` no longer has). With no
  caller there is no protocol to check it under.
- `randomSched.py` and `schedAcceptNthJob.py`: they keep no account of the machines; the first
  starts every job on a random sample of them, the second runs one job.
- `schedSendRecv.py`: the filler of `schedFiller.py` (which `HighLevel` has), that also answers
  each message of a running job at once.
- Kills in `batsim/sched`: `onJobCompletion` has removed the job from `_jobmap` before
  `onJobsKilled` looks it up, so the first kill ends the process. There is no behaviour
  after it to model. Special resources, pstates and sub-jobs have no scheduler in the
  repository that uses them.
- The variants `no-io` and `dfs` of Bebida. With `no-io` nothing is put into `io_jobs`, which is
  passed to `execute_jobs` all the same (`schedBebida.py:601-604`, 767): `io_jobs[job.id]` raises KeyError
  (`batsim.py:180`) for the first job started. `dfs` differs in the profiles it generates from random
  numbers, and raises for a job that is not a sequence.
- Storage machines among the machines of `EasyBackfill`, `FcfsSchedSleep` and the fillers, and jobs without
  walltime in `EasyBackfill` and `HighLevel` (section 2).
- Workloads, profiles, generators: data and random generation. The experiment runner and
  post-processing: process launching and files. `common_pyss_adaptator.py`: a wrapper
  of a simulator that is not in the repository; `unMaintained/`: schedulers of a former API.

What could be added next: `Cluster` as an abstraction of the fillers and of EASY backfilling.

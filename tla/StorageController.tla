------------------------- MODULE StorageController --------------------------
(***************************************************************************)
(* The StorageController (src/batsim/storageController.py): datasets on    *)
(* storages of limited capacity, transferred by jobs that the controller   *)
(* registers and executes, and evicted, the least recently used first,     *)
(* unless they are tagged.  It lives between the message loop of Batsim,   *)
(* which gives it the events of its own jobs, and a scheduler, here any    *)
(* scheduler that asks for transfers of datasets that fit the destination, *)
(* between storages that exist.                                            *)
(*                                                                         *)
(* The staging jobs are the dynamic jobs of Batsim, in the order of their  *)
(* numbers.  The dictionaries of a storage have the same keys in the same  *)
(* order, which is that of the sequence datasets[s].  The metrics          *)
(* nb_transfers_zero, nb_transfers_real and total_transferred_from_main    *)
(* are left out.                                                           *)
(***************************************************************************)
EXTENDS Batsim, Integers, Functions

CONSTANTS
  StorageId, Dataset, Tag,
  Size, Capacity,       \* in bytes, of datasets and storages
  Loaded,               \* the datasets each storage is loaded with, in order
  StagingJob,           \* the staging jobs in the order of their numbers
  MaxTags               \* bound: tags on the storages together

SizeOf(S) == SumFunctionOnSet(Size, S)

ASSUME StorageAssumption ==
  /\ IsFiniteSet(Dataset) /\ IsFiniteSet(StorageId)
  /\ Size \in [Dataset -> Nat \ {0}] /\ Capacity \in [StorageId -> Nat]
  /\ Loaded \in [StorageId -> Seq(Dataset)]
  /\ \A s \in StorageId : IsInjective(Loaded[s]) /\ SizeOf(ToSet(Loaded[s])) <= Capacity[s]
  /\ StagingJob \in Seq(Dynamic) /\ IsInjective(StagingJob) /\ ToSet(StagingJob) = Dynamic
  /\ MaxTags \in Nat

VARIABLES
  datasets,             \* Storage.datasets and the keys of dataset_timestamps
  dataset_timestamps,   \* of a dataset that is not there: 0
  dataset_tags,
  available_space, reserved_space,
  current_transfers,    \* staging job -> DataTransfer
  finish_time,          \* of a staging job, from its JOB_COMPLETED; 0 once it was used
  next_staging_job_id

storage_vars == <<datasets, dataset_timestamps, dataset_tags, available_space, reserved_space>>
transfer_vars == <<current_transfers, finish_time, next_staging_job_id>>
controller_vars == <<storage_vars, transfer_vars>>
vars == <<batsim_vars, controller_vars>>

DataTransfer == [source_id : StorageId, dest_id : StorageId, dataset_id : Dataset]

-----------------------------------------------------------------------------
\* A storage

has_dataset(s, d) == d \in ToSet(datasets[s])
Tagged(s, d)      == dataset_tags[s][d] # {}

Inserted(s, d, e) ==
  \E i, k \in DOMAIN datasets[s] : i < k /\ datasets[s][i] = d /\ datasets[s][k] = e

\* Mutant of Older: the dictionary is not sorted.
OlderUnsorted(s, d, e) == Inserted(s, d, e)

\* The order of the stable sort by timestamp.
Older(s, d, e) ==
  \/ dataset_timestamps[s][d] < dataset_timestamps[s][e]
  \/ dataset_timestamps[s][d] = dataset_timestamps[s][e] /\ Inserted(s, d, e)

\* Mutant of Evictable: a tag does not protect.
EvictableTagged(s) == ToSet(datasets[s])
Evictable(s) == {d \in ToSet(datasets[s]) : ~Tagged(s, d)}

\* Mutant of Evicted: the loop does not stop when there is enough space.
EvictedAll(s, space_to_make) == Evictable(s)

\* The loop takes a dataset if the older ones it takes do not make enough space.
Evicted(s, space_to_make) ==
  {d \in Evictable(s) : SizeOf({e \in Evictable(s) : Older(s, e, d)}) < space_to_make}

\* The datasets of the sequence q that are not in D, in their order.
Without(q, D) == FoldLeft(LAMBDA kept, d : IF d \in D THEN kept ELSE Append(kept, d), <<>>, q)

\* Nothing is evicted unless that makes enough space.
make_space(s, asked_space) ==
  LET space_to_make == asked_space - available_space[s]
      to_evict == Evicted(s, space_to_make)
  IN  /\ SizeOf(to_evict) >= space_to_make
      /\ datasets' = [datasets EXCEPT ![s] = Without(@, to_evict)]
      /\ dataset_timestamps' = [dataset_timestamps EXCEPT ![s] =
                                  [d \in Dataset |-> IF d \in to_evict THEN 0 ELSE @[d]]]
      /\ available_space' = [available_space EXCEPT ![s] = @ + SizeOf(to_evict)]

\* Mutant of add_dataset: the space is not looked at.
add_datasetAnyway(s, d, timestamp) ==
  /\ dataset_timestamps' = [dataset_timestamps EXCEPT ![s][d] = timestamp]
  /\ datasets' = [datasets EXCEPT ![s] = IF has_dataset(s, d) THEN @ ELSE Append(@, d)]
  /\ available_space' = [available_space EXCEPT ![s] = IF has_dataset(s, d) THEN @ ELSE @ - Size[d]]

\* The result, False if there is no space, is not looked at by the controller.
add_dataset(s, d, timestamp) ==
  \/ /\ has_dataset(s, d)
     /\ dataset_timestamps' = [dataset_timestamps EXCEPT ![s][d] = timestamp]
     /\ UNCHANGED <<datasets, available_space>>
  \/ /\ ~has_dataset(s, d) /\ available_space[s] >= Size[d]
     /\ datasets' = [datasets EXCEPT ![s] = Append(@, d)]
     /\ available_space' = [available_space EXCEPT ![s] = @ - Size[d]]
     /\ dataset_timestamps' = [dataset_timestamps EXCEPT ![s][d] = timestamp]
  \/ /\ ~has_dataset(s, d) /\ available_space[s] < Size[d]
     /\ UNCHANGED <<datasets, dataset_timestamps, available_space>>

-----------------------------------------------------------------------------
\* The controller

\* Only the time of use changes.
update_timestamp(s, d, timestamp) ==
  /\ dataset_timestamps' = [dataset_timestamps EXCEPT ![s][d] = timestamp]
  /\ UNCHANGED <<datasets, available_space>>

add_dataset_to_storage(s, d, timestamp) ==
  \/ has_dataset(s, d)  /\ update_timestamp(s, d, timestamp)
  \/ ~has_dataset(s, d) /\ add_dataset(s, d, timestamp)

\* Is the event that is handled one the controller keeps to itself?
Acknowledgement == Handling("JOB_SUBMITTED") /\ Head(events).jobs \subseteq Dynamic
Completion      == Handling("JOB_COMPLETED") /\ Head(events).jobs \subseteq DOMAIN current_transfers

\* The acknowledgement of a staging job is ignored.
StagingSubmitted ==
  /\ Acknowledgement
  /\ CallbackReturns
  /\ UNCHANGED <<sim_vars, now, initialised, running_simulation, no_more_static_jobs,
                 ack_of_dynamic_jobs, api_vars, job_vars, controller_vars>>

\* Mutant of Released: only when the transfer succeeded.
ReleasedIfSuccessful(d, t) ==
  IF job_state[d] = "COMPLETED_SUCCESSFULLY" THEN Size[t.dataset_id] ELSE 0
Released(d, t) == Size[t.dataset_id]

\* The dataset is looked up on the source: if it was evicted since, get_size()
\* is called on None.  Then the scheduler's callback goes on from "handler".
data_staging_completed(d) ==
  LET t == current_transfers[d]
  IN  /\ Completion /\ d \in Head(events).jobs
      /\ current_transfers' = Restrict(current_transfers, DOMAIN current_transfers \ {d})
      /\ finish_time' = [finish_time EXCEPT ![d] = 0]
      /\ \/ /\ ~has_dataset(t.source_id, t.dataset_id)
            /\ phase' = "exception"
            /\ UNCHANGED storage_vars
         \/ /\ has_dataset(t.source_id, t.dataset_id)
            /\ reserved_space' = [reserved_space EXCEPT ![t.dest_id] = @ - Released(d, t)]
            /\ IF job_state[d] = "COMPLETED_SUCCESSFULLY"
               THEN add_dataset_to_storage(t.dest_id, t.dataset_id, finish_time[d])
               ELSE UNCHANGED <<datasets, dataset_timestamps, available_space>>
            /\ UNCHANGED <<phase, dataset_tags>>
      /\ UNCHANGED <<sim_vars, now, events, initialised, running_simulation,
                     no_more_static_jobs, ack_of_dynamic_jobs, api_vars, job_vars,
                     next_staging_job_id>>

\* Mutant of Staging: the job is not executed.
StagingRegistered(d) == <<Command("REGISTER_JOB", {d}, "")>>
Staging(d) == <<Command("REGISTER_JOB", {d}, ""), Command("EXECUTE_JOB", {d}, "")>>

\* Registers the next staging job, whose table entry is new, and executes it.
issue_data_staging(t) ==
  LET d == StagingJob[next_staging_job_id + 1]
  IN  /\ next_staging_job_id' = next_staging_job_id + 1
      /\ events_to_send' = events_to_send \o Staging(d)
      /\ job_state' = [job_state EXCEPT ![d] = "IN_SUBMISSON"]
      /\ state' = [state EXCEPT ![d] = "RUNNING"]
      /\ submit_time' = [submit_time EXCEPT ![d] = now]
      /\ nb' = [CountRegistration EXCEPT !["scheduled"] = @ + 1]
      /\ current_transfers' = [e \in DOMAIN current_transfers \cup {d} |->
                                 IF e = d THEN t ELSE current_transfers[e]]
      /\ UNCHANGED <<jobs_manually_changed, finish_time>>

\* Only a request that is granted changes anything: not one for a dataset that
\* is there, or that the source has not, or for which no space can be made.
ask_data_transfer(t) ==
  /\ ~has_dataset(t.dest_id, t.dataset_id) /\ has_dataset(t.source_id, t.dataset_id)
  /\ \/ /\ available_space[t.dest_id] >= Size[t.dataset_id]
        /\ UNCHANGED <<datasets, dataset_timestamps, available_space>>
     \/ /\ available_space[t.dest_id] < Size[t.dataset_id]
        /\ make_space(t.dest_id, Size[t.dataset_id])
  /\ reserved_space' = [reserved_space EXCEPT ![t.dest_id] = @ + Size[t.dataset_id]]
  /\ issue_data_staging(t)
  /\ UNCHANGED dataset_tags

stop_all_data_transfers ==
  /\ current_transfers # <<>>
  /\ KillJobs(DOMAIN current_transfers)
  /\ UNCHANGED controller_vars

add_tag_on_dataset(s, d, tag) ==
  /\ has_dataset(s, d)
  /\ dataset_tags' = [dataset_tags EXCEPT ![s][d] = @ \cup {tag}]
  /\ dataset_timestamps' = [dataset_timestamps EXCEPT ![s][d] = now]
  /\ UNCHANGED <<datasets, available_space, reserved_space, transfer_vars, api_vars, job_vars>>

remove_tag_on_all_datasets(s, tag) ==
  /\ dataset_tags' = [dataset_tags EXCEPT ![s] = [d \in Dataset |-> @[d] \ {tag}]]
  /\ UNCHANGED <<datasets, dataset_timestamps, available_space, reserved_space,
                 transfer_vars, api_vars, job_vars>>

-----------------------------------------------------------------------------
\* The scheduler

\* It decides in onNoMoreEvents.
Calling == Listening /\ events = <<>>

NumberOfTags == Cardinality({x \in StorageId \X Dataset \X Tag : x[3] \in dataset_tags[x[1]][x[2]]})

\* Bound: the controller has no more staging jobs than StagingJob.  Tags are left
\* alone when no transfer can be asked for any more, as nothing is evicted then.
MayAsk == Open /\ next_staging_job_id < Len(StagingJob)

SchedulerAsks == \E t \in DataTransfer :
  /\ Calling /\ MayAsk
  /\ Size[t.dataset_id] <= Capacity[t.dest_id]
  /\ ask_data_transfer(t)
  /\ UNCHANGED <<sim_vars, now, loop_vars>>

SchedulerTags == \E s \in StorageId, tag \in Tag :
  /\ Calling /\ MayAsk
  /\ \/ \E d \in Dataset : NumberOfTags < MaxTags /\ add_tag_on_dataset(s, d, tag)
     \/ remove_tag_on_all_datasets(s, tag)
  /\ UNCHANGED <<sim_vars, now, loop_vars>>

SchedulerStops ==
  /\ Calling /\ Cardinality(DOMAIN current_transfers) <= KillSize
  /\ \A d \in DOMAIN current_transfers : job_state[d] # "IN_KILLING"
  /\ stop_all_data_transfers
  /\ UNCHANGED <<sim_vars, now, loop_vars>>

\* It closes the registration when no transfer is under way.
SchedulerCloses ==
  /\ Calling /\ Open /\ current_transfers = <<>>
  /\ NotifyRegistrationFinished
  /\ UNCHANGED <<sim_vars, now, loop_vars, controller_vars>>

\* The jobs of the workload do not touch the storages: it rejects them as they come.
Arriving(j) == Handling("JOB_SUBMITTED") /\ j \in Head(events).jobs /\ Untouched(j)

SchedulerRejects == \E j \in Static :
  /\ Listening /\ Arriving(j)
  /\ RejectJobs(<<j>>)
  /\ UNCHANGED <<sim_vars, now, loop_vars, controller_vars>>

SchedulerReturns ==
  /\ ~Acknowledgement /\ ~Completion /\ \A j \in Static : ~Arriving(j)
  /\ ClientReturn
  /\ UNCHANGED controller_vars

-----------------------------------------------------------------------------

Init ==
  /\ BatsimInit
  /\ datasets = Loaded
  /\ dataset_timestamps = [s \in StorageId |-> [d \in Dataset |-> 0]]
  /\ dataset_tags = [s \in StorageId |-> [d \in Dataset |-> {}]]
  /\ available_space = [s \in StorageId |-> Capacity[s] - SizeOf(ToSet(Loaded[s]))]
  /\ reserved_space = [s \in StorageId |-> 0]
  /\ current_transfers = <<>> /\ next_staging_job_id = 0
  /\ finish_time = [d \in Dynamic |-> 0]

\* A step of the library or of the simulator; a job that ends is given its time.
LibraryStep ==
  /\ Library
  /\ finish_time' = [d \in Dynamic |-> IF truth[d] # "done" /\ truth'[d] = "done"
                                       THEN now ELSE finish_time[d]]
  /\ UNCHANGED <<storage_vars, current_transfers, next_staging_job_id>>

Next ==
  \/ LibraryStep
  \/ StagingSubmitted
  \/ \E d \in Dynamic : data_staging_completed(d)
  \/ SchedulerAsks \/ SchedulerTags \/ SchedulerStops
  \/ SchedulerRejects \/ SchedulerCloses \/ SchedulerReturns
  \/ Over /\ UNCHANGED vars

Spec == Init /\ [][Next]_vars

\* pybatsim goes on as long as it can, and a callback makes finitely many
\* calls.  The simulator injects the commands and sends its messages, and
\* every job that runs ends.
Fairness ==
  /\ WF_vars(\/ (Dispatch \/ SendReply) /\ LibraryStep
             \/ StagingSubmitted \/ \E d \in Dynamic : data_staging_completed(d))
  /\ WF_vars(SchedulerReturns)
  /\ WF_vars((Inject \/ Receive) /\ LibraryStep)
  /\ \A j \in Job : WF_vars((\E o \in Outcomes : SimComplete(j, o)) /\ LibraryStep)

FairSpec == Spec /\ Fairness

-----------------------------------------------------------------------------
\* Properties

\* Every variable of the controller keeps its type.
StorageTypeOK ==
  /\ TypeOK
  /\ datasets \in [StorageId -> Seq(Dataset)]
  /\ dataset_timestamps \in [StorageId -> [Dataset -> Nat]]
  /\ dataset_tags \in [StorageId -> [Dataset -> SUBSET Tag]]
  /\ available_space \in [StorageId -> Nat] /\ reserved_space \in [StorageId -> Nat]
  /\ DOMAIN current_transfers \subseteq Dynamic /\ Range(current_transfers) \subseteq DataTransfer
  /\ next_staging_job_id \in 0 .. Len(StagingJob) /\ finish_time \in [Dynamic -> Nat]

\* The two counters of a storage are what one gets by adding up its datasets,
\* and the transfers under way to it.
SpaceAccounting == phase # "exception" => \A s \in StorageId :
  /\ IsInjective(datasets[s])
  /\ available_space[s] + SizeOf(ToSet(datasets[s])) = Capacity[s]
  /\ reserved_space[s] =
       SumFunctionOnSet([d \in DOMAIN current_transfers |-> Size[current_transfers[d].dataset_id]],
                        {d \in DOMAIN current_transfers : current_transfers[d].dest_id = s})

\* No transfer is lost or forgotten: while pybatsim waits, the controller knows
\* of exactly the staging jobs that the simulator has, will have, or reports.
TransfersTracked == phase = "recv" => \A d \in Dynamic :
  d \in DOMAIN current_transfers <=>
    \/ Mentions(commands, d) /\ truth[d] \in {"absent", "queued"}
    \/ truth[d] = "running"
    \/ \E i \in DOMAIN mailbox : mailbox[i].type = "JOB_COMPLETED" /\ d \in mailbox[i].jobs

\* A tagged dataset stays, whatever space is asked for.
TaggedStays ==
  [][\A s \in StorageId, d \in Dataset :
       has_dataset(s, d) /\ Tagged(s, d) => d \in ToSet(datasets'[s])]_vars

\* A dataset is only evicted if there is no older one that stays without a tag.
LeastRecentlyUsed ==
  [][\A s \in StorageId : \A d \in ToSet(datasets[s]) \ ToSet(datasets'[s]) :
       \A e \in ToSet(datasets'[s]) \cap ToSet(datasets[s]) :
         Tagged(s, e) \/ dataset_timestamps[s][d] <= dataset_timestamps[s][e]]_vars

\* Eviction is never in vain, and never goes further than it must: after it the
\* dataset asked for has its space, and without its last victim it would not.
EvictionNeeded ==
  [][\A s \in StorageId : LET gone == ToSet(datasets[s]) \ ToSet(datasets'[s]) IN
       gone # {} =>
         \E d \in DOMAIN current_transfers' \ DOMAIN current_transfers :
           LET t == current_transfers'[d] IN
             /\ t.dest_id = s /\ available_space'[s] >= Size[t.dataset_id]
             /\ \E e \in gone : available_space'[s] - Size[e] < Size[t.dataset_id]]_vars

\* Every transfer that is granted ends and the scheduler gets its callback,
\* unless the controller has raised an exception.
EveryTransferEnds ==
  \A d \in Dynamic : d \in DOMAIN current_transfers ~> (d \notin DOMAIN current_transfers \/ phase = "exception")

\* The storages implement Replicas.
ReplicasOf == INSTANCE Replicas WITH
  holding <- [s \in StorageId |-> ToSet(datasets[s])],
  pinned  <- [s \in StorageId |-> {d \in Dataset : Tagged(s, d)}]

ImplementsReplicas == ReplicasOf!ReplicasSpec

\* What the docstring of add_dataset_to_storage says of the call made when a
\* transfer completes, "Precondition: The dataset has enough space in the storage".
ArrivalFits ==
  \A d \in DOMAIN current_transfers :
    Completion /\ d \in Head(events).jobs /\ job_state[d] = "COMPLETED_SUCCESSFULLY" =>
      LET t == current_transfers[d] IN
        has_dataset(t.dest_id, t.dataset_id) \/ available_space[t.dest_id] >= Size[t.dataset_id]
=============================================================================

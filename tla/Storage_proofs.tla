--------------------------- MODULE Storage_proofs ---------------------------
(***************************************************************************)
(* Theorems about StorageController, for any number of storages, datasets, *)
(* tags and staging jobs: space is accounted for, eviction spares what is  *)
(* tagged, takes the least recently used, and no more than it must, and    *)
(* the storages implement Replicas.  None of this rests on what the        *)
(* messages carry: the accounts of the storages are right in any order of  *)
(* acknowledgements, completions and kills.                                *)
(*                                                                         *)
(* That no transfer is lost or forgotten does rest on the messages: the    *)
(* last part follows each staging job on its way through the commands, the *)
(* simulator and the events.                                               *)
(***************************************************************************)
EXTENDS StorageController, Sums_proofs, Batsim_proofs

-----------------------------------------------------------------------------
\* The inductive invariant

\* What is reserved on a storage for the transfers C.
ReservedBy(C, s) ==
  SumFunctionOnSet([d \in DOMAIN C |-> Size[C[d].dataset_id]],
                   {d \in DOMAIN C : C[d].dest_id = s})

\* The share of one of them.
Share(t, s) == IF t.dest_id = s THEN Size[t.dataset_id] ELSE 0

Clocks == now \in Nat /\ finish_time \in [Dynamic -> Nat]

\* The datasets of every storage and its free space make up its capacity.
Stored ==
  /\ datasets \in [StorageId -> Seq(Dataset)]
  /\ dataset_timestamps \in [StorageId -> [Dataset -> Nat]]
  /\ dataset_tags \in [StorageId -> [Dataset -> SUBSET Tag]]
  /\ available_space \in [StorageId -> Nat]
  /\ \A s \in StorageId : /\ IsInjective(datasets[s])
                          /\ available_space[s] + SizeOf(ToSet(datasets[s])) = Capacity[s]

\* The transfers are by staging jobs that were numbered, so the next is new.
Numbered ==
  /\ next_staging_job_id \in 0 .. Len(StagingJob)
  /\ DOMAIN current_transfers \subseteq {StagingJob[i] : i \in 1 .. next_staging_job_id}
  /\ \A d \in DOMAIN current_transfers : current_transfers[d] \in DataTransfer

\* What is reserved is what the transfers under way reserve, unless the handling of
\* an event was cut short by an exception.
Reserved ==
  /\ reserved_space \in [StorageId -> Int]
  /\ phase # "exception" => \A s \in StorageId : reserved_space[s] = ReservedBy(current_transfers, s)

StorageInv == Clocks /\ Stored /\ Numbered /\ Reserved

-----------------------------------------------------------------------------
\* Sizes

\* The size of any set of datasets is a number, and that of more is no less.
LEMMA Sizes ==
  ASSUME NEW S \in SUBSET Dataset
  PROVE  /\ IsFiniteSet(S) /\ SizeOf(S) \in Nat
         /\ \A T \in SUBSET S : SizeOf(T) \in Nat /\ SizeOf(T) <= SizeOf(S)
         /\ \A T \in SUBSET S : SizeOf(S) = SizeOf(T) + SizeOf(S \ T)
         /\ \A d \in S : SizeOf(S) = SizeOf(S \ {d}) + Size[d]
         /\ S = {} => SizeOf(S) = 0
<1>1. \A T \in SUBSET Dataset : IsFiniteSet(T) /\ \A d \in T : Size[d] \in Nat
  BY StorageAssumption, FS_Subset DEF StorageAssumption
<1>2. \A T \in SUBSET Dataset : SizeOf(T) \in Nat /\ (T = {} => SizeOf(T) = 0)
  BY <1>1, SumStep DEF SizeOf
<1>3. \A T \in SUBSET S : SizeOf(T) <= SizeOf(S)
  BY <1>1, SumMonotone DEF SizeOf
<1>4. \A T \in SUBSET S : SizeOf(S) = SizeOf(T) + SizeOf(S \ T)
  BY <1>1, SumSplit DEF SizeOf
<1>5. \A d \in S : SizeOf(S) = Size[d] + SizeOf(S \ {d})
  BY <1>1, SumTakeOut DEF SizeOf
<1>6. \A d \in S : SizeOf(S \ {d}) \in Nat /\ Size[d] \in Nat
  BY <1>1, <1>2
<1> QED
  BY <1>1, <1>2, <1>3, <1>4, <1>5, <1>6

\* A dataset more takes its size.
LEMMA SizeWithMore ==
  ASSUME NEW S \in SUBSET Dataset, NEW d \in Dataset \ S
  PROVE  SizeOf(S \cup {d}) = SizeOf(S) + Size[d]
<1> DEFINE T == S \cup {d}
<1>1. T \in SUBSET Dataset /\ d \in T /\ T \ {d} = S
  OBVIOUS
<1> HIDE DEF T
<1>2. SizeOf(T) = SizeOf(T \ {d}) + Size[d]
  BY <1>1, Sizes
<1> QED
  BY <1>1, <1>2 DEF T

\* What is left of the datasets of a storage.
LEMMA WithoutHas ==
  ASSUME NEW q \in Seq(Dataset), NEW D
  PROVE  /\ Without(q, D) \in Seq(Dataset) /\ ToSet(Without(q, D)) = ToSet(q) \ D
         /\ IsInjective(q) => IsInjective(Without(q, D))
<1>1. Without(q, D) = Left(q, D)
  BY DEF Without, Left
<1> QED
  BY <1>1, LeftHas

\* The datasets of a storage are datasets.
LEMMA HeldAreDatasets ==
  ASSUME NEW q \in Seq(Dataset)
  PROVE  ToSet(q) \in SUBSET Dataset
  BY ElementOfSeq, LenProperties DEF ToSet

-----------------------------------------------------------------------------
\* Reservations

\* A transfer more on a storage reserves the size of its dataset there.
LEMMA ReservedWithMore ==
  ASSUME NEW C, IsFiniteSet(DOMAIN C), \A d \in DOMAIN C : C[d] \in DataTransfer,
         NEW x \in DOMAIN C,
         NEW B, DOMAIN B = DOMAIN C \ {x}, \A d \in DOMAIN B : B[d] = C[d],
         NEW s
  PROVE  /\ ReservedBy(B, s) \in Nat
         /\ ReservedBy(C, s) = ReservedBy(B, s) + Share(C[x], s)
<1> DEFINE f == [d \in DOMAIN C |-> Size[C[d].dataset_id]]
           g == [d \in DOMAIN B |-> Size[B[d].dataset_id]]
           S == {d \in DOMAIN C : C[d].dest_id = s}
           T == {d \in DOMAIN B : B[d].dest_id = s}
<1>1. \A d \in DOMAIN C : f[d] \in Nat /\ f[d] = Size[C[d].dataset_id]
  BY StorageAssumption DEF StorageAssumption, DataTransfer
<1>2. \A d \in DOMAIN B : g[d] = f[d]
  OBVIOUS
<1>3. T = S \ {x} /\ S \subseteq DOMAIN C /\ T \subseteq DOMAIN B /\ T \subseteq S
  OBVIOUS
<1>4. x \in S <=> C[x].dest_id = s
  OBVIOUS
<1>5. ReservedBy(C, s) = SumFunctionOnSet(f, S) /\ ReservedBy(B, s) = SumFunctionOnSet(g, T)
  BY DEF ReservedBy
<1> HIDE DEF f, g, S, T
<1>6. /\ IsFiniteSet(S) /\ \A d \in S : f[d] \in Nat
      /\ IsFiniteSet(T) /\ \A d \in T : f[d] \in Nat /\ g[d] = f[d]
  BY <1>1, <1>2, <1>3, FS_Subset
<1>7. SumFunctionOnSet(g, T) = SumFunctionOnSet(f, T)
  BY <1>6, SumSame
<1>8. SumFunctionOnSet(f, T) \in Nat
  BY <1>6, SumStep
<1>9. CASE x \in S
  <2>1. SumFunctionOnSet(f, S) = f[x] + SumFunctionOnSet(f, S \ {x})
    BY <1>6, <1>9, SumTakeOut
  <2>2. f[x] = Size[C[x].dataset_id] /\ f[x] \in Nat
    BY <1>1
  <2> QED
    BY <1>3, <1>4, <1>5, <1>7, <1>8, <1>9, <2>1, <2>2 DEF Share
<1>10. CASE x \notin S
  <2>1. S = T
    BY <1>3, <1>10
  <2> QED
    BY <1>4, <1>5, <1>7, <1>8, <1>10, <2>1 DEF Share
<1> QED
  BY <1>9, <1>10

\* The transfers are finitely many.
LEMMA FewTransfers ==
  ASSUME Numbered
  PROVE  IsFiniteSet(DOMAIN current_transfers) /\ DOMAIN current_transfers \subseteq Dynamic
<1>1. /\ StagingJob \in Seq(Dynamic) /\ next_staging_job_id \in Nat
      /\ next_staging_job_id <= Len(StagingJob) /\ IsFiniteSet(Dynamic)
  BY StorageAssumption, ConstantsAssumption, LenProperties
     DEF StorageAssumption, ConstantsAssumption, Numbered
<1>2. \A i \in 1 .. next_staging_job_id : StagingJob[i] \in Dynamic
  BY <1>1, ElementOfSeq, LenProperties
<1>3. DOMAIN current_transfers \subseteq Dynamic
  BY <1>2 DEF Numbered
<1> QED
  BY <1>1, <1>3, FS_Subset

-----------------------------------------------------------------------------
\* The steps that leave the storages alone

Aside ==
  /\ UNCHANGED <<storage_vars, current_transfers, next_staging_job_id>>
  /\ Clocks' /\ (phase = "exception" => phase' = "exception")

\* The library acts in none of the callbacks and after no exception.
LEMMA LibraryAside ==
  ASSUME Library, now \in Nat
  PROVE  now' \in Nat /\ phase # "exception"
<1>1. CASE Sim
  <2>1. CASE SimTick \/ (\E j \in Job : SimSubmit(j)) \/ (\E j \in Job, o \in Outcomes : SimComplete(j, o))
             \/ SimCall \/ SimEnd
    <3>1. Waiting /\ now' \in {now, now + 1}
      BY <2>1 DEF SimTick, SimSubmit, SimComplete, SimCall, SimEnd
    <3> QED
      BY <3>1 DEF Waiting
  <2>2. CASE Inject
    <3>1. Waiting /\ now' = now
      BY <2>2 DEF Inject, InjectExecute, InjectReject, InjectChange, InjectKill, InjectRegister,
                  InjectNotify, InjectCallMeLater, Injecting, Injected
    <3> QED
      BY <3>1 DEF Waiting
  <2> QED
    BY <1>1, <2>1, <2>2 DEF Sim
<1>2. CASE Receive \/ Timeout \/ SendReply
  BY <1>2 DEF Receive, Timeout, SendReply
<1>3. CASE Dispatch
  BY <1>3 DEF Dispatch, Dispatching, DispatchSimulationBegins, DispatchSimulationEnds, DispatchJobSubmitted,
              DispatchJobCompleted, DispatchJobKilled, DispatchRequestedCall, DispatchNotify, DispatchNoMoreEvents
<1> QED
  BY <1>1, <1>2, <1>3 DEF Library

\* All but the end of a transfer, the request of one and the tags.
LEMMA StepKinds ==
  ASSUME StorageInv, [Next]_vars
  PROVE  Aside \/ (\E d \in Dynamic : data_staging_completed(d)) \/ SchedulerAsks \/ SchedulerTags
<1>1. CASE LibraryStep
  <2>1. now' \in Nat /\ phase # "exception"
    BY <1>1, LibraryAside DEF LibraryStep, StorageInv, Clocks
  <2>2. finish_time' \in [Dynamic -> Nat]
    BY <1>1 DEF LibraryStep, StorageInv, Clocks
  <2> QED
    BY <1>1, <2>1, <2>2 DEF LibraryStep, Aside, Clocks
<1>2. CASE StagingSubmitted
  BY <1>2 DEF StagingSubmitted, Acknowledgement, Handling, controller_vars, transfer_vars, storage_vars,
              Aside, Clocks, StorageInv
<1>3. CASE SchedulerStops
  BY <1>3 DEF SchedulerStops, stop_all_data_transfers, loop_vars, controller_vars, transfer_vars, Aside, Clocks,
              StorageInv
<1>4. CASE SchedulerRejects \/ SchedulerCloses
  BY <1>4 DEF SchedulerRejects, SchedulerCloses, loop_vars, controller_vars, transfer_vars, Aside, Clocks,
              StorageInv
<1>5. CASE SchedulerReturns
  BY <1>5 DEF SchedulerReturns, ClientReturn, InitReturns, controller_vars, transfer_vars, Aside, Clocks,
              StorageInv
<1>6. CASE UNCHANGED vars
  BY <1>6 DEF vars, batsim_vars, loop_vars, controller_vars, transfer_vars, Aside, Clocks, StorageInv
<1> QED
  BY <1>1, <1>2, <1>3, <1>4, <1>5, <1>6 DEF Next

\* A step that leaves the storages and the transfers alone keeps the accounts.
LEMMA AsideStep ==
  ASSUME StorageInv, Aside
  PROVE  StorageInv'
  BY DEF StorageInv, Aside, Clocks, Stored, Numbered, Reserved, storage_vars, ReservedBy, DataTransfer, SizeOf

-----------------------------------------------------------------------------
\* The end of a transfer

\* What it does: the transfer is forgotten, its space is no longer reserved, and
\* if all is well the storage has the dataset, or had it.
LEMMA CompletionEffect ==
  ASSUME StorageInv, NEW d, data_staging_completed(d)
  PROVE  /\ d \in DOMAIN current_transfers /\ current_transfers[d] \in DataTransfer
         /\ current_transfers' = Restrict(current_transfers, DOMAIN current_transfers \ {d})
         /\ Clocks' /\ UNCHANGED <<next_staging_job_id, dataset_tags>> /\ phase # "exception"
         /\ LET t == current_transfers[d] IN
            \/ phase' = "exception" /\ UNCHANGED storage_vars
            \/ /\ has_dataset(t.source_id, t.dataset_id)
               /\ reserved_space' = [reserved_space EXCEPT ![t.dest_id] = @ - Size[t.dataset_id]]
               /\ dataset_timestamps' = dataset_timestamps \/
                  dataset_timestamps' = [dataset_timestamps EXCEPT ![t.dest_id][t.dataset_id] = finish_time[d]]
               /\ \/ UNCHANGED <<datasets, available_space>>
                  \/ /\ ~has_dataset(t.dest_id, t.dataset_id)
                     /\ available_space[t.dest_id] >= Size[t.dataset_id]
                     /\ datasets' = [datasets EXCEPT ![t.dest_id] = Append(@, t.dataset_id)]
                     /\ available_space' = [available_space EXCEPT ![t.dest_id] = @ - Size[t.dataset_id]]
<1>1. d \in DOMAIN current_transfers /\ current_transfers[d] \in DataTransfer
  BY DEF data_staging_completed, Completion, StorageInv, Numbered
<1>2. /\ current_transfers' = Restrict(current_transfers, DOMAIN current_transfers \ {d})
      /\ finish_time' = [finish_time EXCEPT ![d] = 0] /\ now' = now /\ phase = "handler"
      /\ next_staging_job_id' = next_staging_job_id /\ dataset_tags' = dataset_tags
  BY DEF data_staging_completed, Completion, Handling, storage_vars
<1>3. Clocks'
  BY <1>2 DEF StorageInv, Clocks
<1> QED
  BY <1>1, <1>2, <1>3
     DEF data_staging_completed, add_dataset_to_storage, update_timestamp, add_dataset, Released, storage_vars

\* The end of a transfer keeps the accounts, whether it stores a dataset, comes too
\* late for its source, or was killed.
LEMMA CompletionStep ==
  ASSUME StorageInv, NEW d, data_staging_completed(d)
  PROVE  StorageInv'
<1> DEFINE t == current_transfers[d]
           s == t.dest_id
           x == t.dataset_id
<1>1. /\ d \in DOMAIN current_transfers /\ t \in DataTransfer
      /\ current_transfers' = Restrict(current_transfers, DOMAIN current_transfers \ {d})
      /\ Clocks' /\ UNCHANGED <<next_staging_job_id, dataset_tags>> /\ phase # "exception"
      /\ \/ phase' = "exception" /\ UNCHANGED storage_vars
         \/ /\ reserved_space' = [reserved_space EXCEPT ![s] = @ - Size[x]]
            /\ dataset_timestamps' = dataset_timestamps \/
               dataset_timestamps' = [dataset_timestamps EXCEPT ![s][x] = finish_time[d]]
            /\ \/ UNCHANGED <<datasets, available_space>>
               \/ /\ ~has_dataset(s, x) /\ available_space[s] >= Size[x]
                  /\ datasets' = [datasets EXCEPT ![s] = Append(@, x)]
                  /\ available_space' = [available_space EXCEPT ![s] = @ - Size[x]]
  BY CompletionEffect
<1>2. s \in StorageId /\ x \in Dataset /\ Size[x] \in Nat
  BY <1>1, StorageAssumption DEF StorageAssumption, DataTransfer
<1>3. Stored /\ Clocks /\ Numbered /\ Reserved
  BY DEF StorageInv
<1>4. DOMAIN current_transfers' = DOMAIN current_transfers \ {d}
      /\ \A e \in DOMAIN current_transfers' : current_transfers'[e] = current_transfers[e]
  BY <1>1 DEF Restrict
<1>5. Numbered'
  BY <1>1, <1>3, <1>4 DEF Numbered, DataTransfer
<1> HIDE DEF t, s, x
<1>6. Stored'
  <2>1. CASE UNCHANGED storage_vars
    BY <1>3, <2>1 DEF Stored, storage_vars, SizeOf
  <2>2. finish_time[d] \in Nat
    BY <1>1, <1>3, FewTransfers DEF Clocks
  <2>3. ASSUME dataset_timestamps' = dataset_timestamps \/
               dataset_timestamps' = [dataset_timestamps EXCEPT ![s][x] = finish_time[d]]
        PROVE  dataset_timestamps' \in [StorageId -> [Dataset -> Nat]]
    <3>1. dataset_timestamps \in [StorageId -> [Dataset -> Nat]]
      BY <1>3 DEF Stored
    <3>2. [dataset_timestamps[s] EXCEPT ![x] = finish_time[d]] \in [Dataset -> Nat]
      BY <1>2, <2>2, <3>1
    <3> QED
      BY <1>2, <2>3, <3>1, <3>2
  <2>4. dataset_tags' \in [StorageId -> [Dataset -> SUBSET Tag]]
    BY <1>1, <1>3 DEF Stored
  <2>5. ASSUME UNCHANGED <<datasets, available_space>>,
               dataset_timestamps' \in [StorageId -> [Dataset -> Nat]]
        PROVE  Stored'
    BY <1>3, <2>4, <2>5 DEF Stored, SizeOf
  <2>6. ASSUME ~has_dataset(s, x), available_space[s] >= Size[x],
               datasets' = [datasets EXCEPT ![s] = Append(@, x)],
               available_space' = [available_space EXCEPT ![s] = @ - Size[x]],
               dataset_timestamps' \in [StorageId -> [Dataset -> Nat]]
        PROVE  Stored'
    <3> DEFINE q == datasets[s]
    <3>1. q \in Seq(Dataset) /\ IsInjective(q) /\ x \notin ToSet(q) /\ ToSet(q) \in SUBSET Dataset
          /\ available_space[s] + SizeOf(ToSet(q)) = Capacity[s] /\ available_space[s] \in Nat
      BY <1>2, <1>3, <2>6, HeldAreDatasets DEF Stored, has_dataset
    <3> HIDE DEF q
    <3>2. /\ Append(q, x) \in Seq(Dataset) /\ ToSet(Append(q, x)) = ToSet(q) \cup {x}
          /\ IsInjective(Append(q, x))
      BY <1>2, <3>1, AppendedSet, AppendProperties
    <3>3. SizeOf(ToSet(q) \cup {x}) = SizeOf(ToSet(q)) + Size[x] /\ SizeOf(ToSet(q)) \in Nat
      BY <1>2, <3>1, SizeWithMore, Sizes
    <3>4. \A r \in StorageId : /\ datasets'[r] = IF r = s THEN Append(q, x) ELSE datasets[r]
                               /\ available_space'[r] = available_space[r] - IF r = s THEN Size[x] ELSE 0
      BY <1>2, <1>3, <2>6 DEF Stored, q
    <3>5. datasets' \in [StorageId -> Seq(Dataset)]
      BY <1>2, <1>3, <2>6, <3>2 DEF Stored, q
    <3>6. available_space' \in [StorageId -> Nat]
      BY <1>2, <1>3, <2>6 DEF Stored
    <3>7. ASSUME NEW r \in StorageId
          PROVE  IsInjective(datasets'[r]) /\ available_space'[r] + SizeOf(ToSet(datasets'[r])) = Capacity[r]
      <4>1. CASE r = s
        <5>1. datasets'[r] = Append(q, x) /\ available_space'[r] = available_space[s] - Size[x]
          BY <3>4, <4>1
        <5>2. SizeOf(ToSet(datasets'[r])) = SizeOf(ToSet(q)) + Size[x]
          BY <3>2, <3>3, <5>1
        <5> QED
          BY <1>2, <3>1, <3>2, <3>3, <4>1, <5>1, <5>2
      <4>2. CASE r # s
        BY <1>3, <3>4, <4>2 DEF Stored
      <4> QED
        BY <4>1, <4>2
    <3> QED
      BY <2>4, <2>6, <3>5, <3>6, <3>7 DEF Stored, SizeOf
  <2> QED
    BY <1>1, <2>1, <2>3, <2>5, <2>6
<1>7. Reserved'
  <2>1. CASE phase' = "exception" /\ UNCHANGED storage_vars
    BY <1>3, <2>1 DEF Reserved, storage_vars
  <2>2. CASE reserved_space' = [reserved_space EXCEPT ![s] = @ - Size[x]]
    <3>1. reserved_space' \in [StorageId -> Int]
          /\ \A r \in StorageId : reserved_space'[r] = reserved_space[r] - IF r = s THEN Size[x] ELSE 0
      BY <1>2, <1>3, <2>2 DEF Reserved
    <3>2. ASSUME NEW r \in StorageId PROVE reserved_space'[r] = ReservedBy(current_transfers', r)
      <4>1. reserved_space[r] = ReservedBy(current_transfers, r)
        BY <1>1, <1>3 DEF Reserved
      <4>2. IsFiniteSet(DOMAIN current_transfers) /\ \A e \in DOMAIN current_transfers : current_transfers[e] \in DataTransfer
        BY <1>3, FewTransfers DEF Numbered
      <4>3. /\ ReservedBy(current_transfers', r) \in Nat
            /\ ReservedBy(current_transfers, r) =
                 ReservedBy(current_transfers', r) + Share(current_transfers[d], r)
        <5> DEFINE B == current_transfers'
                   C == current_transfers
        <5>1. DOMAIN B = DOMAIN C \ {d} /\ \A e \in DOMAIN B : B[e] = C[e]
          BY <1>4
        <5>2. IsFiniteSet(DOMAIN C) /\ d \in DOMAIN C /\ \A e \in DOMAIN C : C[e] \in DataTransfer
          BY <1>1, <4>2
        <5> HIDE DEF B, C
        <5>3. ReservedBy(B, r) \in Nat
          BY <5>1, <5>2, ReservedWithMore
        <5>4. ReservedBy(C, r) = ReservedBy(B, r) + Share(C[d], r)
          BY <5>1, <5>2, ReservedWithMore
        <5> QED
          BY <5>3, <5>4 DEF B, C
      <4> QED
        BY <1>2, <3>1, <4>1, <4>3 DEF s, x, t, Share
    <3> QED
      BY <3>1, <3>2 DEF Reserved, ReservedBy
  <2> QED
    BY <1>1, <2>1, <2>2
<1> QED
  BY <1>1, <1>5, <1>6, <1>7 DEF StorageInv

-----------------------------------------------------------------------------
\* The request of a transfer

\* Space is made on s by evicting E.
Evicting(s, E, asked) ==
  /\ available_space[s] < asked
  /\ E = Evicted(s, asked - available_space[s]) /\ SizeOf(E) >= asked - available_space[s]
  /\ datasets' = [datasets EXCEPT ![s] = Without(@, E)]
  /\ dataset_timestamps' = [dataset_timestamps EXCEPT ![s] = [d \in Dataset |-> IF d \in E THEN 0 ELSE @[d]]]
  /\ available_space' = [available_space EXCEPT ![s] = @ + SizeOf(E)]

\* What it does: the next staging job makes the transfer, the space of the dataset
\* is reserved, and space is made if there is too little.
LEMMA RequestEffect ==
  ASSUME StorageInv, SchedulerAsks
  PROVE  \E t \in DataTransfer, d \in Dynamic :
           /\ d \notin DOMAIN current_transfers
           /\ next_staging_job_id < Len(StagingJob) /\ d = StagingJob[next_staging_job_id + 1]
           /\ next_staging_job_id' = next_staging_job_id + 1
           /\ current_transfers' = [e \in DOMAIN current_transfers \cup {d} |->
                                      IF e = d THEN t ELSE current_transfers[e]]
           /\ reserved_space' = [reserved_space EXCEPT ![t.dest_id] = @ + Size[t.dataset_id]]
           /\ UNCHANGED <<now, phase, dataset_tags, finish_time>>
           /\ \/ UNCHANGED <<datasets, dataset_timestamps, available_space>>
              \/ \E E : Evicting(t.dest_id, E, Size[t.dataset_id])
<1>1. PICK t \in DataTransfer :
        MayAsk /\ ask_data_transfer(t) /\ UNCHANGED <<sim_vars, now, loop_vars>>
  BY DEF SchedulerAsks
<1> DEFINE d == StagingJob[next_staging_job_id + 1]
<1>2. /\ next_staging_job_id \in Nat /\ next_staging_job_id < Len(StagingJob)
      /\ StagingJob \in Seq(Dynamic) /\ Len(StagingJob) \in Nat /\ IsInjective(StagingJob)
      /\ DOMAIN StagingJob = 1 .. Len(StagingJob)
      /\ DOMAIN current_transfers \subseteq {StagingJob[i] : i \in 1 .. next_staging_job_id}
  BY <1>1, StorageAssumption, LenProperties DEF StorageAssumption, MayAsk, StorageInv, Numbered
<1>3. next_staging_job_id + 1 \in DOMAIN StagingJob /\ d \in Dynamic
  BY <1>2, ElementOfSeq
<1>4. \A i \in 1 .. next_staging_job_id : i \in DOMAIN StagingJob /\ i # next_staging_job_id + 1
  BY <1>2
<1>5. d \notin DOMAIN current_transfers
  BY <1>2, <1>3, <1>4 DEF IsInjective
<1>6. /\ next_staging_job_id' = next_staging_job_id + 1 /\ finish_time' = finish_time
      /\ current_transfers' = [e \in DOMAIN current_transfers \cup {d} |->
                                 IF e = d THEN t ELSE current_transfers[e]]
  BY <1>1 DEF ask_data_transfer, issue_data_staging
<1>7. /\ reserved_space' = [reserved_space EXCEPT ![t.dest_id] = @ + Size[t.dataset_id]]
      /\ UNCHANGED dataset_tags
  BY <1>1 DEF ask_data_transfer
<1>8. \/ UNCHANGED <<datasets, dataset_timestamps, available_space>>
      \/ Evicting(t.dest_id, Evicted(t.dest_id, Size[t.dataset_id] - available_space[t.dest_id]), Size[t.dataset_id])
  BY <1>1 DEF ask_data_transfer, make_space, Evicting
<1>9. UNCHANGED <<now, phase>>
  BY <1>1 DEF loop_vars
<1> HIDE DEF d
<1>10. next_staging_job_id < Len(StagingJob) /\ d = StagingJob[next_staging_job_id + 1]
  BY <1>2 DEF d
<1> QED
  BY <1>3, <1>5, <1>6, <1>7, <1>8, <1>9, <1>10

\* What is evicted was on the storage, without a tag.
LEMMA EvictedWasThere ==
  ASSUME Stored, NEW s \in StorageId, NEW space
  PROVE  /\ Evicted(s, space) \subseteq Evictable(s)
         /\ Evictable(s) \subseteq ToSet(datasets[s]) /\ ToSet(datasets[s]) \in SUBSET Dataset
         /\ \A d \in Evictable(s) : ~Tagged(s, d)
<1>1. datasets[s] \in Seq(Dataset)
  BY DEF Stored
<1> QED
  BY <1>1, HeldAreDatasets DEF Evicted, Evictable

\* What is left after it.
LEMMA EvictionEffect ==
  ASSUME Stored, NEW s \in StorageId, NEW E, NEW asked \in Nat, Evicting(s, E, asked)
  PROVE  /\ E \subseteq Evictable(s) /\ E \in SUBSET Dataset /\ E \in SUBSET ToSet(datasets[s])
         /\ \A r \in StorageId : r # s => datasets'[r] = datasets[r] /\ available_space'[r] = available_space[r]
         /\ ToSet(datasets'[s]) = ToSet(datasets[s]) \ E
         /\ available_space'[s] = available_space[s] + SizeOf(E) /\ available_space'[s] >= asked
         /\ SizeOf(E) \in Nat
         /\ dataset_timestamps' \in [StorageId -> [Dataset -> Nat]]
         /\ datasets' \in [StorageId -> Seq(Dataset)] /\ available_space' \in [StorageId -> Nat]
         /\ \A r \in StorageId : /\ IsInjective(datasets'[r])
                                 /\ available_space'[r] + SizeOf(ToSet(datasets'[r])) = Capacity[r]
<1> DEFINE q == datasets[s]
<1>1. /\ E \subseteq Evictable(s) /\ E \subseteq ToSet(q) /\ ToSet(q) \in SUBSET Dataset
  BY EvictedWasThere DEF Evicting
<1>2. /\ q \in Seq(Dataset) /\ IsInjective(q)
      /\ available_space[s] \in Nat /\ available_space[s] + SizeOf(ToSet(q)) = Capacity[s]
  BY DEF Stored
<1>3. /\ Without(q, E) \in Seq(Dataset) /\ ToSet(Without(q, E)) = ToSet(q) \ E
      /\ IsInjective(Without(q, E))
  BY <1>2, WithoutHas
<1>4. /\ datasets' \in [StorageId -> Seq(Dataset)]
      /\ \A r \in StorageId : datasets'[r] = IF r = s THEN Without(q, E) ELSE datasets[r]
  BY <1>3 DEF Evicting, Stored
<1> HIDE DEF q
<1>5. SizeOf(E) \in Nat /\ SizeOf(ToSet(q) \ E) \in Nat /\ SizeOf(ToSet(q)) = SizeOf(E) + SizeOf(ToSet(q) \ E)
  BY <1>1, Sizes
<1>6. /\ available_space' \in [StorageId -> Nat]
      /\ \A r \in StorageId : available_space'[r] = IF r = s THEN available_space[s] + SizeOf(E) ELSE available_space[r]
  BY <1>2, <1>5 DEF Evicting, Stored
<1>7. available_space[s] + SizeOf(E) >= asked
  BY <1>2, <1>5 DEF Evicting
<1>8. dataset_timestamps' \in [StorageId -> [Dataset -> Nat]]
  <2>1. dataset_timestamps[s] \in [Dataset -> Nat] /\ dataset_timestamps \in [StorageId -> [Dataset -> Nat]]
    BY DEF Stored
  <2>2. [d \in Dataset |-> IF d \in E THEN 0 ELSE dataset_timestamps[s][d]] \in [Dataset -> Nat]
    BY <2>1
  <2> QED
    BY <2>1, <2>2 DEF Evicting
<1>9. ASSUME NEW r \in StorageId
      PROVE  IsInjective(datasets'[r]) /\ available_space'[r] + SizeOf(ToSet(datasets'[r])) = Capacity[r]
  <2>1. CASE r = s
    <3>1. datasets'[r] = Without(q, E) /\ available_space'[r] = available_space[s] + SizeOf(E)
      BY <1>4, <1>6, <2>1
    <3>2. SizeOf(ToSet(datasets'[r])) = SizeOf(ToSet(q) \ E)
      BY <1>3, <3>1
    <3> QED
      BY <1>2, <1>3, <1>5, <2>1, <3>1, <3>2
  <2>2. CASE r # s
    <3>1. datasets'[r] = datasets[r] /\ available_space'[r] = available_space[r]
      BY <1>4, <1>6, <2>2
    <3> QED
      BY <3>1 DEF Stored
  <2> QED
    BY <2>1, <2>2
<1> QED
  BY <1>1, <1>3, <1>4, <1>5, <1>6, <1>7, <1>8, <1>9 DEF q

\* A request keeps them: what is evicted goes from the datasets to the free space.
LEMMA RequestStep ==
  ASSUME StorageInv, SchedulerAsks
  PROVE  StorageInv'
<1>1. PICK t \in DataTransfer, d \in Dynamic :
        /\ d \notin DOMAIN current_transfers
        /\ next_staging_job_id < Len(StagingJob) /\ d = StagingJob[next_staging_job_id + 1]
        /\ next_staging_job_id' = next_staging_job_id + 1
        /\ current_transfers' = [e \in DOMAIN current_transfers \cup {d} |->
                                   IF e = d THEN t ELSE current_transfers[e]]
        /\ reserved_space' = [reserved_space EXCEPT ![t.dest_id] = @ + Size[t.dataset_id]]
        /\ UNCHANGED <<now, phase, dataset_tags, finish_time>>
        /\ \/ UNCHANGED <<datasets, dataset_timestamps, available_space>>
           \/ \E E : Evicting(t.dest_id, E, Size[t.dataset_id])
  BY RequestEffect
<1>2. t.dest_id \in StorageId /\ Size[t.dataset_id] \in Nat
  BY StorageAssumption DEF StorageAssumption, DataTransfer
<1>3. Clocks /\ Stored /\ Numbered /\ Reserved
  BY DEF StorageInv
<1>4. Clocks'
  BY <1>1, <1>3 DEF Clocks
<1>5. Stored'
  <2>1. dataset_tags' \in [StorageId -> [Dataset -> SUBSET Tag]]
    BY <1>1, <1>3 DEF Stored
  <2>2. CASE UNCHANGED <<datasets, dataset_timestamps, available_space>>
    BY <1>3, <2>1, <2>2 DEF Stored, SizeOf
  <2>3. ASSUME NEW E, Evicting(t.dest_id, E, Size[t.dataset_id]) PROVE Stored'
    <3>1. /\ dataset_timestamps' \in [StorageId -> [Dataset -> Nat]]
          /\ datasets' \in [StorageId -> Seq(Dataset)] /\ available_space' \in [StorageId -> Nat]
          /\ \A r \in StorageId : /\ IsInjective(datasets'[r])
                                  /\ available_space'[r] + SizeOf(ToSet(datasets'[r])) = Capacity[r]
      BY <1>2, <1>3, <2>3, EvictionEffect
    <3> QED
      BY <2>1, <3>1 DEF Stored, SizeOf
  <2> QED
    BY <1>1, <2>2, <2>3
<1>6. /\ DOMAIN current_transfers' = DOMAIN current_transfers \cup {d}
      /\ current_transfers'[d] = t
      /\ \A e \in DOMAIN current_transfers : current_transfers'[e] = current_transfers[e]
  BY <1>1
<1>7. Numbered'
  <2>1. next_staging_job_id' \in 0 .. Len(StagingJob) /\ next_staging_job_id \in Nat
    BY <1>1, <1>3, StorageAssumption, LenProperties DEF Numbered, StorageAssumption
  <2>2. 1 .. next_staging_job_id \subseteq 1 .. next_staging_job_id' /\ next_staging_job_id' \in 1 .. next_staging_job_id'
    BY <1>1, <2>1
  <2>3. DOMAIN current_transfers' \subseteq {StagingJob[i] : i \in 1 .. next_staging_job_id'}
    BY <1>1, <1>3, <1>6, <2>2 DEF Numbered
  <2>4. \A e \in DOMAIN current_transfers' : current_transfers'[e] \in DataTransfer
    BY <1>3, <1>6 DEF Numbered
  <2> QED
    BY <2>1, <2>3, <2>4 DEF Numbered, DataTransfer
<1>8. Reserved'
  <2>1. reserved_space' \in [StorageId -> Int]
        /\ \A r \in StorageId : reserved_space'[r] = reserved_space[r] + Share(t, r)
    BY <1>1, <1>2, <1>3 DEF Reserved, Share
  <2>2. ASSUME NEW r \in StorageId, phase # "exception"
        PROVE  reserved_space'[r] = ReservedBy(current_transfers', r)
    <3> DEFINE B == current_transfers
               C == current_transfers'
    <3>1. DOMAIN B = DOMAIN C \ {d} /\ \A e \in DOMAIN B : B[e] = C[e]
      BY <1>1, <1>6
    <3>2. IsFiniteSet(DOMAIN B)
      BY <1>3, FewTransfers
    <3>3. IsFiniteSet(DOMAIN C)
      BY <1>6, <3>2, FS_AddElement
    <3>4. d \in DOMAIN C /\ C[d] = t /\ \A e \in DOMAIN C : C[e] \in DataTransfer
      BY <1>3, <1>6 DEF Numbered
    <3>5. reserved_space[r] = ReservedBy(B, r)
      BY <1>3, <2>2 DEF Reserved
    <3> HIDE DEF B, C
    <3>6. ReservedBy(C, r) = ReservedBy(B, r) + Share(C[d], r)
      BY <3>1, <3>3, <3>4, ReservedWithMore
    <3>7. reserved_space'[r] = ReservedBy(C, r)
      BY <2>1, <3>4, <3>5, <3>6
    <3> QED
      BY <3>7 DEF C
  <2> QED
    BY <1>1, <2>1, <2>2 DEF Reserved, ReservedBy
<1> QED
  BY <1>4, <1>5, <1>7, <1>8 DEF StorageInv

-----------------------------------------------------------------------------
\* The tags

\* What a tag does to the storages.
LEMMA TagEffect ==
  ASSUME StorageInv, SchedulerTags
  PROVE  /\ UNCHANGED <<datasets, available_space, reserved_space, current_transfers,
                        next_staging_job_id, finish_time, now, phase>>
         /\ \E s \in StorageId, tag \in Tag :
              \/ \E d \in Dataset : add_tag_on_dataset(s, d, tag)
              \/ remove_tag_on_all_datasets(s, tag)
  BY DEF SchedulerTags, add_tag_on_dataset, remove_tag_on_all_datasets, transfer_vars, loop_vars

\* Tags are no part of the accounts.
LEMMA TagStep ==
  ASSUME StorageInv, SchedulerTags
  PROVE  StorageInv'
<1>1. /\ UNCHANGED <<datasets, available_space, reserved_space, current_transfers,
                     next_staging_job_id, finish_time, now, phase>>
      /\ \E s \in StorageId, tag \in Tag :
           \/ \E d \in Dataset : add_tag_on_dataset(s, d, tag)
           \/ remove_tag_on_all_datasets(s, tag)
  BY TagEffect
<1>2. Clocks' /\ Numbered' /\ Reserved'
  BY <1>1 DEF StorageInv, Clocks, Numbered, Reserved, ReservedBy, DataTransfer
<1>3. dataset_timestamps \in [StorageId -> [Dataset -> Nat]] /\ dataset_tags \in [StorageId -> [Dataset -> SUBSET Tag]]
      /\ now \in Nat
  BY DEF StorageInv, Stored, Clocks
<1>4. /\ dataset_timestamps' \in [StorageId -> [Dataset -> Nat]]
      /\ dataset_tags' \in [StorageId -> [Dataset -> SUBSET Tag]]
  <2>1. ASSUME NEW s \in StorageId, NEW tag \in Tag, NEW d \in Dataset, add_tag_on_dataset(s, d, tag)
        PROVE  /\ dataset_timestamps' \in [StorageId -> [Dataset -> Nat]]
               /\ dataset_tags' \in [StorageId -> [Dataset -> SUBSET Tag]]
    <3>1. [dataset_timestamps[s] EXCEPT ![d] = now] \in [Dataset -> Nat]
      BY <1>3
    <3>2. [dataset_tags[s] EXCEPT ![d] = @ \cup {tag}] \in [Dataset -> SUBSET Tag]
      BY <1>3
    <3> QED
      BY <1>3, <2>1, <3>1, <3>2 DEF add_tag_on_dataset
  <2>2. ASSUME NEW s \in StorageId, NEW tag \in Tag, remove_tag_on_all_datasets(s, tag)
        PROVE  /\ dataset_timestamps' \in [StorageId -> [Dataset -> Nat]]
               /\ dataset_tags' \in [StorageId -> [Dataset -> SUBSET Tag]]
    <3>1. [d \in Dataset |-> dataset_tags[s][d] \ {tag}] \in [Dataset -> SUBSET Tag]
      BY <1>3
    <3> QED
      BY <1>3, <2>2, <3>1 DEF remove_tag_on_all_datasets
  <2> QED
    BY <1>1, <2>1, <2>2
<1>5. Stored'
  BY <1>1, <1>4 DEF StorageInv, Stored, SizeOf
<1> QED
  BY <1>2, <1>5 DEF StorageInv

-----------------------------------------------------------------------------
\* The accounts are right

\* They are right at first, as what a storage is loaded with fits it.
LEMMA StorageInit ==
  ASSUME Init
  PROVE  StorageInv
<1>1. now = 0 /\ phase = "recv"
  BY DEF Init, BatsimInit
<1>2. Clocks
  BY <1>1 DEF Init, Clocks
<1>3. ASSUME NEW s \in StorageId
      PROVE  /\ Loaded[s] \in Seq(Dataset) /\ IsInjective(Loaded[s])
             /\ Capacity[s] - SizeOf(ToSet(Loaded[s])) \in Nat
             /\ SizeOf(ToSet(Loaded[s])) \in Nat /\ Capacity[s] \in Nat
  <2>1. /\ Loaded[s] \in Seq(Dataset) /\ IsInjective(Loaded[s]) /\ Capacity[s] \in Nat
        /\ SizeOf(ToSet(Loaded[s])) <= Capacity[s]
    BY StorageAssumption DEF StorageAssumption
  <2>2. SizeOf(ToSet(Loaded[s])) \in Nat
    BY <2>1, HeldAreDatasets, Sizes
  <2> QED
    BY <2>1, <2>2
<1>4. Stored
  <2>1. /\ datasets = Loaded
        /\ dataset_timestamps = [s \in StorageId |-> [d \in Dataset |-> 0]]
        /\ dataset_tags = [s \in StorageId |-> [d \in Dataset |-> {}]]
        /\ available_space = [s \in StorageId |-> Capacity[s] - SizeOf(ToSet(Loaded[s]))]
    BY DEF Init
  <2>2. Loaded \in [StorageId -> Seq(Dataset)]
    BY StorageAssumption DEF StorageAssumption
  <2>3. \A s \in StorageId : /\ available_space[s] \in Nat
                             /\ available_space[s] + SizeOf(ToSet(Loaded[s])) = Capacity[s]
    BY <1>3, <2>1
  <2> QED
    BY <1>3, <2>1, <2>2, <2>3 DEF Stored
<1>5. current_transfers = <<>> /\ next_staging_job_id = 0 /\ DOMAIN current_transfers = {}
  BY DEF Init
<1>6. Numbered
  BY <1>5, StorageAssumption, LenProperties DEF Numbered, StorageAssumption
<1>7. Reserved
  <2>1. ASSUME NEW s \in StorageId PROVE ReservedBy(current_transfers, s) = 0
    <3> DEFINE f == [d \in DOMAIN current_transfers |-> Size[current_transfers[d].dataset_id]]
               S == {d \in DOMAIN current_transfers : current_transfers[d].dest_id = s}
    <3>1. S = {} /\ IsFiniteSet(S) /\ \A x \in S : f[x] \in Nat
      BY <1>5, FS_EmptySet
    <3>2. ReservedBy(current_transfers, s) = SumFunctionOnSet(f, S)
      BY DEF ReservedBy
    <3> HIDE DEF f, S
    <3>3. SumFunctionOnSet(f, S) = 0
      BY <3>1, SumStep
    <3> QED
      BY <3>2, <3>3
  <2>2. reserved_space = [s \in StorageId |-> 0]
    BY DEF Init
  <2> QED
    BY <2>1, <2>2 DEF Reserved
<1> QED
  BY <1>2, <1>4, <1>6, <1>7 DEF StorageInv

\* The invariant is inductive.
LEMMA StorageNext ==
  ASSUME StorageInv, [Next]_vars
  PROVE  StorageInv'
  BY StepKinds, AsideStep, CompletionStep, RequestStep, TagStep

LEMMA StorageInvariant == Spec => []StorageInv
<1>1. Init => StorageInv
  BY StorageInit
<1>2. StorageInv /\ [Next]_vars => StorageInv'
  BY StorageNext
<1> QED
  BY <1>1, <1>2, PTL DEF Spec

\* The free space of a storage and its reserved space are what its datasets and
\* the transfers under way to it add up to, so no byte is lost or counted twice,
\* in whatever order transfers are asked for, completed and killed.
THEOREM SpaceIsAccounted == Spec => []SpaceAccounting
<1>1. StorageInv => SpaceAccounting
  BY DEF StorageInv, Stored, Reserved, ReservedBy, SpaceAccounting
<1> QED
  BY <1>1, StorageInvariant, PTL

-----------------------------------------------------------------------------
\* What eviction spares

\* Only a request takes a dataset from a storage: what it evicts.
LEMMA OnlyEvictionTakes ==
  ASSUME StorageInv, [Next]_vars, NEW s \in StorageId, NEW d \in ToSet(datasets[s]) \ ToSet(datasets'[s])
  PROVE  \E t \in DataTransfer, e \in Dynamic, E \in SUBSET Dataset :
           /\ t.dest_id = s /\ Evicting(s, E, Size[t.dataset_id])
           /\ e \in DOMAIN current_transfers' \ DOMAIN current_transfers /\ current_transfers'[e] = t
<1>1. datasets \in [StorageId -> Seq(Dataset)] /\ Stored
  BY DEF StorageInv, Stored
<1>2. ~Aside
  BY DEF Aside, storage_vars
<1>3. ~SchedulerTags
  BY TagEffect
<1>4. ~(\E e \in Dynamic : data_staging_completed(e))
  <2> SUFFICES ASSUME NEW e \in Dynamic, data_staging_completed(e) PROVE FALSE
    OBVIOUS
  <2>1. PICK r \in StorageId, x \in Dataset :
          datasets' = datasets \/ datasets' = [datasets EXCEPT ![r] = Append(@, x)]
    BY CompletionEffect DEF storage_vars, DataTransfer
  <2>2. PICK q \in Seq(Dataset) : q = datasets[r]
    BY <1>1
  <2>3. ToSet(Append(q, x)) = ToSet(q) \cup {x}
    BY AppendedSet
  <2>4. ToSet(datasets[s]) \subseteq ToSet(datasets'[s])
    BY <1>1, <2>1, <2>2, <2>3
  <2> QED
    BY <2>4
<1>5. SchedulerAsks
  BY <1>2, <1>3, <1>4, StepKinds
<1>6. PICK t \in DataTransfer, e \in Dynamic :
        /\ e \notin DOMAIN current_transfers
        /\ current_transfers' = [k \in DOMAIN current_transfers \cup {e} |->
                                   IF k = e THEN t ELSE current_transfers[k]]
        /\ \/ UNCHANGED <<datasets, dataset_timestamps, available_space>>
           \/ \E E : Evicting(t.dest_id, E, Size[t.dataset_id])
  BY <1>5, RequestEffect
<1>7. PICK E : Evicting(t.dest_id, E, Size[t.dataset_id])
  BY <1>6
<1>8. t.dest_id \in StorageId /\ Size[t.dataset_id] \in Nat
  BY StorageAssumption DEF StorageAssumption, DataTransfer
<1>9. \A r \in StorageId : r # t.dest_id => datasets'[r] = datasets[r]
  BY <1>1, <1>7, <1>8, EvictionEffect
<1>10. t.dest_id = s
  BY <1>9
<1>11. E \in SUBSET Dataset
  BY <1>1, <1>7, <1>8, EvictionEffect
<1> QED
  BY <1>6, <1>7, <1>10, <1>11

\* A tagged dataset stays on its storage in every step, whatever space is asked
\* for (make_space, storageController.py:157).
THEOREM TaggedKept == Spec => TaggedStays
<1> DEFINE Stays == \A s \in StorageId, d \in Dataset :
             has_dataset(s, d) /\ Tagged(s, d) => d \in ToSet(datasets'[s])
<1>1. StorageInv /\ [Next]_vars => Stays
  <2> SUFFICES ASSUME StorageInv, [Next]_vars, NEW s \in StorageId, NEW d \in Dataset,
                      has_dataset(s, d), Tagged(s, d), d \notin ToSet(datasets'[s])
               PROVE  FALSE
    OBVIOUS
  <2>1. d \in ToSet(datasets[s]) \ ToSet(datasets'[s]) /\ Stored
    BY DEF has_dataset, StorageInv
  <2>2. PICK t \in DataTransfer, E \in SUBSET Dataset : Evicting(s, E, Size[t.dataset_id])
    BY <2>1, OnlyEvictionTakes
  <2>3. Size[t.dataset_id] \in Nat
    BY StorageAssumption DEF StorageAssumption, DataTransfer
  <2>4. d \in E /\ E \subseteq Evictable(s)
    BY <2>1, <2>2, <2>3, EvictionEffect
  <2> QED
    BY <2>1, <2>4, EvictedWasThere
<1>2. StorageInv /\ [Next]_vars => [Stays]_vars
  BY <1>1
<1> QED
  BY <1>2, StorageInvariant, PTL DEF TaggedStays, Spec

-----------------------------------------------------------------------------
\* What eviction takes

\* The order of eviction.
LEMMA OlderOrders ==
  ASSUME Stored, NEW s \in StorageId
  PROVE  \A d, e, x \in ToSet(datasets[s]) :
           /\ Older(s, d, e) /\ Older(s, e, x) => Older(s, d, x)
           /\ d # e => Older(s, d, e) \/ Older(s, e, d)
           /\ ~Older(s, d, d)
<1> DEFINE q == datasets[s]
           at == dataset_timestamps[s]
<1>1. /\ q \in Seq(Dataset) /\ IsInjective(q) /\ ToSet(q) \in SUBSET Dataset
      /\ DOMAIN q = 1 .. Len(q) /\ Len(q) \in Nat
  BY HeldAreDatasets, LenProperties DEF Stored
<1>2. \A d \in ToSet(q) : at[d] \in Nat
  BY <1>1 DEF Stored
<1>3. \A d, e : Inserted(s, d, e) <=> \E i, k \in DOMAIN q : i < k /\ q[i] = d /\ q[k] = e
  BY DEF Inserted
<1>4. \A d, e : Older(s, d, e) <=> at[d] < at[e] \/ (at[d] = at[e] /\ Inserted(s, d, e))
  BY DEF Older
<1> HIDE DEF q, at
<1>5. \A i, k \in DOMAIN q : q[i] = q[k] => i = k
  BY <1>1 DEF IsInjective
<1>6. ASSUME NEW d \in ToSet(q), NEW e \in ToSet(q), NEW x \in ToSet(q), Inserted(s, d, e), Inserted(s, e, x)
      PROVE  Inserted(s, d, x)
  <2>1. PICK i, k \in DOMAIN q : i < k /\ q[i] = d /\ q[k] = e
    BY <1>3, <1>6
  <2>2. PICK l, m \in DOMAIN q : l < m /\ q[l] = e /\ q[m] = x
    BY <1>3, <1>6
  <2>3. k = l
    BY <1>5, <2>1, <2>2
  <2>4. i < m
    BY <1>1, <2>1, <2>2, <2>3
  <2> QED
    BY <1>3, <2>1, <2>2, <2>4
<1>7. ASSUME NEW d \in ToSet(q), NEW e \in ToSet(q), d # e
      PROVE  Inserted(s, d, e) \/ Inserted(s, e, d)
  <2>1. PICK i \in DOMAIN q : q[i] = d
    BY DEF ToSet
  <2>2. PICK k \in DOMAIN q : q[k] = e
    BY DEF ToSet
  <2>3. i < k \/ k < i
    BY <1>1, <1>7, <2>1, <2>2
  <2> QED
    BY <1>3, <2>1, <2>2, <2>3
<1>8. ASSUME NEW d \in ToSet(q), Inserted(s, d, d) PROVE FALSE
  <2>1. PICK i, k \in DOMAIN q : i < k /\ q[i] = d /\ q[k] = d
    BY <1>3, <1>8
  <2>2. i = k
    BY <1>5, <2>1
  <2> QED
    BY <1>1, <2>1, <2>2
<1>9. ASSUME NEW d \in ToSet(q), NEW e \in ToSet(q), NEW x \in ToSet(q)
      PROVE  /\ Older(s, d, e) /\ Older(s, e, x) => Older(s, d, x)
             /\ d # e => Older(s, d, e) \/ Older(s, e, d)
             /\ ~Older(s, d, d)
  <2>1. at[d] \in Nat /\ at[e] \in Nat /\ at[x] \in Nat
    BY <1>2
  <2>2. Older(s, d, e) /\ Older(s, e, x) => Older(s, d, x)
    BY <1>4, <1>6, <2>1
  <2>3. d # e => Older(s, d, e) \/ Older(s, e, d)
    BY <1>4, <1>7, <2>1
  <2>4. ~Older(s, d, d)
    BY <1>4, <1>8, <2>1
  <2> QED
    BY <2>2, <2>3, <2>4
<1> QED
  BY <1>9 DEF q

\* The datasets that would go before d.
Before(s, d) == {e \in Evictable(s) : Older(s, e, d)}

\* A dataset that is not evicted has enough older ones, one that is has not.
LEMMA EvictedIff ==
  ASSUME Stored, NEW s \in StorageId, NEW space, NEW d \in Evictable(s)
  PROVE  /\ Before(s, d) \in SUBSET Dataset /\ SizeOf(Before(s, d)) \in Nat
         /\ d \in Evicted(s, space) <=> SizeOf(Before(s, d)) < space
<1>1. Before(s, d) \in SUBSET Dataset
  BY EvictedWasThere DEF Before
<1>2. SizeOf(Before(s, d)) \in Nat
  BY <1>1, Sizes
<1> QED
  BY <1>1, <1>2 DEF Evicted, Before

\* The datasets that leave a storage were used no later than any untagged one that
\* stays (make_space, storageController.py:151).
THEOREM OldestGoFirst == Spec => LeastRecentlyUsed
<1> DEFINE Oldest == \A s \in StorageId : \A d \in ToSet(datasets[s]) \ ToSet(datasets'[s]) :
             \A e \in ToSet(datasets'[s]) \cap ToSet(datasets[s]) :
               Tagged(s, e) \/ dataset_timestamps[s][d] <= dataset_timestamps[s][e]
<1>1. StorageInv /\ [Next]_vars => Oldest
  <2> SUFFICES ASSUME StorageInv, [Next]_vars, NEW s \in StorageId,
                      NEW d \in ToSet(datasets[s]) \ ToSet(datasets'[s]),
                      NEW e \in ToSet(datasets'[s]) \cap ToSet(datasets[s]), ~Tagged(s, e)
               PROVE  dataset_timestamps[s][d] <= dataset_timestamps[s][e]
    OBVIOUS
  <2>1. Stored
    BY DEF StorageInv
  <2>2. PICK t \in DataTransfer, E \in SUBSET Dataset : Evicting(s, E, Size[t.dataset_id])
    BY OnlyEvictionTakes
  <2>3. Size[t.dataset_id] \in Nat /\ available_space[s] \in Nat
    BY <2>1, StorageAssumption DEF StorageAssumption, DataTransfer, Stored
  <2> DEFINE space == Size[t.dataset_id] - available_space[s]
  <2>4. d \in E /\ e \notin E /\ E = Evicted(s, space) /\ E \subseteq Evictable(s)
    <3>1. E \subseteq Evictable(s) /\ ToSet(datasets'[s]) = ToSet(datasets[s]) \ E
      BY <2>1, <2>2, <2>3, EvictionEffect
    <3>2. E = Evicted(s, space)
      BY <2>2 DEF Evicting
    <3> QED
      BY <3>1, <3>2
  <2>5. e \in Evictable(s) /\ d \in Evictable(s)
    BY <2>4 DEF Evictable
  <2>6. space \in Int
    BY <2>3
  <2>7. /\ dataset_timestamps[s][d] \in Nat /\ dataset_timestamps[s][e] \in Nat
        /\ \A x \in Evictable(s) : dataset_timestamps[s][x] \in Nat
    BY <2>1, <2>5, EvictedWasThere DEF Stored
  <2> HIDE DEF space
  <2>8. ASSUME dataset_timestamps[s][e] < dataset_timestamps[s][d] PROVE FALSE
    <3>1. Before(s, e) \subseteq Before(s, d)
      <4>1. \A x \in Before(s, e) : dataset_timestamps[s][x] <= dataset_timestamps[s][e] /\ x \in Evictable(s)
        BY <2>7 DEF Before, Older
      <4> QED
        BY <2>7, <2>8, <4>1 DEF Before, Older
    <3>2. Before(s, d) \in SUBSET Dataset /\ SizeOf(Before(s, d)) \in Nat /\ SizeOf(Before(s, d)) < space
      BY <2>1, <2>4, <2>5, EvictedIff
    <3>3. SizeOf(Before(s, e)) \in Nat /\ ~(SizeOf(Before(s, e)) < space)
      BY <2>1, <2>4, <2>5, EvictedIff
    <3>4. SizeOf(Before(s, e)) <= SizeOf(Before(s, d))
      BY <3>1, <3>2, Sizes
    <3> QED
      BY <2>6, <3>2, <3>3, <3>4
  <2> QED
    BY <2>7, <2>8
<1>2. StorageInv /\ [Next]_vars => [Oldest]_vars
  BY <1>1
<1> QED
  BY <1>2, StorageInvariant, PTL DEF LeastRecentlyUsed, Spec

\* Of the datasets that are evicted, one goes last: without it there is too little.
LEMMA LastIsNeeded ==
  ASSUME Stored, NEW s \in StorageId, NEW space \in Nat, Evicted(s, space) # {}
  PROVE  \E e \in Evicted(s, space) :
           SizeOf(Evicted(s, space)) - Size[e] < space
<1> DEFINE E == Evicted(s, space)
           U == {space - SizeOf(Before(s, e)) : e \in E}
<1>1. E \subseteq Evictable(s) /\ Evictable(s) \subseteq ToSet(datasets[s]) /\ ToSet(datasets[s]) \in SUBSET Dataset
  BY EvictedWasThere
<1>2. \A e \in E : /\ Before(s, e) \in SUBSET Dataset /\ SizeOf(Before(s, e)) \in Nat
                   /\ SizeOf(Before(s, e)) < space
  BY <1>1, EvictedIff
<1> HIDE DEF E
<1>3. U \in SUBSET Nat
  BY <1>2
<1>4. U # {}
  <2>1. PICK e \in E : TRUE
    BY DEF E
  <2>2. space - SizeOf(Before(s, e)) \in U
    BY <2>1
  <2> QED
    BY <2>2
<1>5. PICK u \in U : \A v \in U : u <= v
  <2> HIDE DEF U
  <2> QED
    BY <1>3, <1>4, LeastExists
<1>6. PICK e \in E : u = space - SizeOf(Before(s, e))
  BY <1>5
<1>7. ASSUME NEW x \in E PROVE SizeOf(Before(s, x)) <= SizeOf(Before(s, e))
  <2>1. space - SizeOf(Before(s, x)) \in U
    BY <1>7
  <2>2. space - SizeOf(Before(s, e)) <= space - SizeOf(Before(s, x))
    BY <1>5, <1>6, <2>1
  <2> QED
    BY <1>2, <1>6, <1>7, <2>2
<1>8. ASSUME NEW x \in E \ {e} PROVE x \in Before(s, e)
  <2>1. x \in Evictable(s) /\ e \in Evictable(s) /\ x \in Dataset /\ e \in Dataset
        /\ x \in ToSet(datasets[s]) /\ e \in ToSet(datasets[s])
    BY <1>1, <1>6, <1>8
  <2>2. CASE Older(s, x, e)
    BY <2>1, <2>2 DEF Before
  <2>3. CASE Older(s, e, x)
    <3> DEFINE B == Before(s, e)
    <3>1. e \notin B /\ B \in SUBSET Dataset /\ SizeOf(B) \in Nat
      BY <1>2, <1>6, <2>1, OlderOrders DEF Before
    <3>2. B \cup {e} \subseteq Before(s, x)
      <4>1. \A y \in Evictable(s) : Older(s, y, e) => Older(s, y, x)
        BY <1>1, <2>1, <2>3, OlderOrders
      <4> QED
        BY <2>1, <2>3, <4>1 DEF Before
    <3>3. Before(s, x) \in SUBSET Dataset /\ SizeOf(Before(s, x)) <= SizeOf(B) /\ SizeOf(Before(s, x)) \in Nat
      BY <1>2, <1>7, <1>8
    <3> HIDE DEF B
    <3>4. SizeOf(B \cup {e}) = SizeOf(B) + Size[e]
      BY <2>1, <3>1, SizeWithMore
    <3>5. SizeOf(B \cup {e}) <= SizeOf(Before(s, x))
      BY <3>2, <3>3, Sizes
    <3>6. Size[e] \in Nat \ {0}
      BY <2>1, StorageAssumption DEF StorageAssumption
    <3> QED
      BY <3>1, <3>3, <3>4, <3>5, <3>6
  <2> QED
    BY <1>8, <2>1, <2>2, <2>3, OlderOrders
<1>9. E \in SUBSET Dataset /\ E \ {e} \subseteq Before(s, e) /\ E \ {e} \in SUBSET Dataset
  BY <1>1, <1>8
<1>10. SizeOf(E \ {e}) \in Nat /\ SizeOf(E \ {e}) <= SizeOf(Before(s, e))
  BY <1>2, <1>6, <1>9, Sizes
<1>11. SizeOf(E) = SizeOf(E \ {e}) + Size[e] /\ Size[e] \in Nat
  BY <1>6, <1>9, Sizes, StorageAssumption DEF StorageAssumption
<1>12. SizeOf(E) - Size[e] < space
  BY <1>2, <1>6, <1>10, <1>11
<1> QED
  BY <1>6, <1>12 DEF E

\* Eviction makes the space that is asked for, and would not without the last
\* dataset it takes (make_space, storageController.py:146).
THEOREM EvictionIsMinimal == Spec => EvictionNeeded
<1> DEFINE Needed == \A s \in StorageId : LET gone == ToSet(datasets[s]) \ ToSet(datasets'[s]) IN
             gone # {} =>
               \E d \in DOMAIN current_transfers' \ DOMAIN current_transfers :
                 LET t == current_transfers'[d] IN
                   /\ t.dest_id = s /\ available_space'[s] >= Size[t.dataset_id]
                   /\ \E e \in gone : available_space'[s] - Size[e] < Size[t.dataset_id]
<1>1. StorageInv /\ [Next]_vars => Needed
  <2> SUFFICES ASSUME StorageInv, [Next]_vars, NEW s \in StorageId,
                      NEW g \in ToSet(datasets[s]) \ ToSet(datasets'[s])
               PROVE  \E d \in DOMAIN current_transfers' \ DOMAIN current_transfers :
                        /\ current_transfers'[d].dest_id = s
                        /\ available_space'[s] >= Size[current_transfers'[d].dataset_id]
                        /\ \E e \in ToSet(datasets[s]) \ ToSet(datasets'[s]) :
                             available_space'[s] - Size[e] < Size[current_transfers'[d].dataset_id]
    OBVIOUS
  <2>1. Stored
    BY DEF StorageInv
  <2>2. PICK t \in DataTransfer, d \in Dynamic, E \in SUBSET Dataset :
          /\ t.dest_id = s /\ Evicting(s, E, Size[t.dataset_id])
          /\ d \in DOMAIN current_transfers' \ DOMAIN current_transfers /\ current_transfers'[d] = t
    BY OnlyEvictionTakes
  <2> DEFINE asked == Size[t.dataset_id]
             space == asked - available_space[s]
  <2>3. asked \in Nat /\ available_space[s] \in Nat
    BY <2>1, StorageAssumption DEF StorageAssumption, DataTransfer, Stored
  <2>4. E = Evicted(s, space) /\ available_space[s] < asked /\ Evicting(s, E, asked)
    BY <2>2 DEF Evicting
  <2> HIDE DEF asked
  <2>5. /\ ToSet(datasets'[s]) = ToSet(datasets[s]) \ E /\ E \in SUBSET ToSet(datasets[s])
        /\ available_space'[s] = available_space[s] + SizeOf(E) /\ available_space'[s] >= asked
        /\ SizeOf(E) \in Nat
    <3>1. ToSet(datasets'[s]) = ToSet(datasets[s]) \ E /\ E \in SUBSET ToSet(datasets[s])
      BY <2>1, <2>3, <2>4, EvictionEffect
    <3>2. available_space'[s] = available_space[s] + SizeOf(E) /\ available_space'[s] >= asked /\ SizeOf(E) \in Nat
      BY <2>1, <2>3, <2>4, EvictionEffect
    <3> QED
      BY <3>1, <3>2
  <2>6. space \in Nat
    BY <2>3, <2>4
  <2> HIDE DEF space
  <2>7. PICK e \in E : SizeOf(E) - Size[e] < space
    BY <2>1, <2>4, <2>5, <2>6, LastIsNeeded
  <2>8. Size[e] \in Nat
    BY <2>7, StorageAssumption DEF StorageAssumption
  <2>9. available_space'[s] - Size[e] < asked
    BY <2>3, <2>5, <2>7, <2>8 DEF space
  <2>10. e \in ToSet(datasets[s]) \ ToSet(datasets'[s])
    BY <2>5, <2>7
  <2> QED
    BY <2>2, <2>5, <2>9, <2>10 DEF asked
<1>2. StorageInv /\ [Next]_vars => [Needed]_vars
  BY <1>1
<1> QED
  BY <1>2, StorageInvariant, PTL DEF EvictionNeeded, Spec

-----------------------------------------------------------------------------
\* The storages implement Replicas

\* What Replicas sees of them.
Holding == [s \in StorageId |-> ToSet(datasets[s])]
Pinned  == [s \in StorageId |-> {d \in Dataset : Tagged(s, d)}]

\* Storages whose datasets and tags stay are seen to stay.
LEMMA HoldingStays ==
  ASSUME UNCHANGED datasets
  PROVE  UNCHANGED Holding
  BY DEF Holding

LEMMA PinnedStays ==
  ASSUME UNCHANGED dataset_tags
  PROVE  UNCHANGED Pinned
  BY DEF Pinned, Tagged

\* A change of one storage is seen as one.
LEMMA HoldingMoves ==
  ASSUME NEW s \in StorageId, NEW D, ToSet(datasets'[s]) = D,
         \A r \in StorageId : r # s => datasets'[r] = datasets[r]
  PROVE  Holding' = [Holding EXCEPT ![s] = D]
  BY DEF Holding

LEMMA PinnedMoves ==
  ASSUME NEW s \in StorageId, NEW D, {d \in Dataset : dataset_tags'[s][d] # {}} = D,
         \A r \in StorageId : r # s => dataset_tags'[r] = dataset_tags[r]
  PROVE  Pinned' = [Pinned EXCEPT ![s] = D]
  BY DEF Pinned, Tagged

\* Replicas adds up sizes as the storages do.
LEMMA SameRoom ==
  ASSUME NEW S, NEW s
  PROVE  ReplicasOf!Room(S, s) <=> SizeOf(S) <= Capacity[s]
<1>1. ReplicasOf!SumFunctionOnSet(Size, S) = SumFunctionOnSet(Size, S)
  BY DEF ReplicasOf!SumFunctionOnSet, ReplicasOf!FoldFunctionOnSet, ReplicasOf!MapThenFoldSet,
         SumFunctionOnSet, FoldFunctionOnSet, MapThenFoldSet
<1> QED
  BY <1>1 DEF ReplicasOf!Room, SizeOf

\* No storage holds more than it has room for.
LEMMA HeldFits ==
  ASSUME Stored, NEW s \in StorageId
  PROVE  ReplicasOf!Room(ToSet(datasets[s]), s)
<1>1. ToSet(datasets[s]) \in SUBSET Dataset /\ SizeOf(ToSet(datasets[s])) \in Nat
  BY HeldAreDatasets, Sizes DEF Stored
<1>2. available_space[s] \in Nat /\ available_space[s] + SizeOf(ToSet(datasets[s])) = Capacity[s]
  BY DEF Stored
<1>3. SizeOf(ToSet(datasets[s])) <= Capacity[s]
  BY <1>1, <1>2
<1> QED
  BY <1>3, SameRoom

\* The storages are loaded as Replicas may begin.
LEMMA StoragesInit ==
  ASSUME Init
  PROVE  ReplicasOf!ReplicasInit
<1>1. Stored /\ dataset_tags = [s \in StorageId |-> [d \in Dataset |-> {}]]
  BY StorageInit DEF StorageInv, Init
<1>2. \A s \in StorageId : ToSet(datasets[s]) \in SUBSET Dataset
  BY <1>1, HeldAreDatasets DEF Stored
<1>3. Holding \in [StorageId -> SUBSET Dataset]
  BY <1>2 DEF Holding
<1>4. \A s \in StorageId : ReplicasOf!Room(Holding[s], s)
  BY <1>1, HeldFits DEF Holding
<1>5. Pinned = [s \in StorageId |-> {}]
  BY <1>1 DEF Pinned, Tagged
<1> QED
  BY <1>3, <1>4, <1>5 DEF ReplicasOf!ReplicasInit, Holding, Pinned

\* The end of a transfer is an arrival, or is not seen: the copy comes from a
\* storage that has it and finds its room.
LEMMA CompletionMaps ==
  ASSUME StorageInv, NEW d \in Dynamic, data_staging_completed(d)
  PROVE  ReplicasOf!ReplicasNext \/ UNCHANGED <<Holding, Pinned>>
<1> DEFINE t == current_transfers[d]
           s == t.dest_id
           x == t.dataset_id
<1>1. s \in StorageId /\ x \in Dataset /\ t.source_id \in StorageId /\ UNCHANGED dataset_tags
  BY CompletionEffect DEF DataTransfer
<1>2. UNCHANGED Pinned
  BY <1>1, PinnedStays
<1>3. CASE UNCHANGED datasets
  BY <1>2, <1>3, HoldingStays
<1>4. CASE ~UNCHANGED datasets
  <2>1. /\ has_dataset(t.source_id, x)
        /\ datasets' = [datasets EXCEPT ![s] = Append(@, x)]
    BY <1>4, CompletionEffect DEF storage_vars
  <2>2. Stored /\ Stored'
    BY CompletionStep DEF StorageInv
  <2> HIDE DEF s, x
  <2>3. datasets'[s] = Append(datasets[s], x) /\ \A r \in StorageId : r # s => datasets'[r] = datasets[r]
    BY <1>1, <2>1, <2>2 DEF Stored
  <2>4. ToSet(datasets'[s]) = Holding[s] \cup {x}
    <3>1. datasets[s] \in Seq(Dataset)
      BY <1>1, <2>2 DEF Stored
    <3> QED
      BY <1>1, <2>3, <3>1, AppendedSet DEF Holding
  <2>5. Holding' = [Holding EXCEPT ![s] = @ \cup {x}]
    BY <1>1, <2>3, <2>4, HoldingMoves
  <2>6. ReplicasOf!Room(Holding[s] \cup {x}, s)
    <3>1. ReplicasOf!Room(ToSet(datasets'[s]), s)
      <4>1. datasets'[s] \in Seq(Dataset) /\ available_space'[s] \in Nat
            /\ available_space'[s] + SizeOf(ToSet(datasets'[s])) = Capacity[s]
        BY <1>1, <2>2 DEF Stored, SizeOf
      <4>2. SizeOf(ToSet(datasets'[s])) \in Nat
        BY <4>1, HeldAreDatasets, Sizes
      <4>3. SizeOf(ToSet(datasets'[s])) <= Capacity[s]
        BY <4>1, <4>2
      <4> QED
        BY <4>3, SameRoom
    <3> QED
      BY <2>4, <3>1
  <2>7. \E from \in StorageId : x \in Holding[from]
    BY <1>1, <2>1 DEF has_dataset, Holding
  <2>8. ReplicasOf!Arrive(s, x)
    BY <1>2, <2>5, <2>6, <2>7 DEF ReplicasOf!Arrive, Holding, Pinned
  <2> QED
    BY <1>1, <2>8 DEF ReplicasOf!ReplicasNext
<1> QED
  BY <1>3, <1>4

\* A request is an eviction of what is not pinned, or is not seen.
LEMMA RequestMaps ==
  ASSUME StorageInv, SchedulerAsks
  PROVE  ReplicasOf!ReplicasNext \/ UNCHANGED <<Holding, Pinned>>
<1>1. PICK t \in DataTransfer :
        /\ UNCHANGED dataset_tags
        /\ \/ UNCHANGED datasets
           \/ \E E : Evicting(t.dest_id, E, Size[t.dataset_id])
  BY RequestEffect
<1>2. UNCHANGED Pinned
  BY <1>1, PinnedStays
<1>3. CASE UNCHANGED datasets
  BY <1>2, <1>3, HoldingStays
<1>4. ASSUME NEW E, Evicting(t.dest_id, E, Size[t.dataset_id])
      PROVE  ReplicasOf!ReplicasNext
  <2> DEFINE s == t.dest_id
             asked == Size[t.dataset_id]
  <2>1. s \in StorageId /\ asked \in Nat /\ Stored /\ Evicting(s, E, asked)
    BY <1>4, StorageAssumption DEF StorageAssumption, DataTransfer, StorageInv
  <2> HIDE DEF s, asked
  <2>2. /\ E \subseteq Evictable(s) /\ E \in SUBSET Dataset /\ E \in SUBSET ToSet(datasets[s])
        /\ ToSet(datasets'[s]) = ToSet(datasets[s]) \ E
    BY <2>1, EvictionEffect
  <2>3. \A r \in StorageId : r # s => datasets'[r] = datasets[r]
    BY <2>1, EvictionEffect
  <2>4. Holding' = [Holding EXCEPT ![s] = @ \ E]
    <3>1. ToSet(datasets'[s]) = Holding[s] \ E
      BY <2>1, <2>2 DEF Holding
    <3> QED
      BY <2>1, <2>3, <3>1, HoldingMoves
  <2>5. E \subseteq Holding[s] \ Pinned[s]
    BY <2>1, <2>2, EvictedWasThere DEF Holding, Pinned
  <2>6. ReplicasOf!Evict(s, E)
    BY <1>2, <2>4, <2>5 DEF ReplicasOf!Evict, Holding, Pinned
  <2> QED
    BY <2>1, <2>2, <2>6 DEF ReplicasOf!ReplicasNext
<1> QED
  BY <1>1, <1>3, <1>4

\* The first tag on a dataset pins it, and the last that goes unpins it.
LEMMA TagMaps ==
  ASSUME StorageInv, SchedulerTags
  PROVE  ReplicasOf!ReplicasNext
<1>1. PICK s \in StorageId, tag \in Tag :
        \/ \E d \in Dataset : add_tag_on_dataset(s, d, tag)
        \/ remove_tag_on_all_datasets(s, tag)
  BY TagEffect
<1>2. UNCHANGED Holding
  BY TagEffect, HoldingStays
<1>3. dataset_tags \in [StorageId -> [Dataset -> SUBSET Tag]]
  BY DEF StorageInv, Stored
<1>4. ASSUME NEW d \in Dataset, add_tag_on_dataset(s, d, tag) PROVE ReplicasOf!ReplicasNext
  <2>1. has_dataset(s, d) /\ dataset_tags' = [dataset_tags EXCEPT ![s][d] = @ \cup {tag}]
    BY <1>4 DEF add_tag_on_dataset
  <2>2. dataset_tags'[s] = [dataset_tags[s] EXCEPT ![d] = @ \cup {tag}]
        /\ \A r \in StorageId : r # s => dataset_tags'[r] = dataset_tags[r]
    BY <1>3, <2>1
  <2>3. dataset_tags'[s][d] # {} /\ \A e \in Dataset \ {d} : dataset_tags'[s][e] = dataset_tags[s][e]
    BY <1>3, <2>2
  <2>4. {e \in Dataset : dataset_tags'[s][e] # {}} = Pinned[s] \cup {d}
    BY <2>3 DEF Pinned, Tagged
  <2>5. Pinned' = [Pinned EXCEPT ![s] = @ \cup {d}]
    BY <2>2, <2>4, PinnedMoves
  <2>6. d \in Holding[s]
    BY <2>1 DEF Holding, has_dataset
  <2>7. ReplicasOf!Pin(s, d)
    BY <1>2, <2>5, <2>6 DEF ReplicasOf!Pin, Holding, Pinned
  <2> QED
    BY <2>7 DEF ReplicasOf!ReplicasNext
<1>5. CASE remove_tag_on_all_datasets(s, tag)
  <2>1. dataset_tags' = [dataset_tags EXCEPT ![s] = [d \in Dataset |-> @[d] \ {tag}]]
    BY <1>5 DEF remove_tag_on_all_datasets
  <2>2. dataset_tags'[s] = [d \in Dataset |-> dataset_tags[s][d] \ {tag}]
        /\ \A r \in StorageId : r # s => dataset_tags'[r] = dataset_tags[r]
    BY <1>3, <2>1
  <2> DEFINE D == {d \in Dataset : dataset_tags[s][d] \ {tag} = {}}
  <2>3. {e \in Dataset : dataset_tags'[s][e] # {}} = Pinned[s] \ D
    BY <2>2 DEF Pinned, Tagged
  <2>4. D \in SUBSET Dataset
    OBVIOUS
  <2> HIDE DEF D
  <2>5. Pinned' = [Pinned EXCEPT ![s] = @ \ D]
    BY <2>2, <2>3, PinnedMoves
  <2>6. ReplicasOf!Unpin(s, D)
    BY <1>2, <2>5 DEF ReplicasOf!Unpin, Holding, Pinned
  <2> QED
    BY <2>4, <2>6 DEF ReplicasOf!ReplicasNext
<1> QED
  BY <1>1, <1>4, <1>5

\* Every step of the controller is a step of Replicas or is not seen there.
LEMMA StoragesStep == StorageInv /\ [Next]_vars => [ReplicasOf!ReplicasNext]_(ReplicasOf!replicas_vars)
<1> SUFFICES ASSUME StorageInv, [Next]_vars
             PROVE  ReplicasOf!ReplicasNext \/ UNCHANGED <<Holding, Pinned>>
  BY DEF ReplicasOf!replicas_vars, Holding, Pinned
<1>1. CASE Aside
  BY <1>1, HoldingStays, PinnedStays DEF Aside, storage_vars
<1> QED
  BY <1>1, StepKinds, CompletionMaps, RequestMaps, TagMaps

\* In whatever order transfers are asked for, completed and killed, the storages
\* do nothing but what Replicas promises: no storage is ever filled beyond its
\* capacity, a dataset comes from a storage that has it, and none that is tagged
\* leaves.
THEOREM StoragesAreReplicas == Spec => ImplementsReplicas
BY StoragesInit, StoragesStep, StorageInvariant, PTL DEF Spec, ImplementsReplicas, ReplicasOf!ReplicasSpec


-----------------------------------------------------------------------------
\* The way of a staging job

\* The commands the controller and its scheduler issue.
StagingCommand ==
  {Registering(d) : d \in Dynamic} \cup {Executing(d) : d \in Dynamic}
  \cup {Rejecting(j) : j \in Static} \cup {Killing(K) : K \in SUBSET Dynamic} \cup {Notice}

\* The events that are to be handled, with the one that is, and the commands that
\* have not taken effect.
Arrivals   == IF phase \in {"events", "handler", "exception"} THEN events ELSE mailbox
Departures == IF phase \in {"events", "handler"} THEN events_to_send ELSE commands
Handled    == IF phase = "handler" /\ events # <<>> THEN {Head(events)} ELSE {}

\* The staging jobs that were numbered.
Staged == {StagingJob[i] : i \in 1 .. next_staging_job_id}

\* The way of d: N are the jobs that were numbered, C those of the transfers that
\* are known, t is the status of d, q the commands and a the events under way, s the
\* simulator, and H has the event that is handled.
Way(d, N, C, t, q, a, s, H) ==
  /\ d \notin N => d \notin C /\ t = "absent" /\ \A c \in ToSet(q) : d \notin c.jobs
  /\ d \in N /\ t \in {"absent", "queued"} => d \in C /\ Executing(d) \in ToSet(q)
  /\ t = "absent" => s = "aborted" \/ Preceded(q, Executing(d), Registering(d))
  /\ t # "absent" => Registering(d) \notin ToSet(q)
  /\ t \notin {"absent", "queued"} => Executing(d) \notin ToSet(q)
  /\ t \notin {"changed", "rejected"} /\ (t = "running" => d \in C)
  /\ t # "done" => ToSet(a) \cap Completions(d) = {}
  /\ t = "done" /\ d \in C => ToSet(a) \cap Completions(d) # {}
  /\ t = "done" /\ d \notin C => ToSet(a) \cap Completions(d) \subseteq H
  /\ AtMostOne(q, {Executing(d)}) /\ AtMostOne(q, {Registering(d)}) /\ AtMostOne(a, Completions(d))

Tracked(d) ==
  Way(d, Staged, DOMAIN current_transfers, truth[d], Departures, Arrivals, batsim, Handled)

\* The two processes take turns, the first message comes once, and before the first
\* reply there is no other.
Turns ==
  /\ phase \in {"events", "handler", "exception", "init"} => mailbox = <<>>
  /\ phase = "init" => initialised
  /\ initialised => Begins \notin ToSet(Arrivals)
  /\ ~initialised => ToSet(Arrivals) \subseteq {Begins}

\* The jobs in submission are staging jobs, and all were counted if they are acknowledged.
Submitting ==
  /\ \A j \in Job : job_state[j] = "IN_SUBMISSON" => initialised /\ j \in Dynamic
  /\ ack_of_dynamic_jobs => nb["in_submission"] >= Num(job_state, {"IN_SUBMISSON"})
  /\ ~ack_of_dynamic_jobs => \A d \in Dynamic : Submitted(d) \notin ToSet(Arrivals)

Messages ==
  /\ TypeInv /\ Turns /\ Submitting
  /\ commands \in Seq(StagingCommand) /\ events_to_send \in Seq(StagingCommand)

Tracking == phase # "exception" => \A d \in Dynamic : Tracked(d)

-----------------------------------------------------------------------------
\* The commands and events about a staging job

LEMMA StagingCommands ==
  /\ StagingCommand \subseteq ApiCommand /\ Seq(StagingCommand) \subseteq Seq(ApiCommand)
  /\ \A d \in Dynamic : Registering(d) \in StagingCommand /\ Executing(d) \in StagingCommand
  /\ \A j \in Static : Rejecting(j) \in StagingCommand
  /\ \A K \in SUBSET Dynamic : Killing(K) \in StagingCommand
  /\ Notice \in StagingCommand
<1>1. StagingCommand \subseteq ApiCommand
  BY DEF StagingCommand, ApiCommand, Job
<1>2. Seq(StagingCommand) \subseteq Seq(ApiCommand)
  BY <1>1, SeqMonotonic
<1> QED
  BY <1>1, <1>2 DEF StagingCommand

\* A command is known by its type.
LEMMA StagingKinds ==
  ASSUME NEW c \in StagingCommand
  PROVE  /\ c.type = "EXECUTE_JOB" => \E d \in Dynamic : c = Executing(d)
         /\ c.type = "REGISTER_JOB" => \E d \in Dynamic : c = Registering(d)
         /\ c.type = "REJECT_JOB" => \E j \in Static : c = Rejecting(j)
         /\ c.type = "KILL_JOB" => \E K \in SUBSET Dynamic : c = Killing(K)
         /\ c.type = "NOTIFY" => c = Notice
         /\ c.type \notin {"CHANGE_JOB_STATE", "CALL_ME_LATER"}
<1>1. \/ \E d \in Dynamic : c \in {Executing(d), Registering(d)}
      \/ \E j \in Static : c = Rejecting(j)
      \/ \E K \in SUBSET Dynamic : c = Killing(K)
      \/ c = Notice
  BY DEF StagingCommand
<1> QED
  BY <1>1, CommandFields

\* The commands that are not the registration of d nor its execution.
Other(d, c) == c # Executing(d) /\ c # Registering(d)

LEMMA Others ==
  ASSUME NEW d
  PROVE  /\ \A e : e # d => Other(d, Executing(e)) /\ Other(d, Registering(e))
         /\ \A j : Other(d, Rejecting(j))
         /\ \A K : Other(d, Killing(K))
         /\ Other(d, Notice) /\ Executing(d) # Registering(d)
<1>1. ASSUME NEW c, Executing(d) = c \/ Registering(d) = c
      PROVE  c.type \in {"EXECUTE_JOB", "REGISTER_JOB"} /\ c.jobs = {d}
  BY <1>1, CommandFields
<1>2. \A e : e # d => Other(d, Executing(e)) /\ Other(d, Registering(e))
  <2> SUFFICES ASSUME NEW e, e # d PROVE Other(d, Executing(e)) /\ Other(d, Registering(e))
    OBVIOUS
  <2>1. Executing(e).jobs = {e} /\ Registering(e).jobs = {e}
    BY CommandFields
  <2> QED
    BY <1>1, <2>1 DEF Other
<1>3. \A j : Other(d, Rejecting(j))
  BY <1>1, CommandFields DEF Other
<1>4. \A K : Other(d, Killing(K))
  BY <1>1, CommandFields DEF Other
<1>5. Other(d, Notice) /\ Executing(d) # Registering(d)
  BY <1>1, CommandFields DEF Other
<1> QED
  BY <1>2, <1>3, <1>4, <1>5

\* The events that do not report d.
LEMMA OtherEvents ==
  ASSUME NEW d \in Dynamic
  PROVE  /\ \A j : Submitted(j) \notin Completions(d)
         /\ \A j, o : j # d => JobCompleted(j, o) \notin Completions(d)
         /\ \A K, P : Killed(K, P) \notin Completions(d)
         /\ \A t : t # "JOB_COMPLETED" => Signal(t) \notin Completions(d)
         /\ \A e \in Completions(d) : e.type = "JOB_COMPLETED" /\ e.jobs = {d}
<1>1. ASSUME NEW e \in Completions(d) PROVE e.type = "JOB_COMPLETED" /\ e.jobs = {d}
  BY EventFields DEF Completions
<1>2. \A j : Submitted(j) \notin Completions(d)
  BY <1>1, EventFields
<1>3. \A j, o : j # d => JobCompleted(j, o) \notin Completions(d)
  <2> SUFFICES ASSUME NEW j, NEW o, j # d, JobCompleted(j, o) \in Completions(d) PROVE FALSE
    OBVIOUS
  <2>1. JobCompleted(j, o).jobs = {d}
    BY <1>1
  <2>2. JobCompleted(j, o).jobs = {j}
    BY EventFields
  <2> QED
    BY <2>1, <2>2
<1>4. \A K, P : Killed(K, P) \notin Completions(d)
  BY <1>1, EventFields
<1>5. \A t : t # "JOB_COMPLETED" => Signal(t) \notin Completions(d)
  BY <1>1, EventFields
<1> QED
  BY <1>1, <1>2, <1>3, <1>4, <1>5

-----------------------------------------------------------------------------
\* Queues that say the same of d

OutKept(d, q, r) ==
  /\ Executing(d) \in ToSet(r) <=> Executing(d) \in ToSet(q)
  /\ Registering(d) \in ToSet(r) <=> Registering(d) \in ToSet(q)
  /\ AtMostOne(q, {Executing(d)}) => AtMostOne(r, {Executing(d)})
  /\ AtMostOne(q, {Registering(d)}) => AtMostOne(r, {Registering(d)})
  /\ Preceded(q, Executing(d), Registering(d)) => Preceded(r, Executing(d), Registering(d))

InKept(d, a, b) ==
  /\ ToSet(b) \cap Completions(d) = ToSet(a) \cap Completions(d)
  /\ AtMostOne(a, Completions(d)) => AtMostOne(b, Completions(d))

\* Another command comes or goes.
LEMMA OutSteps ==
  ASSUME NEW d, NEW q \in Seq(ApiCommand)
  PROVE  /\ OutKept(d, q, q)
         /\ q # <<>> /\ Other(d, Head(q)) => OutKept(d, q, Tail(q)) /\ ToSet(Tail(q)) \subseteq ToSet(q)
         /\ \A x \in ApiCommand : Other(d, x) => OutKept(d, q, Append(q, x))
<1>1. OutKept(d, q, q)
  BY DEF OutKept
<1>2. ASSUME q # <<>>, Other(d, Head(q))
      PROVE  OutKept(d, q, Tail(q)) /\ ToSet(Tail(q)) \subseteq ToSet(q)
  BY <1>2, HeadGone DEF OutKept, Other
<1>3. ASSUME NEW x \in ApiCommand, Other(d, x) PROVE OutKept(d, q, Append(q, x))
  <2> DEFINE a == Append(q, x)
  <2>1. ToSet(a) = ToSet(q) \cup {x}
    BY OneMore
  <2>2. \A E : AtMostOne(q, E) /\ x \notin E => AtMostOne(a, E)
    BY OneMore
  <2>3. Preceded(q, Executing(d), Registering(d)) => Preceded(a, Executing(d), Registering(d))
    BY <1>3, OneMore DEF Other
  <2> HIDE DEF a
  <2>4. x \notin {Executing(d)} /\ x \notin {Registering(d)}
    BY <1>3 DEF Other
  <2>5. OutKept(d, q, a)
    BY <2>1, <2>2, <2>3, <2>4 DEF OutKept
  <2> QED
    BY <2>5 DEF a
<1> QED
  BY <1>1, <1>2, <1>3

\* An event that does not report d comes or goes.
LEMMA InSteps ==
  ASSUME NEW d, NEW a \in Seq(SimEvent)
  PROVE  /\ InKept(d, a, a)
         /\ a # <<>> /\ Head(a) \notin Completions(d) => InKept(d, a, Tail(a))
         /\ \A x \in SimEvent : x \notin Completions(d) => InKept(d, a, Append(a, x))
         /\ \A b \in Seq(SimEvent) : ToSet(b) \cap Completions(d) = {} => InKept(d, a, a \o b)
<1>1. InKept(d, a, a)
  BY DEF InKept
<1>2. ASSUME a # <<>>, Head(a) \notin Completions(d) PROVE InKept(d, a, Tail(a))
  BY <1>2, HeadGone DEF InKept
<1>3. ASSUME NEW x \in SimEvent, x \notin Completions(d) PROVE InKept(d, a, Append(a, x))
  <2> DEFINE b == Append(a, x)
  <2>1. ToSet(b) = ToSet(a) \cup {x}
    BY OneMore
  <2>2. AtMostOne(a, Completions(d)) => AtMostOne(b, Completions(d))
    BY <1>3, OneMore
  <2> QED
    BY <1>3, <2>1, <2>2 DEF InKept
<1>4. ASSUME NEW b \in Seq(SimEvent), ToSet(b) \cap Completions(d) = {} PROVE InKept(d, a, a \o b)
  <2>1. ToSet(a \o b) = ToSet(a) \cup ToSet(b)
    BY SeveralMore
  <2>2. AtMostOne(b, Completions(d))
    BY <1>4, Members
  <2>3. AtMostOne(a, Completions(d)) => AtMostOne(a \o b, Completions(d))
    BY <1>4, <2>2, SeveralMore
  <2> QED
    BY <1>4, <2>1, <2>3 DEF InKept
<1> QED
  BY <1>1, <1>2, <1>3, <1>4

\* A step that says nothing new of d.
LEMMA WayKept ==
  ASSUME NEW d, NEW N, NEW C, NEW t, NEW q, NEW a, NEW s, NEW H, Way(d, N, C, t, q, a, s, H),
         NEW M, NEW D, NEW r, NEW b, NEW u, NEW G,
         d \in M <=> d \in N, d \in D <=> d \in C, OutKept(d, q, r), InKept(d, a, b),
         d \in N \/ \A c \in ToSet(r) : c \in ToSet(q) \/ d \notin c.jobs,
         s = "aborted" => u = "aborted", H \cap Completions(d) \subseteq G
  PROVE  Way(d, M, D, t, r, b, u, G)
<1>1. d \notin M => d \notin D /\ t = "absent" /\ \A c \in ToSet(r) : d \notin c.jobs
  BY DEF Way
<1>2. ToSet(b) \cap Completions(d) = ToSet(a) \cap Completions(d) /\ AtMostOne(b, Completions(d))
  BY DEF Way, InKept
<1>3. /\ Executing(d) \in ToSet(r) <=> Executing(d) \in ToSet(q)
      /\ Registering(d) \in ToSet(r) <=> Registering(d) \in ToSet(q)
      /\ AtMostOne(r, {Executing(d)}) /\ AtMostOne(r, {Registering(d)})
      /\ t = "absent" => u = "aborted" \/ Preceded(r, Executing(d), Registering(d))
  BY DEF Way, OutKept
<1>4. /\ d \in M /\ t \in {"absent", "queued"} => d \in D /\ Executing(d) \in ToSet(r)
      /\ t # "absent" => Registering(d) \notin ToSet(r)
      /\ t \notin {"absent", "queued"} => Executing(d) \notin ToSet(r)
      /\ t \notin {"changed", "rejected"} /\ (t = "running" => d \in D)
  BY <1>3 DEF Way
<1>5. /\ t # "done" => ToSet(b) \cap Completions(d) = {}
      /\ t = "done" /\ d \in D => ToSet(b) \cap Completions(d) # {}
      /\ t = "done" /\ d \notin D => ToSet(b) \cap Completions(d) \subseteq G
  BY <1>2 DEF Way
<1> QED
  BY <1>1, <1>2, <1>3, <1>4, <1>5 DEF Way

\* The queue of commands once a transfer was asked for.
Asked(q, d) == Append(Append(q, Registering(d)), Executing(d))

\* A job is numbered, registered and executed.
LEMMA WayAsked ==
  ASSUME NEW d \in Dynamic, NEW N, NEW C, NEW t, NEW q \in Seq(ApiCommand), NEW a, NEW s, NEW H,
         Way(d, N, C, t, q, a, s, H), d \notin N, NEW M, NEW D, d \in M, d \in D,
         NEW r, r = Asked(q, d)
  PROVE  Way(d, M, D, t, r, a, s, H)
<1> DEFINE e == Executing(d)
           g == Registering(d)
           p == Append(q, g)
<1>1. t = "absent" /\ \A c \in ToSet(q) : d \notin c.jobs
  BY DEF Way
<1>2. e \notin ToSet(q) /\ g \notin ToSet(q) /\ e # g /\ e \in ApiCommand /\ g \in ApiCommand
  <2>1. e.jobs = {d} /\ g.jobs = {d}
    BY CommandFields
  <2>2. e \in ApiCommand /\ g \in ApiCommand
    BY StagingCommands
  <2> QED
    BY <1>1, <2>1, <2>2, Others
<1> HIDE DEF e, g
<1>3. /\ p \in Seq(ApiCommand) /\ ToSet(p) = ToSet(q) \cup {g}
      /\ AtMostOne(p, {e}) /\ AtMostOne(p, {g}) /\ Preceded(p, e, g)
  <2>1. AtMostOne(q, {e}) /\ AtMostOne(q, {g}) /\ Preceded(q, e, g)
    BY <1>2, Members
  <2>2. g \notin {e} /\ ToSet(q) \cap {g} = {}
    BY <1>2
  <2>3. p \in Seq(ApiCommand) /\ ToSet(p) = ToSet(q) \cup {g}
    BY <1>2, OneMore
  <2>4. AtMostOne(p, {e}) /\ AtMostOne(p, {g})
    BY <1>2, <2>1, <2>2, OneMore
  <2>5. Preceded(p, e, g)
    BY <1>2, <2>1, OneMore
  <2> QED
    BY <2>3, <2>4, <2>5
<1> HIDE DEF p
<1>4. ToSet(r) = ToSet(p) \cup {e} /\ AtMostOne(r, {e}) /\ AtMostOne(r, {g}) /\ Preceded(r, e, g)
  <2>1. r = Append(p, e)
    BY DEF p, e, g, Asked
  <2>2. e \notin {g} /\ ToSet(p) \cap {e} = {} /\ g \in ToSet(p)
    BY <1>2, <1>3
  <2>3. ToSet(r) = ToSet(p) \cup {e}
    BY <1>2, <1>3, <2>1, OneMore
  <2>4. AtMostOne(r, {e}) /\ AtMostOne(r, {g})
    BY <1>2, <1>3, <2>1, <2>2, OneMore
  <2>5. Preceded(r, e, g)
    BY <1>2, <1>3, <2>1, <2>2, OneMore
  <2> QED
    BY <2>3, <2>4, <2>5
<1>5. /\ Executing(d) \in ToSet(r) /\ Preceded(r, Executing(d), Registering(d))
      /\ AtMostOne(r, {Executing(d)}) /\ AtMostOne(r, {Registering(d)})
  BY <1>4 DEF e, g
<1>6. ToSet(a) \cap Completions(d) = {} /\ AtMostOne(a, Completions(d))
  BY <1>1 DEF Way
<1> QED
  BY <1>1, <1>5, <1>6 DEF Way

\* Its registration takes effect, unless the simulator aborts.
LEMMA WayRegistered ==
  ASSUME NEW d, NEW N, NEW C, NEW t, NEW q \in Seq(ApiCommand), NEW a, NEW s, NEW H,
         Way(d, N, C, t, q, a, s, H), q # <<>>, Head(q) = Registering(d),
         NEW v, NEW u, NEW b, (v = t /\ u = "aborted") \/ v = "queued", InKept(d, a, b)
  PROVE  t = "absent" /\ Way(d, N, C, v, Tail(q), b, u, H)
<1>1. /\ ToSet(q) = {Head(q)} \cup ToSet(Tail(q)) /\ ToSet(q) # {}
      /\ \A E : AtMostOne(q, E) => /\ AtMostOne(Tail(q), E)
                                   /\ Head(q) \in E => ToSet(Tail(q)) \cap E = {}
  BY HeadGone
<1>2. t = "absent" /\ d \in N
  <2>1. Registering(d) \in ToSet(q)
    BY <1>1
  <2>2. Registering(d).jobs = {d}
    BY CommandFields
  <2> QED
    BY <2>1, <2>2 DEF Way
<1>3. d \in C /\ Executing(d) \in ToSet(Tail(q)) /\ Registering(d) \notin ToSet(Tail(q))
  <2>1. Executing(d) # Registering(d)
    BY Others
  <2>2. d \in C /\ Executing(d) \in ToSet(q) /\ AtMostOne(q, {Registering(d)})
    BY <1>2 DEF Way
  <2>3. ToSet(Tail(q)) \cap {Registering(d)} = {}
    BY <1>1, <2>2
  <2> QED
    BY <1>1, <2>1, <2>2, <2>3
<1>4. AtMostOne(Tail(q), {Executing(d)}) /\ AtMostOne(Tail(q), {Registering(d)})
  BY <1>1 DEF Way
<1>5. ToSet(b) \cap Completions(d) = {} /\ AtMostOne(b, Completions(d))
  BY <1>2 DEF Way, InKept
<1> QED
  BY <1>2, <1>3, <1>4, <1>5 DEF Way

\* It can be executed, as it was registered before.
LEMMA WayExecuted ==
  ASSUME NEW d, NEW N, NEW C, NEW t, NEW q \in Seq(ApiCommand), NEW a, NEW s, NEW H,
         Way(d, N, C, t, q, a, s, H), q # <<>>, Head(q) = Executing(d), s # "aborted"
  PROVE  t = "queued" /\ Way(d, N, C, "running", Tail(q), a, s, H)
<1>1. /\ ToSet(q) = {Head(q)} \cup ToSet(Tail(q))
      /\ \A E : AtMostOne(q, E) => /\ AtMostOne(Tail(q), E)
                                   /\ Head(q) \in E => ToSet(Tail(q)) \cap E = {}
      /\ \A e, f : Preceded(q, e, f) => Head(q) # e
  BY HeadGone
<1>2. t # "absent"
  BY <1>1 DEF Way
<1>3. t = "queued"
  <2>1. Executing(d) \in ToSet(q)
    BY <1>1
  <2> QED
    BY <1>2, <2>1 DEF Way
<1>4. d \in N /\ d \in C /\ Registering(d) \notin ToSet(q) /\ AtMostOne(q, {Executing(d)})
  BY <1>3 DEF Way
<1>5. Executing(d) \notin ToSet(Tail(q)) /\ Registering(d) \notin ToSet(Tail(q))
  <2>1. ToSet(Tail(q)) \cap {Executing(d)} = {}
    BY <1>1, <1>4
  <2> QED
    BY <1>1, <1>4, <2>1
<1>6. AtMostOne(Tail(q), {Executing(d)}) /\ AtMostOne(Tail(q), {Registering(d)})
  BY <1>1 DEF Way
<1>7. ToSet(a) \cap Completions(d) = {} /\ AtMostOne(a, Completions(d))
  BY <1>3 DEF Way
<1> QED
  BY <1>3, <1>4, <1>5, <1>6, <1>7 DEF Way

\* It ends, and that is reported once.
LEMMA WayCompleted ==
  ASSUME NEW d, NEW N, NEW C, NEW q, NEW a, NEW s, NEW H, Way(d, N, C, "running", q, a, s, H),
         NEW r, NEW b, OutKept(d, q, r), ToSet(b) \cap Completions(d) # {}, AtMostOne(b, Completions(d))
  PROVE  Way(d, N, C, "done", r, b, s, H)
<1>1. d \in C /\ d \in N /\ Executing(d) \notin ToSet(r) /\ Registering(d) \notin ToSet(r)
      /\ AtMostOne(r, {Executing(d)}) /\ AtMostOne(r, {Registering(d)})
  BY DEF Way, OutKept
<1> QED
  BY <1>1 DEF Way

\* Its report is handled, and the transfer is forgotten.
LEMMA WayFinished ==
  ASSUME NEW d, NEW N, NEW C, NEW t, NEW q, NEW a \in Seq(SimEvent), NEW s, NEW H, Way(d, N, C, t, q, a, s, H),
         a # <<>>, Head(a) \in Completions(d), H = {Head(a)}, d \in C, NEW D, d \notin D
  PROVE  Way(d, N, D, t, q, a, s, H)
<1>1. Head(a) \in ToSet(a) /\ AtMostOne(a, Completions(d))
  BY HeadGone DEF Way
<1>2. t = "done" /\ d \in N
  BY <1>1 DEF Way
<1>3. ToSet(a) \cap Completions(d) \subseteq H
  BY <1>1, Members
<1> QED
  BY <1>1, <1>2, <1>3 DEF Way

\* The event that was handled is dropped.
LEMMA WayReturned ==
  ASSUME NEW d, NEW N, NEW C, NEW t, NEW q, NEW a \in Seq(SimEvent), NEW s, NEW H, Way(d, N, C, t, q, a, s, H),
         a # <<>>, Head(a) \in Completions(d) => d \notin C, H \subseteq {Head(a)}
  PROVE  Way(d, N, C, t, q, Tail(a), s, {})
<1>1. /\ ToSet(a) = {Head(a)} \cup ToSet(Tail(a))
      /\ \A E : AtMostOne(a, E) => /\ AtMostOne(Tail(a), E)
                                   /\ Head(a) \in E => ToSet(Tail(a)) \cap E = {}
  BY HeadGone
<1>2. AtMostOne(Tail(a), Completions(d)) /\ (Head(a) \in Completions(d) => ToSet(Tail(a)) \cap Completions(d) = {})
  BY <1>1 DEF Way
<1>3. t = "done" /\ d \in C => ToSet(Tail(a)) \cap Completions(d) # {}
  BY <1>1 DEF Way
<1>4. t = "done" /\ d \notin C => ToSet(Tail(a)) \cap Completions(d) = {}
  BY <1>1, <1>2 DEF Way
<1>5. t # "done" => ToSet(Tail(a)) \cap Completions(d) = {}
  BY <1>1 DEF Way
<1> QED
  BY <1>2, <1>3, <1>4, <1>5 DEF Way

-----------------------------------------------------------------------------
\* The simulator

LEMMA TrackedThen ==
  ASSUME NEW d
  PROVE  Tracked(d)' <=> Way(d, Staged', DOMAIN current_transfers', truth'[d], Departures', Arrivals', batsim', Handled')
  BY DEF Tracked

\* While it acts, the queues are its mailbox and its commands.
LEMMA SimQueues ==
  ASSUME Sim
  PROVE  /\ phase = "recv" /\ phase' = "recv" /\ initialised /\ batsim = "running"
         /\ Arrivals = mailbox /\ Arrivals' = mailbox' /\ Departures = commands /\ Departures' = commands'
         /\ Handled = {} /\ Handled' = {}
         /\ UNCHANGED <<loop_vars, api_vars, job_state, nb>>
<1>1. /\ phase = "recv" /\ phase' = "recv" /\ initialised /\ batsim = "running"
      /\ UNCHANGED <<loop_vars, api_vars, job_state, nb>>
  BY SimBoxes
<1> QED
  BY <1>1 DEF Arrivals, Departures, Handled

\* A step of it that says nothing new of d.
LEMMA SimKept ==
  ASSUME Sim, NEW d, Tracked(d), UNCHANGED <<current_transfers, next_staging_job_id>>,
         truth'[d] = truth[d], OutKept(d, commands, commands'), InKept(d, mailbox, mailbox'),
         ToSet(commands') \subseteq ToSet(commands)
  PROVE  Tracked(d)'
<1>1. /\ batsim # "aborted" /\ Arrivals = mailbox /\ Arrivals' = mailbox' /\ Departures = commands
      /\ Departures' = commands' /\ Handled = {} /\ Handled' = {}
  BY SimQueues
<1>2. Staged' = Staged /\ DOMAIN current_transfers' = DOMAIN current_transfers
  BY DEF Staged
<1>3. PICK N, C, t, q, a, s : N = Staged /\ C = DOMAIN current_transfers /\ t = truth[d] /\ q = commands
                              /\ a = mailbox /\ s = batsim
  OBVIOUS
<1>4. PICK r, b, u : r = commands' /\ b = mailbox' /\ u = batsim'
  OBVIOUS
<1>5. Way(d, N, C, t, q, a, s, {})
  BY <1>1, <1>3 DEF Tracked
<1>6. /\ OutKept(d, q, r) /\ InKept(d, a, b) /\ \A c \in ToSet(r) : c \in ToSet(q) \/ d \notin c.jobs
      /\ s = "aborted" => u = "aborted"
  BY <1>1, <1>3, <1>4
<1>7. Way(d, N, C, t, r, b, u, {})
  BY <1>5, <1>6, WayKept
<1> QED
  BY <1>1, <1>2, <1>3, <1>4, <1>7, TrackedThen

\* A queue that says the same as one that says the same.
LEMMA InKeptTwice ==
  ASSUME NEW d, NEW a, NEW b, NEW c, InKept(d, a, b), InKept(d, b, c)
  PROVE  InKept(d, a, c)
  BY DEF InKept

\* The command that takes effect is one of the controller's.
LEMMA HeadCommand ==
  ASSUME Messages, NEW type, Injecting(type)
  PROVE  /\ commands # <<>> /\ Head(commands) \in StagingCommand /\ Head(commands).type = type
         /\ commands \in Seq(ApiCommand) /\ Head(commands) \in ToSet(commands)
<1>1. commands # <<>> /\ commands \in Seq(StagingCommand) /\ Head(commands).type = type
  BY DEF Messages, Injecting
<1> QED
  BY <1>1, HeadGone, StagingCommands

\* What a registration does.
LEMMA StagingRegisters ==
  ASSUME Messages, InjectRegister
  PROVE  \E e \in Dynamic :
           /\ commands # <<>> /\ Head(commands) = Registering(e) /\ commands' = Tail(commands)
           /\ \/ truth' = truth /\ batsim' = "aborted"
              \/ truth' = [truth EXCEPT ![e] = "queued"]
           /\ mailbox' = IF ack_of_dynamic_jobs THEN Append(mailbox, Submitted(e)) ELSE mailbox
<1>1. /\ commands # <<>> /\ Head(commands) \in StagingCommand /\ Head(commands).type = "REGISTER_JOB"
      /\ commands' = Tail(commands)
  BY HeadCommand DEF InjectRegister, Injected
<1>2. PICK e \in Dynamic : Head(commands) = Registering(e)
  BY <1>1, StagingKinds
<1>3. Head(commands).jobs = {e} /\ Event("JOB_SUBMITTED", Head(commands).jobs, {}, "") = Submitted(e)
  <2>1. Head(commands).jobs = {e}
    BY <1>2, CommandFields
  <2> QED
    BY <2>1 DEF Submitted
<1>4. mailbox' = IF ack_of_dynamic_jobs THEN Append(mailbox, Submitted(e)) ELSE mailbox
  BY <1>3 DEF InjectRegister
<1>5. \/ truth' = truth /\ batsim' = "aborted"
      \/ truth' = [truth EXCEPT ![e] = "queued"]
  <2>1. CASE registration
    <3>1. Move(Head(commands), "absent", "queued")
      BY <2>1 DEF InjectRegister
    <3> QED
      BY <1>3, <3>1, MoveOne DEF Messages, Job
  <2>2. CASE ~registration
    BY <2>2 DEF InjectRegister
  <2> QED
    BY <2>1, <2>2
<1> QED
  BY <1>1, <1>2, <1>4, <1>5

\* The commands are taken one by one.
LEMMA SimCommands ==
  ASSUME Messages, Sim
  PROVE  commands' = commands \/ (commands # <<>> /\ commands' = Tail(commands))
<1>1. CASE Inject
  BY <1>1 DEF Inject, InjectExecute, InjectReject, InjectChange, InjectKill, InjectRegister, InjectNotify,
              InjectCallMeLater, Injecting, Injected
<1>2. CASE SimTick \/ (\E j \in Job : SimSubmit(j)) \/ (\E j \in Job, o \in Outcomes : SimComplete(j, o))
           \/ SimCall \/ SimEnd
  BY <1>2 DEF SimTick, SimSubmit, SimComplete, SimCall, SimEnd, sim_vars
<1> QED
  BY <1>1, <1>2 DEF Sim

\* None of the events it adds is the first, and of staging jobs only those that are
\* to be acknowledged are submitted.
LEMMA SimAdds ==
  ASSUME Messages, Sim
  PROVE  \A x \in ToSet(mailbox') : \/ x \in ToSet(mailbox)
                                    \/ x # Begins /\ (ack_of_dynamic_jobs \/ \A d \in Dynamic : x # Submitted(d))
<1> DEFINE New(x) == x # Begins /\ (ack_of_dynamic_jobs \/ \A d \in Dynamic : x # Submitted(d))
<1>1. /\ \A j, o : New(JobCompleted(j, o))
      /\ \A K, P : New(Killed(K, P))
      /\ New(Signal("NOTIFY")) /\ New(Signal("REQUESTED_CALL")) /\ New(Ends)
  BY EventFields DEF Begins, Ends
<1>2. \A j \in Static : New(Submitted(j))
  <2> SUFFICES ASSUME NEW j \in Static PROVE New(Submitted(j))
    OBVIOUS
  <2>1. j \notin Dynamic
    BY ConstantsAssumption DEF ConstantsAssumption
  <2>2. \A k : Submitted(k).jobs = {k} /\ Submitted(k).type # Begins.type
    BY EventFields DEF Begins
  <2>3. \A d \in Dynamic : Submitted(j) # Submitted(d)
    <3> SUFFICES ASSUME NEW d \in Dynamic, Submitted(j) = Submitted(d) PROVE FALSE
      OBVIOUS
    <3>1. {j} = {d}
      BY <2>2
    <3> QED
      BY <2>1, <3>1
  <2>4. Submitted(j) # Begins
    BY <2>2
  <2> QED
    BY <2>3, <2>4
<1>3. ack_of_dynamic_jobs => \A k : New(Submitted(k))
  BY EventFields DEF Begins
<1> HIDE DEF New
<1>4. mailbox \in Seq(SimEvent) /\ TypeInv /\ commands \in Seq(ApiCommand)
  BY StagingCommands DEF Messages, TypeInv
<1>5. \A e \in SimEvent : ToSet(Append(mailbox, e)) = ToSet(mailbox) \cup {e} /\ Append(mailbox, e) \in Seq(SimEvent)
  BY <1>4, OneMore
<1>6. ASSUME NEW j \in Job, SimSubmit(j) PROVE \A x \in ToSet(mailbox') : x \in ToSet(mailbox) \/ New(x)
  <2>1. Submitted(j) \in SimEvent /\ Signal("NOTIFY") \in SimEvent /\ j \in Static
    BY <1>6, EventsExist DEF SimSubmit
  <2> DEFINE q == Append(mailbox, Submitted(j))
  <2>2. q \in Seq(SimEvent) /\ ToSet(q) = ToSet(mailbox) \cup {Submitted(j)}
    BY <1>5, <2>1
  <2>3. mailbox' = q \/ mailbox' = Append(q, Signal("NOTIFY"))
    BY <1>4, <1>6, SubmitEffect
  <2> HIDE DEF q
  <2>4. ToSet(Append(q, Signal("NOTIFY"))) = ToSet(q) \cup {Signal("NOTIFY")}
    BY <2>1, <2>2, OneMore
  <2> QED
    BY <1>1, <1>2, <2>1, <2>2, <2>3, <2>4
<1>7. ASSUME NEW j \in Job, NEW o \in Outcomes, SimComplete(j, o)
      PROVE  \A x \in ToSet(mailbox') : x \in ToSet(mailbox) \/ New(x)
  BY <1>1, <1>5, <1>7, EventsExist DEF SimComplete
<1>8. ASSUME InjectKill PROVE \A x \in ToSet(mailbox') : x \in ToSet(mailbox) \/ New(x)
  <2>1. PICK K \in SUBSET Job, hit \in SUBSET Job, b \in Seq(SimEvent) :
          /\ ToSet(b) = {JobCompleted(j, "COMPLETED_KILLED") : j \in hit}
          /\ mailbox' = Append(mailbox \o b, Killed(K, hit))
    BY <1>4, <1>8, KillEffect, ConstantsAssumption
  <2>2. PICK q, x : q = mailbox \o b /\ x = Killed(K, hit)
    OBVIOUS
  <2>3. q \in Seq(SimEvent) /\ ToSet(q) = ToSet(mailbox) \cup ToSet(b) /\ x \in SimEvent
    BY <1>4, <2>2, SeveralMore, EventsExist
  <2>4. ToSet(mailbox') = ToSet(q) \cup {Killed(K, hit)}
    <3>1. mailbox' = Append(q, x)
      BY <2>1, <2>2
    <3>2. ToSet(Append(q, x)) = ToSet(q) \cup {x}
      BY <2>3, OneMore
    <3> QED
      BY <2>2, <3>1, <3>2
  <2> QED
    BY <1>1, <2>1, <2>3, <2>4
<1>9. ASSUME InjectRegister PROVE \A x \in ToSet(mailbox') : x \in ToSet(mailbox) \/ New(x)
  <2>1. PICK j \in Dynamic : mailbox' = IF ack_of_dynamic_jobs THEN Append(mailbox, Submitted(j)) ELSE mailbox
    BY <1>9, StagingRegisters
  <2>2. Submitted(j) \in SimEvent
    BY EventsExist DEF Job
  <2> QED
    BY <1>3, <1>5, <2>1, <2>2
<1>10. ASSUME SimCall PROVE \A x \in ToSet(mailbox') : x \in ToSet(mailbox) \/ New(x)
  BY <1>1, <1>5, <1>10, EventsExist DEF SimCall
<1>11. ASSUME SimEnd PROVE \A x \in ToSet(mailbox') : x \in ToSet(mailbox) \/ New(x)
  <2>1. mailbox' = <<Ends>>
    BY <1>11 DEF SimEnd, Ends
  <2>2. ToSet(mailbox') = {Ends}
    BY <2>1 DEF ToSet
  <2> QED
    BY <1>1, <2>2
<1>12. ASSUME SimTick \/ InjectExecute \/ InjectReject \/ InjectChange \/ InjectNotify \/ InjectCallMeLater
       PROVE  mailbox' = mailbox
  BY <1>12 DEF SimTick, InjectExecute, InjectReject, InjectChange, InjectNotify, InjectCallMeLater, sim_vars
<1> QED
  BY <1>6, <1>7, <1>8, <1>9, <1>10, <1>11, <1>12 DEF Sim, Inject, New

\* What the simulator does to the jobs keeps a staging job on its way.
LEMMA SimTracked ==
  ASSUME Messages, Sim, NEW d \in Dynamic, Tracked(d), UNCHANGED <<current_transfers, next_staging_job_id>>
  PROVE  Tracked(d)'
<1>1. /\ commands \in Seq(ApiCommand) /\ mailbox \in Seq(SimEvent) /\ TypeInv
      /\ truth \in [Job -> {"absent", "queued", "running", "changed", "done", "rejected"}]
      /\ d \in Job /\ d \notin Static
  <2>1. d \in Job /\ d \notin Static
    BY ConstantsAssumption DEF ConstantsAssumption, Job
  <2>2. TypeInv /\ commands \in Seq(ApiCommand)
    BY StagingCommands DEF Messages
  <2> QED
    BY <2>1, <2>2 DEF TypeInv, TypeOK, SimTypeOK
<1>2. /\ batsim = "running" /\ Arrivals = mailbox /\ Arrivals' = mailbox' /\ Departures = commands
      /\ Departures' = commands' /\ Handled = {} /\ Handled' = {}
  BY SimQueues
<1>3. Staged' = Staged /\ DOMAIN current_transfers' = DOMAIN current_transfers
  BY DEF Staged
<1>4. PICK N, C, t, q, a, s : N = Staged /\ C = DOMAIN current_transfers /\ t = truth[d] /\ q = commands
                              /\ a = mailbox /\ s = batsim
  OBVIOUS
<1>5. Way(d, N, C, t, q, a, s, {}) /\ q \in Seq(ApiCommand) /\ a \in Seq(SimEvent) /\ s # "aborted"
  BY <1>1, <1>2, <1>4 DEF Tracked
<1>6. PICK v, r, b, u : v = truth'[d] /\ r = commands' /\ b = mailbox' /\ u = batsim'
  OBVIOUS
<1>7. Tracked(d)' <=> Way(d, N, C, v, r, b, u, {})
  BY <1>2, <1>3, <1>4, <1>6, TrackedThen
<1>8. OutKept(d, q, q) /\ InKept(d, a, a)
  BY <1>5, OutSteps, InSteps
<1>9. ASSUME q # <<>>, Other(d, Head(q)), r = Tail(q), v = t, InKept(d, a, b)
      PROVE  Tracked(d)'
  <2>1. OutKept(d, q, r) /\ ToSet(r) \subseteq ToSet(q)
    BY <1>5, <1>9, OutSteps
  <2> QED
    BY <1>4, <1>6, <1>9, <2>1, SimKept
<1>10. ASSUME r = q, v = t, InKept(d, a, b) PROVE Tracked(d)'
  BY <1>4, <1>6, <1>8, <1>10, SimKept
<1>11. CASE SimTick
  BY <1>4, <1>6, <1>8, <1>10, <1>11 DEF SimTick, sim_vars
<1>12. ASSUME NEW j \in Job, SimSubmit(j) PROVE Tracked(d)'
  <2>1. j # d /\ truth' = [truth EXCEPT ![j] = "queued"] /\ commands' = commands
    BY <1>1, <1>12 DEF SimSubmit
  <2>2. PICK x, y : x = Submitted(j) /\ y = Signal("NOTIFY")
    OBVIOUS
  <2>3. /\ x \in SimEvent /\ x \notin Completions(d) /\ y \in SimEvent /\ y \notin Completions(d)
    BY <2>2, EventsExist, OtherEvents
  <2>4. PICK p : p = Append(a, x)
    OBVIOUS
  <2>5. p \in Seq(SimEvent) /\ InKept(d, a, p)
    BY <1>5, <2>3, <2>4, OneMore, InSteps
  <2>6. InKept(d, p, Append(p, y))
    BY <2>3, <2>5, InSteps
  <2>7. b = p \/ b = Append(p, y)
    BY <1>1, <1>4, <1>6, <1>12, <2>2, <2>4, SubmitEffect
  <2>8. InKept(d, a, b)
    BY <2>5, <2>6, <2>7, InKeptTwice
  <2> QED
    BY <1>1, <1>4, <1>6, <1>10, <2>1, <2>8
<1>13. ASSUME NEW j \in Job, NEW o \in Outcomes, SimComplete(j, o) PROVE Tracked(d)'
  <2>1. /\ truth[j] = "running" /\ truth' = [truth EXCEPT ![j] = "done"]
        /\ commands' = commands /\ batsim' = batsim /\ mailbox' = Append(mailbox, JobCompleted(j, o))
    BY <1>13 DEF SimComplete
  <2>2. PICK x : x = JobCompleted(j, o)
    OBVIOUS
  <2>3. x \in SimEvent /\ x \in Completions(j) /\ b = Append(a, x)
    BY <1>4, <1>6, <2>1, <2>2, EventsExist
  <2>4. CASE j # d
    <3>1. x \notin Completions(d)
      BY <2>2, <2>4, OtherEvents
    <3>2. InKept(d, a, b)
      BY <1>5, <2>3, <3>1, InSteps
    <3> QED
      BY <1>1, <1>4, <1>6, <1>10, <2>1, <2>4, <3>2
  <2>5. CASE j = d
    <3>1. t = "running" /\ v = "done" /\ r = q /\ u = s
      BY <1>1, <1>4, <1>6, <2>1, <2>5
    <3>2. ToSet(a) \cap Completions(d) = {} /\ AtMostOne(a, Completions(d))
      BY <1>5, <3>1 DEF Way
    <3>3. ToSet(b) = ToSet(a) \cup {x}
      BY <1>5, <2>3, OneMore
    <3>4. AtMostOne(b, Completions(d))
      BY <1>5, <2>3, <3>2, OneMore
    <3>5. ToSet(b) \cap Completions(d) # {}
      BY <2>3, <2>5, <3>3
    <3>6. Way(d, N, C, "done", q, b, s, {})
      BY <1>5, <1>8, <3>1, <3>4, <3>5, WayCompleted
    <3> QED
      BY <1>7, <3>1, <3>6
  <2> QED
    BY <2>4, <2>5
<1>14. CASE SimCall
  <2>1. truth' = truth /\ commands' = commands /\ mailbox' = Append(mailbox, Signal("REQUESTED_CALL"))
    BY <1>14 DEF SimCall
  <2>2. Signal("REQUESTED_CALL") \in SimEvent /\ Signal("REQUESTED_CALL") \notin Completions(d)
    BY EventsExist, OtherEvents
  <2>3. InKept(d, a, Append(a, Signal("REQUESTED_CALL")))
    BY <1>5, <2>2, InSteps
  <2> QED
    BY <1>4, <1>6, <1>10, <2>1, <2>3
<1>15. CASE SimEnd
  <2>1. truth' = truth /\ commands' = commands /\ mailbox = <<>> /\ mailbox' = <<Ends>>
    BY <1>15 DEF SimEnd, Finished, Ends
  <2>2. Ends \in SimEvent /\ Ends \notin Completions(d)
    BY EventsExist, OtherEvents DEF Ends
  <2>3. InKept(d, a, Append(a, Ends))
    BY <1>5, <2>2, InSteps
  <2>4. b = Append(a, Ends)
    BY <1>4, <1>6, <2>1
  <2> QED
    BY <1>4, <1>6, <1>10, <2>1, <2>3, <2>4
<1>16. CASE InjectExecute
  <2>1. /\ q # <<>> /\ Head(q) \in StagingCommand /\ Head(q).type = "EXECUTE_JOB"
        /\ r = Tail(q) /\ b = a /\ Move(Head(q), "queued", "running")
    BY <1>4, <1>6, <1>16, HeadCommand DEF InjectExecute, Injected
  <2>2. PICK e \in Dynamic : Head(q) = Executing(e)
    BY <2>1, StagingKinds
  <2>3. IF truth[e] = "queued"
        THEN truth' = [truth EXCEPT ![e] = "running"] /\ batsim' = batsim
        ELSE truth' = truth /\ batsim' = "aborted"
    <3>1. Head(q).jobs = {e} /\ e \in Job
      BY <2>2, CommandFields DEF Job
    <3> QED
      BY <1>1, <2>1, <3>1, MoveOne
  <2>4. CASE e # d
    <3>1. Other(d, Head(q))
      BY <2>2, <2>4, Others
    <3>2. v = t
      BY <1>1, <1>4, <1>6, <2>3, <2>4
    <3> QED
      BY <1>8, <1>9, <2>1, <3>1, <3>2
  <2>5. CASE e = d
    <3>1. t = "queued" /\ Way(d, N, C, "running", Tail(q), a, s, {})
      BY <1>5, <2>1, <2>2, <2>5, WayExecuted
    <3>2. v = "running" /\ u = s
      BY <1>1, <1>4, <1>6, <2>3, <2>5, <3>1
    <3> QED
      BY <1>7, <2>1, <3>1, <3>2
  <2> QED
    BY <2>4, <2>5
<1>17. CASE InjectReject
  <2>1. /\ q # <<>> /\ Head(q) \in StagingCommand /\ Head(q).type = "REJECT_JOB"
        /\ r = Tail(q) /\ b = a /\ Move(Head(q), "queued", "rejected")
    BY <1>4, <1>6, <1>17, HeadCommand DEF InjectReject, Injected
  <2>2. PICK e \in Static : Head(q) = Rejecting(e)
    BY <2>1, StagingKinds
  <2>3. truth' = [truth EXCEPT ![e] = "rejected"] \/ truth' = truth
    <3>1. Head(q).jobs = {e} /\ e \in Job
      BY <2>2, CommandFields DEF Job
    <3> QED
      BY <1>1, <2>1, <3>1, MoveOne
  <2>4. v = t
    BY <1>1, <1>4, <1>6, <2>3
  <2> QED
    BY <1>8, <1>9, <2>1, <2>2, <2>4, Others
<1>18. CASE InjectNotify
  <2>1. /\ q # <<>> /\ Head(q) \in StagingCommand /\ Head(q).type = "NOTIFY"
        /\ r = Tail(q) /\ b = a /\ v = t
    BY <1>4, <1>6, <1>18, HeadCommand DEF InjectNotify
  <2>2. Other(d, Head(q))
    BY <2>1, StagingKinds, Others
  <2> QED
    BY <1>8, <1>9, <2>1, <2>2
<1>19. CASE InjectChange \/ InjectCallMeLater
  <2>1. Head(commands) \in StagingCommand /\ Head(commands).type \in {"CHANGE_JOB_STATE", "CALL_ME_LATER"}
    BY <1>19, HeadCommand DEF InjectChange, InjectCallMeLater
  <2> QED
    BY <2>1, StagingKinds
<1>20. CASE InjectRegister
  <2>1. PICK e \in Dynamic :
          /\ commands # <<>> /\ Head(commands) = Registering(e) /\ commands' = Tail(commands)
          /\ \/ truth' = truth /\ batsim' = "aborted"
             \/ truth' = [truth EXCEPT ![e] = "queued"]
          /\ mailbox' = IF ack_of_dynamic_jobs THEN Append(mailbox, Submitted(e)) ELSE mailbox
    BY <1>20, StagingRegisters
  <2>2. InKept(d, a, b)
    <3>1. Submitted(e) \in SimEvent /\ Submitted(e) \notin Completions(d)
      BY EventsExist, OtherEvents DEF Job
    <3>2. InKept(d, a, Append(a, Submitted(e)))
      BY <1>5, <3>1, InSteps
    <3> QED
      BY <1>4, <1>6, <1>8, <2>1, <3>2
  <2>3. q # <<>> /\ Head(q) = Registering(e) /\ r = Tail(q)
    BY <1>4, <1>6, <2>1
  <2>4. CASE e # d
    <3>1. Other(d, Head(q))
      BY <2>3, <2>4, Others
    <3>2. v = t
      BY <1>1, <1>4, <1>6, <2>1, <2>4
    <3> QED
      BY <1>9, <2>2, <2>3, <3>1, <3>2
  <2>5. CASE e = d
    <3>1. (v = t /\ u = "aborted") \/ v = "queued"
      BY <1>1, <1>4, <1>6, <2>1, <2>5
    <3>2. Way(d, N, C, v, Tail(q), b, u, {})
      BY <1>5, <2>2, <2>3, <2>5, <3>1, WayRegistered
    <3> QED
      BY <1>7, <2>3, <3>2
  <2> QED
    BY <2>4, <2>5
<1>21. CASE InjectKill
  <2>1. PICK K \in SUBSET Job, hit \in SUBSET Job, w \in Seq(SimEvent) :
          /\ commands # <<>> /\ Head(commands) = Killing(K) /\ commands' = Tail(commands)
          /\ hit = {j \in K : truth[j] = "running"}
          /\ truth' = [j \in Job |-> IF j \in hit THEN "done" ELSE truth[j]] /\ batsim' = batsim
          /\ ToSet(w) = {JobCompleted(j, "COMPLETED_KILLED") : j \in hit}
          /\ \A j \in Job : AtMostOne(w, Completions(j))
          /\ mailbox' = Append(mailbox \o w, Killed(K, hit))
    BY <1>1, <1>21, KillEffect, ConstantsAssumption
  <2>2. PICK x, p : x = Killed(K, hit) /\ p = a \o w
    OBVIOUS
  <2>3. /\ p \in Seq(SimEvent) /\ ToSet(p) = ToSet(a) \cup ToSet(w)
        /\ x \in SimEvent /\ x \notin Completions(d) /\ b = Append(p, x)
    BY <1>4, <1>5, <1>6, <2>1, <2>2, SeveralMore, EventsExist, OtherEvents
  <2>4. InKept(d, p, b)
    BY <2>3, InSteps
  <2>5. q # <<>> /\ r = Tail(q) /\ Other(d, Head(q))
    BY <1>4, <1>6, <2>1, Others
  <2>6. CASE d \notin hit
    <3>1. ToSet(w) \cap Completions(d) = {}
      <4> SUFFICES ASSUME NEW y \in ToSet(w), y \in Completions(d) PROVE FALSE
        OBVIOUS
      <4>1. PICK j \in hit : y = JobCompleted(j, "COMPLETED_KILLED")
        BY <2>1
      <4>2. j # d
        BY <2>6, <4>1
      <4> QED
        BY <4>1, <4>2, OtherEvents
    <3>2. InKept(d, a, p)
      BY <1>5, <2>2, <3>1, InSteps
    <3>3. InKept(d, a, b)
      BY <2>4, <3>2, InKeptTwice
    <3>4. v = t
      BY <1>1, <1>4, <1>6, <2>1, <2>6
    <3> QED
      BY <1>9, <2>5, <3>3, <3>4
  <2>7. CASE d \in hit
    <3>1. t = "running" /\ v = "done" /\ u = s
      BY <1>1, <1>4, <1>6, <2>1, <2>7
    <3>2. ToSet(a) \cap Completions(d) = {} /\ AtMostOne(a, Completions(d))
      BY <1>5, <3>1 DEF Way
    <3>3. AtMostOne(w, Completions(d)) /\ ToSet(w) \cap Completions(d) # {}
      <4>1. JobCompleted(d, "COMPLETED_KILLED") \in ToSet(w)
        BY <2>1, <2>7
      <4>2. JobCompleted(d, "COMPLETED_KILLED") \in Completions(d)
        BY <1>1, EventsExist
      <4> QED
        BY <1>1, <2>1, <4>1, <4>2
    <3>4. AtMostOne(p, Completions(d)) /\ ToSet(p) \cap Completions(d) # {}
      <4>1. AtMostOne(a \o w, Completions(d))
        BY <1>5, <3>2, <3>3, SeveralMore
      <4> QED
        BY <2>2, <2>3, <3>3, <4>1
    <3>5. AtMostOne(b, Completions(d)) /\ ToSet(b) \cap Completions(d) # {}
      BY <2>4, <3>4 DEF InKept
    <3>6. OutKept(d, q, r)
      BY <1>5, <2>5, OutSteps
    <3>7. Way(d, N, C, "done", r, b, s, {})
      BY <1>5, <3>1, <3>5, <3>6, WayCompleted
    <3> QED
      BY <1>7, <3>1, <3>7
  <2> QED
    BY <2>6, <2>7
<1>22. CASE Inject
  BY <1>16, <1>17, <1>18, <1>19, <1>20, <1>21, <1>22 DEF Inject
<1> QED
  BY <1>11, <1>12, <1>13, <1>14, <1>15, <1>22 DEF Sim

-----------------------------------------------------------------------------
\* The messages

LEMMA MessagesThen ==
  ASSUME TypeInv',
         phase' \in {"events", "handler", "exception", "init"} => mailbox' = <<>>,
         phase' = "init" => initialised',
         initialised' => Begins \notin ToSet(Arrivals'),
         ~initialised' => ToSet(Arrivals') \subseteq {Begins},
         \A j \in Job : job_state'[j] = "IN_SUBMISSON" => initialised' /\ j \in Dynamic,
         ack_of_dynamic_jobs' => nb'["in_submission"] >= Num(job_state', {"IN_SUBMISSON"}),
         ~ack_of_dynamic_jobs' => \A d \in Dynamic : Submitted(d) \notin ToSet(Arrivals'),
         commands' \in Seq(StagingCommand), events_to_send' \in Seq(StagingCommand)
  PROVE  Messages'
<1>1. Turns'
  BY DEF Turns
<1>2. Submitting'
  BY DEF Submitting
<1> QED
  BY <1>1, <1>2 DEF Messages

\* The simulator adds no event that would disturb.
LEMMA SimMessages ==
  ASSUME Messages, Sim
  PROVE  Messages'
<1>1. TypeInv'
  BY SimTypes, ConstantsAssumption DEF Messages
<1>2. /\ phase' = "recv" /\ initialised /\ Arrivals = mailbox /\ Arrivals' = mailbox'
      /\ initialised' = initialised /\ ack_of_dynamic_jobs' = ack_of_dynamic_jobs
      /\ job_state' = job_state /\ nb' = nb /\ events_to_send' = events_to_send
  BY SimQueues DEF loop_vars, api_vars
<1>3. commands' \in Seq(StagingCommand)
  BY SimCommands, HeadTailProperties DEF Messages
<1>4. Turns /\ Submitting /\ events_to_send \in Seq(StagingCommand)
  BY DEF Messages
<1>5. Begins \notin ToSet(mailbox')
  BY <1>2, <1>4, SimAdds DEF Turns
<1>6. ~ack_of_dynamic_jobs => \A d \in Dynamic : Submitted(d) \notin ToSet(mailbox')
  BY <1>2, <1>4, SimAdds DEF Submitting
<1>7. /\ \A j \in Job : job_state[j] = "IN_SUBMISSON" => initialised /\ j \in Dynamic
      /\ ack_of_dynamic_jobs => nb["in_submission"] >= Num(job_state, {"IN_SUBMISSON"})
  BY <1>4 DEF Submitting
<1> QED
  BY <1>1, <1>2, <1>3, <1>4, <1>5, <1>6, <1>7, MessagesThen

\* A message of the simulator is taken, or the process gives up, or it replies.
LEMMA TurnMessages ==
  ASSUME Messages, Receive \/ Timeout \/ SendReply
  PROVE  Messages'
<1>1. /\ TypeInv /\ Turns /\ Submitting
      /\ commands \in Seq(StagingCommand) /\ events_to_send \in Seq(StagingCommand)
  BY DEF Messages
<1>2. TypeInv'
  <2> USE DEF TypeInv, TypeOK, SimTypeOK, LoopTypeOK, ApiTypeOK, JobTypeOK
  <2>1. Receive => TypeInv'
    BY <1>1, Formats DEF Receive, job_vars
  <2>2. Timeout => TypeInv'
    BY <1>1, Formats DEF Timeout, sim_vars, api_vars, job_vars
  <2>3. SendReply => TypeInv'
    BY <1>1, Formats DEF SendReply, Reply, job_vars
  <2> QED
    BY <2>1, <2>2, <2>3
<1>3. job_state' = job_state /\ nb' = nb /\ ack_of_dynamic_jobs' = ack_of_dynamic_jobs
      /\ (initialised => initialised')
  BY DEF Receive, Timeout, SendReply, job_vars
<1>4. commands' \in Seq(StagingCommand) /\ events_to_send' \in Seq(StagingCommand)
  <2>1. Receive => commands' = commands /\ events_to_send' = <<>>
    BY DEF Receive
  <2>2. Timeout => commands' = commands /\ events_to_send' = events_to_send
    BY DEF Timeout, sim_vars, api_vars
  <2>3. SendReply => commands' = events_to_send /\ events_to_send' = <<>>
    BY DEF SendReply, Reply
  <2>4. <<>> \in Seq(StagingCommand)
    OBVIOUS
  <2>5. CASE Receive
    BY <1>1, <2>1, <2>4, <2>5
  <2>6. CASE Timeout
    BY <1>1, <2>2, <2>6
  <2>7. CASE SendReply
    BY <1>1, <2>3, <2>4, <2>7
  <2> QED
    BY <2>5, <2>6, <2>7
<1>5. /\ phase' \in {"events", "handler", "exception", "init"} => mailbox' = <<>>
      /\ phase' = "init" => initialised'
      /\ Arrivals' = Arrivals
      /\ initialised' = initialised \/ Arrivals = <<>>
  <2>1. Receive => phase' = "events" /\ mailbox' = <<>> /\ Arrivals' = Arrivals /\ initialised' = initialised
    BY DEF Receive, Arrivals
  <2>2. Timeout => phase' = "deadlock" /\ Arrivals' = Arrivals /\ initialised' = initialised
    BY DEF Timeout, Arrivals, sim_vars
  <2>3. SendReply => /\ phase = "handler" /\ events = <<>> /\ events' = events /\ mailbox' = mailbox
                     /\ initialised' /\ mailbox = <<>>
                     /\ phase' \in {"init", "ended", "recv"}
    BY <1>1 DEF SendReply, Turns
  <2>4. SendReply => Arrivals = <<>> /\ Arrivals' = <<>>
    BY <2>3 DEF Arrivals
  <2> QED
    BY <2>1, <2>2, <2>3, <2>4
<1>6. ToSet(Arrivals') = ToSet(Arrivals) /\ (Arrivals = <<>> => ToSet(Arrivals) = {})
  <2>1. ToSet(<<>>) = {}
    BY DEF ToSet
  <2> QED
    BY <1>5, <2>1
<1>7. /\ initialised' => Begins \notin ToSet(Arrivals')
      /\ ~initialised' => ToSet(Arrivals') \subseteq {Begins}
  BY <1>1, <1>3, <1>5, <1>6 DEF Turns
<1>8. /\ \A j \in Job : job_state'[j] = "IN_SUBMISSON" => initialised' /\ j \in Dynamic
      /\ ack_of_dynamic_jobs' => nb'["in_submission"] >= Num(job_state', {"IN_SUBMISSON"})
      /\ ~ack_of_dynamic_jobs' => \A d \in Dynamic : Submitted(d) \notin ToSet(Arrivals')
  BY <1>1, <1>3, <1>6 DEF Submitting
<1> QED
  BY <1>2, <1>4, <1>5, <1>7, <1>8, MessagesThen

\* How many jobs are in submission.
LEMMA Submissions ==
  ASSUME NEW f, NEW g, NEW j \in Job, \A k \in Job : k # j => g[k] = f[k]
  PROVE  LET S == {"IN_SUBMISSON"} IN
         /\ Num(f, S) \in Nat /\ Num(g, S) \in Nat
         /\ Num(g, S) <= Num(f, S) + 1
         /\ g[j] # "IN_SUBMISSON" => Num(g, S) <= Num(f, S)
         /\ f[j] = "IN_SUBMISSON" => Num(f, S) > 0
         /\ f[j] = "IN_SUBMISSON" /\ g[j] # "IN_SUBMISSON" => Num(g, S) = Num(f, S) - 1
<1> DEFINE S == {"IN_SUBMISSON"}
<1>1. \A k \in Job : k # j => g[k] = f[k]
  OBVIOUS
<1>2. \A T : /\ Num(f, T) \in Nat
             /\ Num(g, T) = IF f[j] \in T THEN IF g[j] \in T THEN Num(f, T) ELSE Num(f, T) - 1
                                           ELSE IF g[j] \in T THEN Num(f, T) + 1 ELSE Num(f, T)
  BY <1>1, NumChange, ConstantsAssumption
<1>3. \A T : Num(g, T) \in Nat
  <2>1. \A k \in Job : k # j => g[k] = g[k]
    OBVIOUS
  <2> QED
    BY <2>1, NumChange, ConstantsAssumption
<1>4. f[j] \in S => Num(f, S) > 0
  <2> SUFFICES ASSUME f[j] \in S PROVE Num(f, S) # 0
    BY <1>2
  <2>1. IsFiniteSet(Job)
    BY FS_Union, ConstantsAssumption DEF ConstantsAssumption, Job
  <2>2. IsFiniteSet({k \in Job : f[k] \in S}) /\ j \in {k \in Job : f[k] \in S}
    BY <2>1, FS_Subset
  <2> QED
    BY <2>2, FS_EmptySet DEF Num
<1>5. \A x : x \in S <=> x = "IN_SUBMISSON"
  OBVIOUS
<1> HIDE DEF S
<1>6. /\ Num(f, S) \in Nat
      /\ Num(g, S) = IF f[j] \in S THEN IF g[j] \in S THEN Num(f, S) ELSE Num(f, S) - 1
                                    ELSE IF g[j] \in S THEN Num(f, S) + 1 ELSE Num(f, S)
      /\ Num(g, S) \in Nat
  BY <1>2, <1>3
<1>7. PICK n, m : n = Num(f, S) /\ m = Num(g, S)
  OBVIOUS
<1>8. /\ m <= n + 1
      /\ g[j] # "IN_SUBMISSON" => m <= n
      /\ f[j] = "IN_SUBMISSON" => n > 0
      /\ f[j] = "IN_SUBMISSON" /\ g[j] # "IN_SUBMISSON" => m = n - 1
  BY <1>4, <1>5, <1>6, <1>7
<1> QED
  BY <1>6, <1>7, <1>8 DEF S

\* A kill leaves fewer in submission.
LEMMA KilledSubmissions ==
  ASSUME NEW f, NEW K
  PROVE  LET g == [j \in Job |-> IF j \in K THEN "IN_KILLING" ELSE f[j]]
             S == {"IN_SUBMISSON"}
         IN  Num(f, S) \in Nat /\ Num(g, S) \in Nat /\ Num(g, S) <= Num(f, S)
<1> DEFINE g == [j \in Job |-> IF j \in K THEN "IN_KILLING" ELSE f[j]]
           S == {"IN_SUBMISSON"}
           A == {k \in Job : f[k] \in S}
           B == {k \in Job : g[k] \in S}
<1>1. IsFiniteSet(Job)
  BY FS_Union, ConstantsAssumption DEF ConstantsAssumption, Job
<1>2. IsFiniteSet(A) /\ B \subseteq A
  BY <1>1, FS_Subset
<1>3. Num(f, S) = Cardinality(A) /\ Num(g, S) = Cardinality(B)
  BY DEF Num
<1> HIDE DEF A, B
<1>4. IsFiniteSet(B) /\ Cardinality(B) <= Cardinality(A)
  BY <1>2, FS_Subset
<1>5. Cardinality(A) \in Nat /\ Cardinality(B) \in Nat
  BY <1>2, <1>4, FS_CardinalityType
<1> QED
  BY <1>3, <1>4, <1>5

\* Every event dispatched is one that was to be handled, and a command is neither
\* issued nor taken.
LEMMA DispatchQueues ==
  ASSUME Messages, Dispatch
  PROVE  /\ phase = "events" /\ phase' \in {"events", "handler", "exception"}
         /\ Arrivals = events /\ Arrivals' = events' /\ mailbox' = mailbox
         /\ UNCHANGED <<commands, events_to_send, initialised, truth, batsim>>
         /\ events' = events \/ /\ events # <<>> /\ events' = Tail(events) /\ phase' = "events"
                                /\ Head(events).type = "JOB_KILLED"
         /\ phase' = "handler" => events' = events
<1>1. /\ phase = "events" /\ phase' \in {"events", "handler", "exception"} /\ mailbox' = mailbox
      /\ UNCHANGED <<commands, events_to_send, initialised, truth, batsim>>
      /\ events' = events \/ /\ events # <<>> /\ events' = Tail(events) /\ phase' = "events"
                             /\ Head(events).type = "JOB_KILLED"
      /\ phase' = "handler" => events' = events
  BY DEF Dispatch, DispatchSimulationBegins, DispatchSimulationEnds, DispatchJobSubmitted,
         DispatchJobCompleted, DispatchJobKilled, DispatchRequestedCall, DispatchNotify,
         DispatchNoMoreEvents, Dispatching, sim_vars, api_vars
<1> QED
  BY <1>1 DEF Arrivals

\* No job is submitted or completed twice by the counters.
LEMMA DispatchSubmitting ==
  ASSUME Messages, Dispatch
  PROVE  /\ \A j \in Job : job_state'[j] = "IN_SUBMISSON" => job_state[j] = "IN_SUBMISSON"
         /\ ack_of_dynamic_jobs' => nb'["in_submission"] >= Num(job_state', {"IN_SUBMISSON"})
         /\ ack_of_dynamic_jobs' # ack_of_dynamic_jobs => ~initialised
<1>1. TypeInv /\ Turns /\ Submitting /\ Arrivals = events /\ events \in Seq(SimEvent)
  BY DispatchQueues DEF Messages, TypeInv
<1>2. /\ job_state \in [Job -> JobState \cup {"NONE"}] /\ nb \in [Counter -> Nat] /\ "in_submission" \in Counter
  BY <1>1 DEF TypeInv, TypeOK, JobTypeOK, Counter
<1>3. ASSUME NEW type, Dispatching(type) PROVE Head(events) \in SimEvent /\ Head(events) \in ToSet(events)
  BY <1>1, <1>3, HeadGone DEF Dispatching
<1>4. CASE DispatchSimulationBegins
  <2>1. Dispatching("SIMULATION_BEGINS") /\ job_state' = job_state /\ nb' = nb
    BY <1>4 DEF DispatchSimulationBegins, job_vars
  <2>2. Begins \in ToSet(events)
    BY <1>3, <2>1, EventKinds DEF Dispatching
  <2>3. ~initialised
    BY <1>1, <2>2 DEF Turns
  <2>4. {k \in Job : job_state[k] \in {"IN_SUBMISSON"}} = {}
    BY <1>1, <2>3 DEF Submitting
  <2>5. Num(job_state, {"IN_SUBMISSON"}) = 0
    BY <2>4, FS_EmptySet DEF Num
  <2> QED
    BY <1>2, <2>1, <2>3, <2>5
<1>5. CASE DispatchJobSubmitted
  <2>1. Dispatching("JOB_SUBMITTED") /\ ack_of_dynamic_jobs' = ack_of_dynamic_jobs
    BY <1>5 DEF DispatchJobSubmitted
  <2>2. PICK j \in Job : Head(events) = Submitted(j)
    BY <1>3, <2>1, EventKinds DEF Dispatching
  <2>3. /\ nb' = CountSubmission(job_state[j] # "NONE", job_state[j] = "IN_SUBMISSON")
        /\ job_state' = [job_state EXCEPT ![j] = "SUBMITTED"]
    <3>1. Head(events).jobs = {j}
      BY <2>2, EventFields
    <3> QED
      BY <1>5, <3>1 DEF DispatchJobSubmitted
  <2>4. nb'["in_submission"] = IF job_state[j] = "IN_SUBMISSON" THEN nb["in_submission"] - 1
                                                              ELSE nb["in_submission"]
    <3> DEFINE n == Count({"submitted", IF job_state[j] # "NONE" THEN "from_scheduler" ELSE "from_batsim"})
    <3>1. n \in [Counter -> Nat] /\ n["in_submission"] = nb["in_submission"]
      <4>1. n \in [Counter -> Nat]
        BY <1>2, CountType
      <4>2. "in_submission" \notin {"submitted", IF job_state[j] # "NONE" THEN "from_scheduler" ELSE "from_batsim"}
        OBVIOUS
      <4> QED
        BY <1>2, <4>1, <4>2 DEF Count
    <3>2. nb' = IF job_state[j] = "IN_SUBMISSON" THEN [n EXCEPT !["in_submission"] = @ - 1] ELSE n
      BY <2>3 DEF CountSubmission
    <3> HIDE DEF n
    <3> QED
      BY <1>2, <3>1, <3>2
  <2>5. job_state'[j] = "SUBMITTED" /\ \A k \in Job : k # j => job_state'[k] = job_state[k]
    BY <1>2, <2>3
  <2>6. PICK f, g : f = job_state /\ g = job_state'
    OBVIOUS
  <2>7. g[j] = "SUBMITTED" /\ \A k \in Job : k # j => g[k] = f[k]
    BY <2>5, <2>6
  <2>8. PICK S : S = {"IN_SUBMISSON"}
    OBVIOUS
  <2>9. /\ Num(f, S) \in Nat /\ Num(g, S) \in Nat /\ Num(g, S) <= Num(f, S)
        /\ f[j] = "IN_SUBMISSON" => Num(g, S) = Num(f, S) - 1
    BY <2>7, <2>8, Submissions
  <2>10. ack_of_dynamic_jobs => nb["in_submission"] >= Num(f, S)
    BY <1>1, <2>6, <2>8 DEF Submitting
  <2>11. ack_of_dynamic_jobs' => nb'["in_submission"] >= Num(g, S)
    BY <1>2, <2>1, <2>4, <2>6, <2>9, <2>10
  <2> QED
    BY <2>1, <2>5, <2>6, <2>8, <2>11
<1>6. CASE DispatchJobCompleted
  <2>1. Dispatching("JOB_COMPLETED") /\ ack_of_dynamic_jobs' = ack_of_dynamic_jobs
    BY <1>6 DEF DispatchJobCompleted
  <2>2. PICK j \in Job, o \in Outcomes \cup {"COMPLETED_KILLED"} : Head(events) = JobCompleted(j, o)
    BY <1>3, <2>1, EventKinds DEF Dispatching
  <2>3. job_state' = [job_state EXCEPT ![j] = StateNamed(o)] /\ nb' = CountCompletion(StateNamed(o))
    <3>1. Head(events).jobs = {j} /\ Head(events).state = o
      BY <2>2, EventFields
    <3> QED
      BY <1>6, <3>1 DEF DispatchJobCompleted
  <2>4. StateNamed(o) # "IN_SUBMISSON"
    <3>1. o \in JobState => o \in Completed \cup {"UNKNOWN"}
      BY ConstantsAssumption DEF ConstantsAssumption, Completed
    <3> QED
      BY <3>1 DEF StateNamed, Completed
  <2>5. nb'["in_submission"] = nb["in_submission"]
    BY <1>2, <2>3 DEF CountCompletion, Count
  <2>6. PICK f, g, S : f = job_state /\ g = job_state' /\ S = {"IN_SUBMISSON"}
    OBVIOUS
  <2>7. g[j] # "IN_SUBMISSON" /\ \A k \in Job : k # j => g[k] = f[k]
    BY <1>2, <2>3, <2>4, <2>6
  <2>8. Num(f, S) \in Nat /\ Num(g, S) \in Nat /\ Num(g, S) <= Num(f, S)
    BY <2>6, <2>7, Submissions
  <2>9. ack_of_dynamic_jobs => nb["in_submission"] >= Num(f, S)
    BY <1>1, <2>6 DEF Submitting
  <2>10. ack_of_dynamic_jobs' => nb'["in_submission"] >= Num(g, S)
    BY <1>2, <2>1, <2>5, <2>8, <2>9
  <2> QED
    BY <2>1, <2>6, <2>7, <2>10
<1>7. CASE \/ DispatchSimulationEnds \/ DispatchJobKilled \/ DispatchRequestedCall
           \/ DispatchNotify \/ DispatchNoMoreEvents
  <2>1. job_state' = job_state /\ nb' = nb /\ ack_of_dynamic_jobs' = ack_of_dynamic_jobs
    BY <1>7 DEF DispatchSimulationEnds, DispatchJobKilled, DispatchRequestedCall, DispatchNotify,
                DispatchNoMoreEvents, job_vars
  <2> QED
    BY <1>1, <2>1 DEF Submitting
<1> QED
  BY <1>4, <1>5, <1>6, <1>7 DEF Dispatch

\* A job acknowledged was counted.
LEMMA DispatchMessages ==
  ASSUME Messages, Dispatch
  PROVE  Messages'
<1>1. /\ phase = "events" /\ phase' \in {"events", "handler", "exception"}
      /\ Arrivals = events /\ Arrivals' = events' /\ mailbox' = mailbox
      /\ UNCHANGED <<commands, events_to_send, initialised>>
      /\ events' = events \/ (events # <<>> /\ events' = Tail(events))
  BY DispatchQueues
<1>2. /\ TypeInv /\ Turns /\ Submitting /\ events \in Seq(SimEvent)
      /\ commands \in Seq(StagingCommand) /\ events_to_send \in Seq(StagingCommand)
  BY DEF Messages, TypeInv
<1>3. AckCounted
  <2> SUFFICES ASSUME NEW j \in Job, Submitted(j) \in ToSet(events), job_state[j] = "IN_SUBMISSON"
               PROVE  nb["in_submission"] > 0
    BY DEF AckCounted
  <2>1. ack_of_dynamic_jobs
    BY <1>1, <1>2 DEF Submitting
  <2>2. PICK f, S : f = job_state /\ S = {"IN_SUBMISSON"}
    OBVIOUS
  <2>3. \A k \in Job : k # j => f[k] = f[k]
    OBVIOUS
  <2>4. Num(f, S) \in Nat /\ Num(f, S) > 0
    BY <2>2, <2>3, Submissions
  <2>5. nb["in_submission"] >= Num(f, S)
    BY <1>2, <2>1, <2>2 DEF Submitting
  <2>6. nb["in_submission"] \in Nat
    BY <1>2 DEF TypeInv, TypeOK, JobTypeOK, Counter
  <2> QED
    BY <2>4, <2>5, <2>6
<1>4. TypeInv'
  BY <1>2, <1>3, DispatchTypes, ConstantsAssumption
<1>5. ToSet(Arrivals') \subseteq ToSet(Arrivals)
  BY <1>1, <1>2, HeadGone
<1>6. /\ \A j \in Job : job_state'[j] = "IN_SUBMISSON" => job_state[j] = "IN_SUBMISSON"
      /\ ack_of_dynamic_jobs' => nb'["in_submission"] >= Num(job_state', {"IN_SUBMISSON"})
      /\ ack_of_dynamic_jobs' # ack_of_dynamic_jobs => ~initialised
  BY DispatchSubmitting
<1>7. /\ initialised' => Begins \notin ToSet(Arrivals')
      /\ ~initialised' => ToSet(Arrivals') \subseteq {Begins}
      /\ mailbox' = <<>>
  BY <1>1, <1>2, <1>5 DEF Turns
<1>8. ~ack_of_dynamic_jobs' => \A d \in Dynamic : Submitted(d) \notin ToSet(Arrivals')
  <2>1. CASE ack_of_dynamic_jobs' = ack_of_dynamic_jobs
    BY <1>2, <1>5, <2>1 DEF Submitting
  <2>2. CASE ack_of_dynamic_jobs' # ack_of_dynamic_jobs
    <3>1. ToSet(Arrivals') \subseteq {Begins}
      BY <1>1, <1>6, <1>7, <2>2
    <3>2. \A d : Submitted(d) # Begins
      BY EventFields DEF Begins
    <3> QED
      BY <3>1, <3>2
  <2> QED
    BY <2>1, <2>2
<1>9. \A j \in Job : job_state'[j] = "IN_SUBMISSON" => initialised' /\ j \in Dynamic
  BY <1>1, <1>2, <1>6 DEF Submitting
<1> QED
  BY <1>1, <1>2, <1>4, <1>6, <1>7, <1>8, <1>9, MessagesThen

-----------------------------------------------------------------------------
\* The messages, while the scheduler and the controller act

\* A call adds commands, and leaves the process where it is.
LEMMA CallMessages ==
  ASSUME Messages, UNCHANGED <<sim_vars, now, loop_vars>>,
         events_to_send' \in Seq(StagingCommand), state' \in [Job -> {"NONE", "RUNNING", "REJECTED"}],
         jobs_manually_changed' = jobs_manually_changed, job_state' \in [Job -> JobState \cup {"NONE"}],
         submit_time' \in [Job -> Nat], nb' \in [Counter -> Nat],
         \A j \in Job : job_state'[j] = "IN_SUBMISSON" => initialised /\ j \in Dynamic,
         ack_of_dynamic_jobs => nb'["in_submission"] >= Num(job_state', {"IN_SUBMISSON"})
  PROVE  Messages'
<1>1. /\ TypeInv /\ Turns /\ Submitting /\ commands \in Seq(StagingCommand)
  BY DEF Messages
<1>2. events_to_send' \in Seq(ApiCommand)
  BY StagingCommands
<1>3. TypeInv'
  BY <1>1, <1>2, Formats DEF TypeInv, TypeOK, SimTypeOK, LoopTypeOK, ApiTypeOK, JobTypeOK, sim_vars, loop_vars
<1>4. /\ phase' = phase /\ mailbox' = mailbox /\ initialised' = initialised /\ Arrivals' = Arrivals
      /\ commands' = commands /\ ack_of_dynamic_jobs' = ack_of_dynamic_jobs
  BY DEF sim_vars, loop_vars, Arrivals
<1>5. /\ phase' \in {"events", "handler", "exception", "init"} => mailbox' = <<>>
      /\ phase' = "init" => initialised'
      /\ initialised' => Begins \notin ToSet(Arrivals')
      /\ ~initialised' => ToSet(Arrivals') \subseteq {Begins}
  BY <1>1, <1>4 DEF Turns
<1>6. ~ack_of_dynamic_jobs' => \A d \in Dynamic : Submitted(d) \notin ToSet(Arrivals')
  BY <1>1, <1>4 DEF Submitting
<1> QED
  BY <1>1, <1>3, <1>4, <1>5, <1>6, MessagesThen

\* A callback goes on or returns.
LEMMA CallbackMessages ==
  ASSUME Messages, phase \in {"handler", "init"},
         UNCHANGED <<sim_vars, now, initialised, running_simulation, no_more_static_jobs,
                     ack_of_dynamic_jobs, api_vars, job_vars>>,
         \/ phase = "handler" /\ events # <<>> /\ phase' = "events" /\ events' = Tail(events)
         \/ phase = "handler" /\ phase' \in {"handler", "exception"} /\ events' = events
         \/ phase = "init" /\ phase' = "recv" /\ events' = events
  PROVE  Messages'
<1>1. /\ TypeInv /\ Turns /\ Submitting /\ events \in Seq(SimEvent)
      /\ commands \in Seq(StagingCommand) /\ events_to_send \in Seq(StagingCommand)
  BY DEF Messages, TypeInv
<1>2. events' \in Seq(SimEvent)
  BY <1>1, HeadGone
<1>3. TypeInv'
  BY <1>1, <1>2, Formats
     DEF TypeInv, TypeOK, SimTypeOK, LoopTypeOK, ApiTypeOK, JobTypeOK, sim_vars, api_vars, job_vars
<1>4. ToSet(Arrivals') \subseteq ToSet(Arrivals)
  BY <1>1, HeadGone DEF Arrivals, sim_vars
<1>5. /\ phase' # "init" /\ mailbox' = mailbox /\ mailbox = <<>>
      /\ initialised' = initialised /\ ack_of_dynamic_jobs' = ack_of_dynamic_jobs
      /\ job_state' = job_state /\ nb' = nb /\ commands' = commands /\ events_to_send' = events_to_send
  BY <1>1 DEF sim_vars, api_vars, job_vars, Turns
<1>6. /\ initialised' => Begins \notin ToSet(Arrivals')
      /\ ~initialised' => ToSet(Arrivals') \subseteq {Begins}
  BY <1>1, <1>4, <1>5 DEF Turns
<1>7. /\ \A j \in Job : job_state'[j] = "IN_SUBMISSON" => initialised' /\ j \in Dynamic
      /\ ack_of_dynamic_jobs' => nb'["in_submission"] >= Num(job_state', {"IN_SUBMISSON"})
      /\ ~ack_of_dynamic_jobs' => \A d \in Dynamic : Submitted(d) \notin ToSet(Arrivals')
  BY <1>1, <1>4, <1>5 DEF Submitting
<1> QED
  BY <1>1, <1>3, <1>5, <1>6, <1>7, MessagesThen

\* What a request does to the jobs: the next staging job is registered and executed.
LEMMA AskEffect ==
  ASSUME Messages, StorageInv, SchedulerAsks
  PROVE  \E d \in Dynamic :
           /\ next_staging_job_id < Len(StagingJob) /\ d = StagingJob[next_staging_job_id + 1]
           /\ next_staging_job_id' = next_staging_job_id + 1
           /\ DOMAIN current_transfers' = DOMAIN current_transfers \cup {d}
           /\ events_to_send' = Append(Append(events_to_send, Registering(d)), Executing(d))
           /\ job_state' = [job_state EXCEPT ![d] = "IN_SUBMISSON"]
           /\ state' = [state EXCEPT ![d] = "RUNNING"]
           /\ submit_time' = [submit_time EXCEPT ![d] = now]
           /\ nb' = [CountRegistration EXCEPT !["scheduled"] = @ + 1]
           /\ jobs_manually_changed' = jobs_manually_changed
           /\ UNCHANGED <<sim_vars, now, loop_vars>>
           /\ Calling
<1>1. PICK t \in DataTransfer :
        Calling /\ MayAsk /\ ask_data_transfer(t) /\ UNCHANGED <<sim_vars, now, loop_vars>>
  BY DEF SchedulerAsks
<1>2. PICK d : d = StagingJob[next_staging_job_id + 1]
  OBVIOUS
<1>3. d \in Dynamic /\ next_staging_job_id < Len(StagingJob) /\ next_staging_job_id' = next_staging_job_id + 1
  BY <1>2, RequestEffect
<1>4. /\ events_to_send' = events_to_send \o Staging(d)
      /\ job_state' = [job_state EXCEPT ![d] = "IN_SUBMISSON"]
      /\ state' = [state EXCEPT ![d] = "RUNNING"]
      /\ submit_time' = [submit_time EXCEPT ![d] = now]
      /\ nb' = [CountRegistration EXCEPT !["scheduled"] = @ + 1]
      /\ jobs_manually_changed' = jobs_manually_changed
      /\ DOMAIN current_transfers' = DOMAIN current_transfers \cup {d}
  BY <1>1, <1>2 DEF ask_data_transfer, issue_data_staging
<1>5. events_to_send \o Staging(d) = Append(Append(events_to_send, Registering(d)), Executing(d))
  <2>1. PICK q, x, y : q = events_to_send /\ x = Registering(d) /\ y = Executing(d)
    OBVIOUS
  <2>2. q \in Seq(ApiCommand) /\ x \in ApiCommand /\ y \in ApiCommand
    BY <1>3, <2>1, StagingCommands DEF Messages
  <2>3. q \o <<x, y>> = Append(Append(q, x), y)
    BY <2>2
  <2>4. Staging(d) = <<x, y>>
    BY <2>1 DEF Staging, Registering, Executing
  <2> QED
    BY <2>1, <2>3, <2>4
<1> QED
  BY <1>1, <1>2, <1>3, <1>4, <1>5

LEMMA AskMessages ==
  ASSUME Messages, StorageInv, SchedulerAsks
  PROVE  Messages'
<1>1. PICK d \in Dynamic :
        /\ events_to_send' = Append(Append(events_to_send, Registering(d)), Executing(d))
        /\ job_state' = [job_state EXCEPT ![d] = "IN_SUBMISSON"]
        /\ state' = [state EXCEPT ![d] = "RUNNING"]
        /\ submit_time' = [submit_time EXCEPT ![d] = now]
        /\ nb' = [CountRegistration EXCEPT !["scheduled"] = @ + 1]
        /\ jobs_manually_changed' = jobs_manually_changed
        /\ UNCHANGED <<sim_vars, now, loop_vars>> /\ Calling
  BY AskEffect
<1>2. /\ TypeInv /\ Turns /\ Submitting /\ events_to_send \in Seq(StagingCommand)
      /\ job_state \in [Job -> JobState \cup {"NONE"}] /\ state \in [Job -> {"NONE", "RUNNING", "REJECTED"}]
      /\ submit_time \in [Job -> Nat] /\ nb \in [Counter -> Nat] /\ now \in Nat /\ d \in Job
      /\ {"in_submission", "scheduled"} \subseteq Counter
  BY DEF Messages, TypeInv, TypeOK, JobTypeOK, ApiTypeOK, Job, Counter
<1>3. events_to_send' \in Seq(StagingCommand)
  <2>1. Registering(d) \in StagingCommand /\ Executing(d) \in StagingCommand
    BY StagingCommands
  <2> QED
    BY <1>1, <1>2, <2>1, OneMore
<1>4. /\ state' \in [Job -> {"NONE", "RUNNING", "REJECTED"}] /\ submit_time' \in [Job -> Nat]
      /\ job_state' \in [Job -> JobState \cup {"NONE"}]
  BY <1>1, <1>2 DEF JobState
<1>5. initialised
  BY <1>1, <1>2 DEF Calling, Listening, Turns
<1>6. nb' \in [Counter -> Nat] /\ (ack_of_dynamic_jobs => nb'["in_submission"] = nb["in_submission"] + 1)
  <2>1. PICK n : n = CountRegistration
    OBVIOUS
  <2>2. n \in [Counter -> Nat]
    BY <1>2, <2>1, CountType DEF CountRegistration
  <2>3. ack_of_dynamic_jobs => n["in_submission"] = nb["in_submission"] + 1
    BY <1>2, <2>1 DEF CountRegistration, Count
  <2> QED
    BY <1>1, <1>2, <2>1, <2>2, <2>3
<1>7. job_state'[d] = "IN_SUBMISSON" /\ \A k \in Job : k # d => job_state'[k] = job_state[k]
  BY <1>1, <1>2
<1>8. \A j \in Job : job_state'[j] = "IN_SUBMISSON" => initialised /\ j \in Dynamic
  BY <1>2, <1>5, <1>7 DEF Submitting
<1>9. ack_of_dynamic_jobs => nb'["in_submission"] >= Num(job_state', {"IN_SUBMISSON"})
  <2>1. PICK f, g, S : f = job_state /\ g = job_state' /\ S = {"IN_SUBMISSON"}
    OBVIOUS
  <2>2. \A k \in Job : k # d => g[k] = f[k]
    BY <1>7, <2>1
  <2>3. Num(f, S) \in Nat /\ Num(g, S) \in Nat /\ Num(g, S) <= Num(f, S) + 1
    BY <1>2, <2>1, <2>2, Submissions
  <2>4. ack_of_dynamic_jobs => nb["in_submission"] >= Num(f, S)
    BY <1>2, <2>1 DEF Submitting
  <2>5. nb["in_submission"] \in Nat
    BY <1>2
  <2>6. ack_of_dynamic_jobs => nb'["in_submission"] >= Num(g, S)
    BY <1>6, <2>3, <2>4, <2>5
  <2> QED
    BY <2>1, <2>6
<1> QED
  BY <1>1, <1>3, <1>4, <1>6, <1>8, <1>9, CallMessages

\* The other calls add one command, which says nothing new of a staging job.
LEMMA OtherCalls ==
  ASSUME Messages, StorageInv, SchedulerStops \/ SchedulerRejects \/ SchedulerCloses
  PROVE  /\ Messages'
         /\ UNCHANGED <<sim_vars, loop_vars, controller_vars>> /\ phase \in {"handler", "init"}
         /\ \E x \in StagingCommand :
              /\ events_to_send' = Append(events_to_send, x)
              /\ \A d \in Dynamic : Other(d, x) /\ (d \in x.jobs => d \in Staged)
<1>1. /\ TypeInv /\ Submitting /\ events_to_send \in Seq(StagingCommand)
      /\ job_state \in [Job -> JobState \cup {"NONE"}] /\ state \in [Job -> {"NONE", "RUNNING", "REJECTED"}]
      /\ submit_time \in [Job -> Nat] /\ nb \in [Counter -> Nat] /\ "in_submission" \in Counter
  BY DEF Messages, TypeInv, TypeOK, JobTypeOK, ApiTypeOK, Counter
<1>2. /\ UNCHANGED <<sim_vars, now, loop_vars, controller_vars>> /\ phase \in {"handler", "init"}
      /\ jobs_manually_changed' = jobs_manually_changed /\ submit_time' = submit_time
  BY DEF SchedulerStops, SchedulerRejects, SchedulerCloses, stop_all_data_transfers, KillJobs, RejectJobs,
         NotifyRegistrationFinished, Call, job_vars, Calling, Listening
<1>3. PICK S, f : S = {"IN_SUBMISSON"} /\ f = job_state
  OBVIOUS
<1>4. ack_of_dynamic_jobs => nb["in_submission"] >= Num(f, S)
  BY <1>1, <1>3 DEF Submitting
<1>5. \A x \in StagingCommand : Append(events_to_send, x) \in Seq(StagingCommand)
  BY <1>1, OneMore
<1>6. CASE SchedulerStops
  <2>1. PICK K : K = DOMAIN current_transfers
    OBVIOUS
  <2>2. K \subseteq Dynamic /\ K \subseteq Staged
    BY <2>1, FewTransfers DEF StorageInv, Numbered, Staged
  <2>3. /\ job_state' = [j \in Job |-> IF j \in K THEN "IN_KILLING" ELSE f[j]]
        /\ events_to_send' = Append(events_to_send, Killing(K)) /\ state' = state /\ nb' = nb
    BY <1>3, <1>6, <2>1 DEF SchedulerStops, stop_all_data_transfers, KillJobs, Killing
  <2>4. Killing(K) \in StagingCommand /\ Killing(K).jobs = K
    BY <2>2, StagingCommands, CommandFields
  <2>5. Num(f, S) \in Nat /\ Num(job_state', S) \in Nat /\ Num(job_state', S) <= Num(f, S)
    BY <1>3, <2>3, KilledSubmissions
  <2>6. ack_of_dynamic_jobs => nb'["in_submission"] >= Num(job_state', S)
    <3>1. nb["in_submission"] \in Nat
      BY <1>1
    <3> QED
      BY <1>4, <2>3, <2>5, <3>1
  <2>7. \A j \in Job : job_state'[j] = "IN_SUBMISSON" => initialised /\ j \in Dynamic
    BY <1>1, <1>3, <2>3 DEF Submitting
  <2>8. job_state' \in [Job -> JobState \cup {"NONE"}]
    BY <1>1, <1>3, <2>3 DEF JobState
  <2>9. events_to_send' \in Seq(StagingCommand)
    BY <1>5, <2>3, <2>4
  <2>10. Messages'
    BY <1>1, <1>2, <1>3, <2>3, <2>6, <2>7, <2>8, <2>9, CallMessages
  <2>11. \A d \in Dynamic : Other(d, Killing(K)) /\ (d \in Killing(K).jobs => d \in Staged)
    BY <2>2, <2>4, Others
  <2> QED
    BY <1>2, <2>3, <2>4, <2>10, <2>11
<1>7. CASE SchedulerRejects
  <2>1. PICK j \in Static : RejectJobs(<<j>>)
    BY <1>7 DEF SchedulerRejects
  <2>2. j \in Job /\ j \notin Dynamic
    BY ConstantsAssumption DEF ConstantsAssumption, Job
  <2>3. events_to_send \in Seq(ApiCommand)
    BY <1>1 DEF TypeInv
  <2>4. events_to_send' = Append(events_to_send, Rejecting(j))
    BY <2>1, <2>2, <2>3, OneJob DEF RejectJobs
  <2>5. Rejecting(j) \in StagingCommand /\ Rejecting(j).jobs = {j}
    BY StagingCommands, CommandFields
  <2>6. job_state' = job_state /\ state' \in [Job -> {"NONE", "RUNNING", "REJECTED"}]
    BY <1>1, <2>1 DEF RejectJobs
  <2>7. nb' = CountMany("rejected", 1)
    BY <2>1, <2>2, OneJob DEF RejectJobs, CountRejection
  <2>8. nb' \in [Counter -> Nat] /\ nb'["in_submission"] = nb["in_submission"]
    BY <1>1, <2>7, CountType DEF CountMany
  <2>9. events_to_send' \in Seq(StagingCommand)
    BY <1>5, <2>4, <2>5
  <2>10. /\ \A k \in Job : job_state'[k] = "IN_SUBMISSON" => initialised /\ k \in Dynamic
         /\ ack_of_dynamic_jobs => nb'["in_submission"] >= Num(job_state', S)
    BY <1>1, <1>3, <1>4, <2>6, <2>8 DEF Submitting
  <2>11. Messages'
    BY <1>1, <1>2, <1>3, <2>6, <2>8, <2>9, <2>10, CallMessages
  <2>12. \A d \in Dynamic : Other(d, Rejecting(j)) /\ (d \in Rejecting(j).jobs => d \in Staged)
    BY <2>2, <2>5, Others
  <2> QED
    BY <1>2, <2>4, <2>5, <2>11, <2>12
<1>8. CASE SchedulerCloses
  <2>1. events_to_send' = Append(events_to_send, Notice) /\ UNCHANGED <<state, job_vars>>
    BY <1>8 DEF SchedulerCloses, NotifyRegistrationFinished, Call, Notice
  <2>2. job_state' = job_state /\ nb' = nb /\ state' = state
    BY <2>1 DEF job_vars
  <2>3. Notice \in StagingCommand /\ Notice.jobs = {}
    BY StagingCommands DEF Notice, Command
  <2>4. events_to_send' \in Seq(StagingCommand)
    BY <1>5, <2>1, <2>3
  <2>5. /\ \A k \in Job : job_state'[k] = "IN_SUBMISSON" => initialised /\ k \in Dynamic
        /\ ack_of_dynamic_jobs => nb'["in_submission"] >= Num(job_state', S)
    BY <1>1, <1>3, <1>4, <2>2 DEF Submitting
  <2>6. Messages'
    BY <1>1, <1>2, <1>3, <2>2, <2>4, <2>5, CallMessages
  <2>7. \A d \in Dynamic : Other(d, Notice) /\ (d \in Notice.jobs => d \in Staged)
    BY <2>3, Others
  <2> QED
    BY <1>2, <2>1, <2>3, <2>6, <2>7
<1> QED
  BY <1>6, <1>7, <1>8

\* The tags are no part of the messages.
LEMMA TagMessages ==
  ASSUME Messages, SchedulerTags
  PROVE  Messages' /\ UNCHANGED <<sim_vars, loop_vars, api_vars, current_transfers, next_staging_job_id>>
<1>1. UNCHANGED <<sim_vars, now, loop_vars, api_vars, job_vars, current_transfers, next_staging_job_id>>
  BY DEF SchedulerTags, add_tag_on_dataset, remove_tag_on_all_datasets, transfer_vars
<1>2. /\ TypeInv /\ Submitting /\ events_to_send \in Seq(StagingCommand)
      /\ job_state \in [Job -> JobState \cup {"NONE"}] /\ state \in [Job -> {"NONE", "RUNNING", "REJECTED"}]
      /\ submit_time \in [Job -> Nat] /\ nb \in [Counter -> Nat]
  BY DEF Messages, TypeInv, TypeOK, JobTypeOK, ApiTypeOK
<1>3. /\ events_to_send' = events_to_send /\ state' = state /\ jobs_manually_changed' = jobs_manually_changed
      /\ job_state' = job_state /\ submit_time' = submit_time /\ nb' = nb
  BY <1>1 DEF api_vars, job_vars
<1>4. /\ \A k \in Job : job_state'[k] = "IN_SUBMISSON" => initialised /\ k \in Dynamic
      /\ ack_of_dynamic_jobs => nb'["in_submission"] >= Num(job_state', {"IN_SUBMISSON"})
  BY <1>2, <1>3 DEF Submitting
<1>5. Messages'
  BY <1>1, <1>2, <1>3, <1>4, CallMessages
<1> QED
  BY <1>1, <1>5

\* What a message says of the jobs is kept by every step.
LEMMA MessagesStep ==
  ASSUME Messages, StorageInv, [Next]_vars
  PROVE  Messages'
<1>1. CASE LibraryStep
  BY <1>1, SimMessages, TurnMessages, DispatchMessages DEF LibraryStep, Library
<1>2. CASE StagingSubmitted
  BY <1>2, CallbackMessages DEF StagingSubmitted, Acknowledgement, Handling, CallbackReturns
<1>3. ASSUME NEW d \in Dynamic, data_staging_completed(d) PROVE Messages'
  <2>1. /\ phase = "handler" /\ phase' \in {"handler", "exception"} /\ events' = events
        /\ UNCHANGED <<sim_vars, now, initialised, running_simulation, no_more_static_jobs,
                       ack_of_dynamic_jobs, api_vars, job_vars>>
    BY <1>3 DEF data_staging_completed, Completion, Handling
  <2> QED
    BY <2>1, CallbackMessages
<1>4. CASE SchedulerAsks
  BY <1>4, AskMessages
<1>5. CASE SchedulerTags
  BY <1>5, TagMessages
<1>6. CASE SchedulerStops \/ SchedulerRejects \/ SchedulerCloses
  BY <1>6, OtherCalls
<1>7. CASE SchedulerReturns
  <2>1. /\ UNCHANGED <<sim_vars, now, initialised, running_simulation, no_more_static_jobs,
                       ack_of_dynamic_jobs, api_vars, job_vars>>
        /\ \/ phase = "handler" /\ events # <<>> /\ phase' = "events" /\ events' = Tail(events)
           \/ phase = "init" /\ phase' = "recv" /\ events' = events
    BY <1>7 DEF SchedulerReturns, ClientReturn, InitReturns, CallbackReturns
  <2> QED
    BY <2>1, CallbackMessages
<1>8. CASE UNCHANGED vars
  BY <1>8 DEF vars, batsim_vars, sim_vars, loop_vars, api_vars, job_vars, Messages, TypeInv, TypeOK, SimTypeOK,
              LoopTypeOK, ApiTypeOK, JobTypeOK, Turns, Submitting, Arrivals, Num
<1> QED
  BY <1>1, <1>2, <1>3, <1>4, <1>5, <1>6, <1>7, <1>8 DEF Next

\* At first there is one message, that the simulation begins.
LEMMA MessagesInit ==
  ASSUME Init
  PROVE  Messages
<1>1. /\ phase = "recv" /\ mailbox = <<Begins>> /\ commands = <<>> /\ events_to_send = <<>> /\ ~initialised
      /\ job_state = [j \in Job |-> "NONE"] /\ nb = [c \in Counter |-> 0] /\ ack_of_dynamic_jobs = FALSE
      /\ ToSet(mailbox) = {Begins}
  BY DEF Init, BatsimInit, Begins, ToSet
<1>2. TypeInv
  <2>1. mailbox \in Seq(SimEvent) /\ events \in Seq(SimEvent)
    BY <1>1, EventsExist DEF Init, BatsimInit
  <2>2. commands \in Seq(ApiCommand) /\ events_to_send \in Seq(ApiCommand)
    BY <1>1
  <2> QED
    BY <2>1, <2>2, Formats DEF Init, BatsimInit, TypeInv, TypeOK, SimTypeOK, LoopTypeOK, ApiTypeOK, JobTypeOK,
                              JobState
<1>3. Turns
  BY <1>1 DEF Turns, Arrivals
<1>4. Submitting
  <2>1. \A d : Submitted(d) # Begins
    BY EventFields DEF Begins
  <2> QED
    BY <1>1, <2>1 DEF Submitting, Arrivals
<1> QED
  BY <1>1, <1>2, <1>3, <1>4 DEF Messages

-----------------------------------------------------------------------------
\* The staging jobs, while pybatsim acts

\* A step that says nothing new of d.
LEMMA TrackedKept ==
  ASSUME NEW d, Tracked(d), d \in Staged' <=> d \in Staged,
         d \in DOMAIN current_transfers' <=> d \in DOMAIN current_transfers,
         UNCHANGED <<truth, batsim>>, OutKept(d, Departures, Departures'), InKept(d, Arrivals, Arrivals'),
         d \in Staged \/ \A c \in ToSet(Departures') : c \in ToSet(Departures) \/ d \notin c.jobs,
         Handled \cap Completions(d) \subseteq Handled'
  PROVE  Tracked(d)'
<1>1. PICK N, C, t, q, a, s, H : N = Staged /\ C = DOMAIN current_transfers /\ t = truth[d] /\ q = Departures
                                 /\ a = Arrivals /\ s = batsim /\ H = Handled
  OBVIOUS
<1>2. PICK M, D, r, b, G : M = Staged' /\ D = DOMAIN current_transfers' /\ r = Departures' /\ b = Arrivals'
                           /\ G = Handled'
  OBVIOUS
<1>3. Way(d, N, C, t, q, a, s, H)
  BY <1>1 DEF Tracked
<1>4. /\ d \in M <=> d \in N
      /\ d \in D <=> d \in C
      /\ OutKept(d, q, r) /\ InKept(d, a, b) /\ H \cap Completions(d) \subseteq G
      /\ d \in N \/ \A c \in ToSet(r) : c \in ToSet(q) \/ d \notin c.jobs
  BY <1>1, <1>2
<1>5. Way(d, M, D, t, r, b, s, G)
  BY <1>3, <1>4, WayKept
<1> QED
  BY <1>1, <1>2, <1>5, TrackedThen

\* The message is taken, or the process gives up, or it replies.
LEMMA TurnTracked ==
  ASSUME Messages, Receive \/ Timeout \/ SendReply, NEW d \in Dynamic, Tracked(d),
         UNCHANGED <<current_transfers, next_staging_job_id>>
  PROVE  Tracked(d)'
<1>1. /\ Turns /\ commands \in Seq(ApiCommand) /\ events_to_send \in Seq(ApiCommand)
      /\ mailbox \in Seq(SimEvent) /\ events \in Seq(SimEvent)
  BY StagingCommands DEF Messages, TypeInv
<1>2. Arrivals' = Arrivals /\ Departures' = Departures /\ Handled = {} /\ truth' = truth
  <2>1. CASE Receive
    <3>1. /\ phase = "recv" /\ phase' = "events" /\ commands = <<>> /\ events' = mailbox /\ events_to_send' = <<>>
          /\ truth' = truth
      BY <2>1 DEF Receive
    <3> QED
      BY <3>1 DEF Arrivals, Departures, Handled
  <2>2. CASE Timeout
    <3>1. /\ phase = "recv" /\ phase' = "deadlock" /\ commands' = commands /\ mailbox' = mailbox
          /\ truth' = truth
      BY <2>2 DEF Timeout, sim_vars
    <3> QED
      BY <3>1 DEF Arrivals, Departures, Handled
  <2>3. CASE SendReply
    <3>1. /\ phase = "handler" /\ phase' \in {"init", "ended", "recv"} /\ commands' = events_to_send
          /\ mailbox' = mailbox /\ events = <<>> /\ truth' = truth
      BY <2>3 DEF SendReply, Reply
    <3>2. mailbox = <<>>
      BY <1>1, <3>1 DEF Turns
    <3> QED
      BY <3>1, <3>2 DEF Arrivals, Departures, Handled
  <2> QED
    BY <2>1, <2>2, <2>3
<1>3. batsim' = batsim \/ (batsim # "aborted" /\ batsim' # "aborted")
  BY DEF Receive, Timeout, SendReply, sim_vars
<1>4. Staged' = Staged
  BY DEF Staged
<1>5. PICK N, C, t, q, a, s, u, G : N = Staged /\ C = DOMAIN current_transfers /\ t = truth[d] /\ q = Departures
                                   /\ a = Arrivals /\ s = batsim /\ u = batsim' /\ G = Handled'
  OBVIOUS
<1>6. Way(d, N, C, t, q, a, s, {}) /\ q \in Seq(ApiCommand) /\ a \in Seq(SimEvent)
  BY <1>1, <1>2, <1>5 DEF Tracked, Departures, Arrivals
<1>7. OutKept(d, q, q) /\ InKept(d, a, a) /\ {} \cap Completions(d) \subseteq G
  BY <1>6, OutSteps, InSteps
<1>8. s = "aborted" => u = "aborted"
  BY <1>3, <1>5
<1>9. Way(d, N, C, t, q, a, u, G)
  BY <1>6, <1>7, <1>8, WayKept
<1> QED
  BY <1>2, <1>4, <1>5, <1>9, TrackedThen

\* The event that is dispatched is then the one that is handled; one that is dropped
\* acknowledges a kill.
LEMMA DispatchTracked ==
  ASSUME Messages, Dispatch, phase' # "exception", NEW d \in Dynamic, Tracked(d),
         UNCHANGED <<current_transfers, next_staging_job_id>>
  PROVE  Tracked(d)'
<1>1. /\ phase = "events" /\ phase' \in {"events", "handler"}
      /\ Arrivals = events /\ Arrivals' = events'
      /\ UNCHANGED <<commands, events_to_send, truth, batsim>>
      /\ events' = events \/ (events # <<>> /\ events' = Tail(events) /\ Head(events).type = "JOB_KILLED")
  BY DispatchQueues
<1>2. Departures = events_to_send /\ Departures' = Departures /\ Handled = {}
  BY <1>1 DEF Departures, Handled
<1>3. Staged' = Staged
  BY DEF Staged
<1>4. PICK q, a, b : q = Departures /\ a = Arrivals /\ b = Arrivals'
  OBVIOUS
<1>5. q \in Seq(ApiCommand) /\ a \in Seq(SimEvent)
  BY <1>1, <1>2, <1>4 DEF Messages, TypeInv
<1>6. OutKept(d, q, q) /\ InKept(d, a, a)
  BY <1>5, OutSteps, InSteps
<1>7. ASSUME a # <<>>, b = Tail(a), Head(a).type = "JOB_KILLED" PROVE InKept(d, a, b)
  <2>1. Head(a) \notin Completions(d)
    BY <1>7, OtherEvents
  <2> QED
    BY <1>5, <1>7, <2>1, InSteps
<1>8. InKept(d, a, b)
  BY <1>1, <1>4, <1>6, <1>7
<1>9. OutKept(d, Departures, Departures') /\ InKept(d, Arrivals, Arrivals')
  BY <1>2, <1>4, <1>6, <1>8
<1>10. \A c \in ToSet(Departures') : c \in ToSet(Departures) \/ d \notin c.jobs
  BY <1>2
<1> QED
  BY <1>1, <1>2, <1>3, <1>9, <1>10, TrackedKept

\* A callback returns, after the report of a staging job was handled.
LEMMA CallbackTracked ==
  ASSUME Messages, NEW d \in Dynamic, Tracked(d), UNCHANGED <<current_transfers, next_staging_job_id>>,
         phase = "handler", events # <<>>, phase' = "events", events' = Tail(events),
         UNCHANGED <<sim_vars, api_vars>>,
         Head(events) \in Completions(d) => d \notin DOMAIN current_transfers
  PROVE  Tracked(d)'
<1>1. PICK N, C, t, q, a, s, H : N = Staged /\ C = DOMAIN current_transfers /\ t = truth[d] /\ q = events_to_send
                                 /\ a = events /\ s = batsim /\ H = {Head(events)}
  OBVIOUS
<1>2. /\ Departures = events_to_send /\ Departures' = events_to_send /\ Arrivals = events /\ Arrivals' = Tail(events)
      /\ Handled = {Head(events)} /\ Handled' = {}
  BY DEF Departures, Arrivals, Handled, api_vars
<1>3. Way(d, N, C, t, q, a, s, H) /\ a \in Seq(SimEvent)
  BY <1>1, <1>2 DEF Tracked, Messages, TypeInv
<1>4. a # <<>> /\ (Head(a) \in Completions(d) => d \notin C) /\ H \subseteq {Head(a)}
  BY <1>1
<1>5. Way(d, N, C, t, q, Tail(a), s, {})
  BY <1>3, <1>4, WayReturned
<1>6. Staged' = Staged /\ DOMAIN current_transfers' = DOMAIN current_transfers /\ truth' = truth /\ batsim' = batsim
  BY DEF Staged, sim_vars
<1> QED
  BY <1>1, <1>2, <1>5, <1>6, TrackedThen

\* The report of one transfer is handled: that transfer is forgotten.
LEMMA FinishedTracked ==
  ASSUME Messages, StorageInv, NEW e \in Dynamic, data_staging_completed(e), phase' # "exception",
         NEW d \in Dynamic, Tracked(d)
  PROVE  Tracked(d)'
<1>1. /\ phase = "handler" /\ phase' = "handler" /\ events # <<>> /\ events' = events
      /\ Head(events).type = "JOB_COMPLETED" /\ e \in Head(events).jobs /\ e \in DOMAIN current_transfers
      /\ current_transfers' = Restrict(current_transfers, DOMAIN current_transfers \ {e})
      /\ UNCHANGED <<sim_vars, api_vars, next_staging_job_id>>
  BY DEF data_staging_completed, Completion, Handling
<1>2. Head(events) \in Completions(e)
  <2>1. Head(events) \in SimEvent
    BY <1>1, HeadGone DEF Messages, TypeInv
  <2>2. PICK j \in Job, o \in Outcomes \cup {"COMPLETED_KILLED"} : Head(events) = JobCompleted(j, o)
    BY <1>1, <2>1, EventKinds
  <2>3. Head(events).jobs = {j}
    BY <2>2, EventFields
  <2>4. j = e
    BY <1>1, <2>3
  <2> QED
    BY <2>2, <2>4 DEF Completions
<1>3. /\ Departures = events_to_send /\ Departures' = events_to_send /\ Arrivals = events /\ Arrivals' = events
      /\ Handled = {Head(events)} /\ Handled' = {Head(events)}
  BY <1>1 DEF Departures, Arrivals, Handled, api_vars
<1>4. Staged' = Staged /\ DOMAIN current_transfers' = DOMAIN current_transfers \ {e}
      /\ truth' = truth /\ batsim' = batsim
  BY <1>1 DEF Staged, sim_vars, Restrict
<1>5. events_to_send \in Seq(ApiCommand) /\ events \in Seq(SimEvent)
  BY DEF Messages, TypeInv
<1>6. CASE d = e
  <2>1. PICK N, C, t, q, a, s, H, D :
          /\ N = Staged /\ C = DOMAIN current_transfers /\ t = truth[d] /\ q = events_to_send
          /\ a = events /\ s = batsim /\ H = {Head(events)} /\ D = DOMAIN current_transfers \ {e}
    OBVIOUS
  <2>2. Way(d, N, C, t, q, a, s, H) /\ a \in Seq(SimEvent)
    BY <1>3, <1>5, <2>1 DEF Tracked
  <2>3. a # <<>> /\ Head(a) \in Completions(d) /\ H = {Head(a)} /\ d \in C /\ d \notin D
    BY <1>1, <1>2, <1>6, <2>1
  <2>4. Way(d, N, D, t, q, a, s, H)
    BY <2>2, <2>3, WayFinished
  <2> QED
    BY <1>3, <1>4, <2>1, <2>4, TrackedThen
<1>7. CASE d # e
  <2>1. OutKept(d, Departures, Departures') /\ InKept(d, Arrivals, Arrivals')
    BY <1>3, <1>5, OutSteps, InSteps
  <2>2. \A c \in ToSet(Departures') : c \in ToSet(Departures) \/ d \notin c.jobs
    BY <1>3
  <2>3. Handled \cap Completions(d) \subseteq Handled'
    BY <1>3
  <2> QED
    BY <1>4, <1>7, <2>1, <2>2, <2>3, TrackedKept
<1> QED
  BY <1>6, <1>7

LEMMA OutKeptTwice ==
  ASSUME NEW d, NEW p, NEW q, NEW r, OutKept(d, p, q), OutKept(d, q, r)
  PROVE  OutKept(d, p, r)
  BY DEF OutKept

\* A transfer is asked for: its staging job is new.
LEMMA AskTracked ==
  ASSUME Messages, StorageInv, SchedulerAsks, phase = "handler", NEW d \in Dynamic, Tracked(d)
  PROVE  Tracked(d)'
<1>1. PICK e \in Dynamic :
        /\ next_staging_job_id < Len(StagingJob) /\ e = StagingJob[next_staging_job_id + 1]
        /\ next_staging_job_id' = next_staging_job_id + 1
        /\ DOMAIN current_transfers' = DOMAIN current_transfers \cup {e}
        /\ events_to_send' = Append(Append(events_to_send, Registering(e)), Executing(e))
        /\ UNCHANGED <<sim_vars, now, loop_vars>>
  BY AskEffect
<1>2. /\ Departures = events_to_send /\ Departures' = events_to_send' /\ Arrivals' = Arrivals /\ Handled' = Handled
      /\ truth' = truth /\ batsim' = batsim
  BY <1>1 DEF Departures, Arrivals, Handled, sim_vars, loop_vars
<1>3. Staged' = Staged \cup {e} /\ e \notin Staged
  <2>1. /\ next_staging_job_id \in Nat /\ StagingJob \in Seq(Dynamic) /\ Len(StagingJob) \in Nat
        /\ IsInjective(StagingJob) /\ DOMAIN StagingJob = 1 .. Len(StagingJob)
    BY StorageAssumption, LenProperties DEF StorageAssumption, StorageInv, Numbered
  <2>2. PICK n : n = next_staging_job_id
    OBVIOUS
  <2>3. Staged = {StagingJob[i] : i \in 1 .. n} /\ Staged' = {StagingJob[i] : i \in 1 .. n + 1}
    BY <1>1, <2>2 DEF Staged
  <2>4. 1 .. n + 1 = 1 .. n \cup {n + 1} /\ n + 1 \in 1 .. Len(StagingJob)
        /\ \A i \in 1 .. n : i \in 1 .. Len(StagingJob) /\ i # n + 1
    BY <1>1, <2>1, <2>2
  <2>5. e \notin Staged
    BY <1>1, <2>1, <2>2, <2>3, <2>4 DEF IsInjective
  <2> QED
    BY <1>1, <2>2, <2>3, <2>4, <2>5
<1>4. PICK q, a, x, y, r : q = events_to_send /\ a = Arrivals /\ x = Registering(e) /\ y = Executing(e)
                           /\ r = Append(Append(q, x), y)
  OBVIOUS
<1>5. /\ q \in Seq(ApiCommand) /\ a \in Seq(SimEvent) /\ x \in ApiCommand /\ y \in ApiCommand
  BY <1>4, StagingCommands DEF Messages, TypeInv, Arrivals
<1>6. /\ Append(q, x) \in Seq(ApiCommand)
      /\ ToSet(Append(q, x)) = ToSet(q) \cup {x} /\ ToSet(r) = ToSet(q) \cup {x, y}
  <2>1. Append(q, x) \in Seq(ApiCommand) /\ ToSet(Append(q, x)) = ToSet(q) \cup {x}
    BY <1>5, OneMore
  <2>2. PICK p : p = Append(q, x)
    OBVIOUS
  <2>3. p \in Seq(ApiCommand) /\ r = Append(p, y) /\ y \in ApiCommand
    BY <1>4, <1>5, <2>1, <2>2
  <2>4. ToSet(r) = ToSet(p) \cup {y}
    BY <2>3, OneMore
  <2> QED
    BY <2>1, <2>2, <2>4
<1>7. CASE d = e
  <2>1. PICK N, C, t, s, H, M, D :
          /\ N = Staged /\ C = DOMAIN current_transfers /\ t = truth[d] /\ s = batsim /\ H = Handled
          /\ M = Staged \cup {e} /\ D = DOMAIN current_transfers \cup {e}
    OBVIOUS
  <2>2. Way(d, N, C, t, q, a, s, H) /\ d \notin N /\ d \in M /\ d \in D
    BY <1>2, <1>3, <1>4, <1>7, <2>1 DEF Tracked
  <2>3. r = Asked(q, d) /\ q \in Seq(ApiCommand)
    BY <1>4, <1>5, <1>7 DEF Asked
  <2>4. Way(d, M, D, t, r, a, s, H)
    BY <2>2, <2>3, WayAsked
  <2> QED
    BY <1>1, <1>2, <1>3, <1>4, <2>1, <2>4, TrackedThen
<1>8. CASE d # e
  <2>1. Other(d, x) /\ Other(d, y) /\ d \notin x.jobs /\ d \notin y.jobs
    <3>1. x.jobs = {e} /\ y.jobs = {e}
      BY <1>4, CommandFields
    <3> QED
      BY <1>4, <1>8, <3>1, Others
  <2>2. OutKept(d, q, Append(q, x))
    BY <1>5, <2>1, OutSteps
  <2>3. OutKept(d, Append(q, x), r)
    BY <1>4, <1>5, <1>6, <2>1, OutSteps
  <2>4. OutKept(d, q, r) /\ InKept(d, a, a)
    BY <1>5, <2>2, <2>3, OutKeptTwice, InSteps
  <2>5. OutKept(d, Departures, Departures') /\ InKept(d, Arrivals, Arrivals')
    BY <1>1, <1>2, <1>4, <2>4
  <2>6. \A c \in ToSet(Departures') : c \in ToSet(Departures) \/ d \notin c.jobs
    BY <1>1, <1>2, <1>4, <1>6, <2>1
  <2> QED
    BY <1>1, <1>2, <1>3, <1>8, <2>5, <2>6, TrackedKept
<1> QED
  BY <1>7, <1>8

\* No other call is about the start of a staging job.
LEMMA CallTracked ==
  ASSUME Messages, StorageInv, SchedulerStops \/ SchedulerRejects \/ SchedulerCloses, phase = "handler",
         NEW d \in Dynamic, Tracked(d)
  PROVE  Tracked(d)'
<1>1. PICK x \in StagingCommand :
        /\ UNCHANGED <<sim_vars, loop_vars, controller_vars>>
        /\ events_to_send' = Append(events_to_send, x) /\ Other(d, x) /\ (d \in x.jobs => d \in Staged)
  BY OtherCalls
<1>2. /\ Departures = events_to_send /\ Departures' = events_to_send' /\ Arrivals' = Arrivals /\ Handled' = Handled
      /\ truth' = truth /\ batsim' = batsim /\ Staged' = Staged /\ current_transfers' = current_transfers
  BY <1>1 DEF Departures, Arrivals, Handled, sim_vars, loop_vars, controller_vars, transfer_vars, Staged
<1>3. PICK q, a, r : q = events_to_send /\ a = Arrivals /\ r = Append(q, x)
  OBVIOUS
<1>4. q \in Seq(ApiCommand) /\ a \in Seq(SimEvent) /\ x \in ApiCommand
  BY <1>3, StagingCommands DEF Messages, TypeInv, Arrivals
<1>5. OutKept(d, q, r) /\ InKept(d, a, a) /\ ToSet(r) = ToSet(q) \cup {x}
  <2>1. InKept(d, a, a) /\ ToSet(r) = ToSet(q) \cup {x}
    BY <1>3, <1>4, InSteps, OneMore
  <2>2. OutKept(d, q, Append(q, x))
    BY <1>1, <1>4, OutSteps
  <2> QED
    BY <1>3, <2>1, <2>2
<1>6. OutKept(d, Departures, Departures') /\ InKept(d, Arrivals, Arrivals')
  BY <1>1, <1>2, <1>3, <1>5
<1>7. d \in Staged \/ \A c \in ToSet(Departures') : c \in ToSet(Departures) \/ d \notin c.jobs
  BY <1>1, <1>2, <1>3, <1>5
<1> QED
  BY <1>2, <1>6, <1>7, TrackedKept

\* The tags are not about the staging jobs.
LEMMA TagTracked ==
  ASSUME Messages, SchedulerTags, NEW d \in Dynamic, Tracked(d)
  PROVE  Tracked(d)'
<1>1. UNCHANGED <<sim_vars, loop_vars, api_vars, current_transfers, next_staging_job_id>>
  BY TagMessages
<1>2. /\ Departures' = Departures /\ Arrivals' = Arrivals /\ Handled' = Handled
      /\ truth' = truth /\ batsim' = batsim /\ Staged' = Staged
  BY <1>1 DEF Departures, Arrivals, Handled, sim_vars, loop_vars, api_vars, Staged
<1>3. Departures \in Seq(ApiCommand) /\ Arrivals \in Seq(SimEvent)
  BY DEF Messages, TypeInv, Departures, Arrivals
<1>4. OutKept(d, Departures, Departures') /\ InKept(d, Arrivals, Arrivals')
  BY <1>2, <1>3, OutSteps, InSteps
<1>5. \A c \in ToSet(Departures') : c \in ToSet(Departures) \/ d \notin c.jobs
  BY <1>2
<1> QED
  BY <1>1, <1>2, <1>4, <1>5, TrackedKept

\* Once the handling of an event was cut short, nothing more happens.
LEMMA CutShort ==
  ASSUME StorageInv, [Next]_vars, phase' # "exception"
  PROVE  phase # "exception"
<1>1. Aside => phase # "exception"
  BY DEF Aside
<1>2. (\E d \in Dynamic : data_staging_completed(d)) => phase # "exception"
  BY DEF data_staging_completed, Completion, Handling
<1>3. SchedulerAsks \/ SchedulerTags => phase # "exception"
  BY DEF SchedulerAsks, SchedulerTags, Calling, Listening
<1> QED
  BY <1>1, <1>2, <1>3, StepKinds

\* Every step keeps a staging job on its way.
LEMMA TrackedStep ==
  ASSUME ~InitCalls, Messages, StorageInv, [Next]_vars, phase' # "exception", NEW d \in Dynamic, Tracked(d)
  PROVE  Tracked(d)'
<1>1. CASE LibraryStep
  BY <1>1, SimTracked, TurnTracked, DispatchTracked DEF LibraryStep, Library
<1>2. CASE StagingSubmitted
  <2>1. /\ phase = "handler" /\ events # <<>> /\ phase' = "events" /\ events' = Tail(events)
        /\ UNCHANGED <<sim_vars, api_vars, current_transfers, next_staging_job_id>>
        /\ Head(events).type = "JOB_SUBMITTED"
    BY <1>2 DEF StagingSubmitted, Acknowledgement, Handling, CallbackReturns, controller_vars, transfer_vars
  <2>2. Head(events) \notin Completions(d)
    BY <2>1, OtherEvents
  <2> QED
    BY <2>1, <2>2, CallbackTracked
<1>3. CASE \E e \in Dynamic : data_staging_completed(e)
  BY <1>3, FinishedTracked
<1>4. CASE SchedulerAsks \/ SchedulerTags \/ SchedulerStops \/ SchedulerRejects \/ SchedulerCloses
  <2>1. phase = "handler"
    BY <1>4 DEF SchedulerAsks, SchedulerTags, SchedulerStops, SchedulerRejects, SchedulerCloses, Calling, Listening
  <2> QED
    BY <1>4, <2>1, AskTracked, TagTracked, CallTracked
<1>5. CASE SchedulerReturns
  <2>1. /\ UNCHANGED <<sim_vars, api_vars, current_transfers, next_staging_job_id>> /\ ~Completion
        /\ \/ phase = "handler" /\ events # <<>> /\ phase' = "events" /\ events' = Tail(events)
           \/ phase = "init" /\ phase' = "recv" /\ events' = events
    BY <1>5 DEF SchedulerReturns, ClientReturn, InitReturns, CallbackReturns, controller_vars, transfer_vars
  <2>2. CASE phase = "handler"
    <3>1. Head(events) \in Completions(d) => d \notin DOMAIN current_transfers
      <4> SUFFICES ASSUME Head(events) \in Completions(d), d \in DOMAIN current_transfers PROVE FALSE
        OBVIOUS
      <4>1. Head(events).type = "JOB_COMPLETED" /\ Head(events).jobs = {d}
        BY OtherEvents
      <4> QED
        BY <2>1, <2>2, <4>1 DEF Completion, Handling
    <3> QED
      BY <2>1, <2>2, <3>1, CallbackTracked
  <2>3. CASE phase = "init"
    <3>1. /\ phase' = "recv" /\ commands' = commands /\ mailbox' = mailbox
          /\ truth' = truth /\ batsim' = batsim
      BY <2>1, <2>3 DEF sim_vars
    <3>2. Departures' = Departures /\ Arrivals' = Arrivals /\ Handled' = Handled /\ Staged' = Staged
      BY <2>1, <2>3, <3>1 DEF Departures, Arrivals, Handled, Staged
    <3>3. Departures \in Seq(ApiCommand) /\ Arrivals \in Seq(SimEvent)
      BY DEF Messages, TypeInv, Departures, Arrivals
    <3>4. OutKept(d, Departures, Departures') /\ InKept(d, Arrivals, Arrivals')
      BY <3>2, <3>3, OutSteps, InSteps
    <3>5. \A c \in ToSet(Departures') : c \in ToSet(Departures) \/ d \notin c.jobs
      BY <3>2
    <3> QED
      BY <2>1, <3>1, <3>2, <3>4, <3>5, TrackedKept
  <2> QED
    BY <2>1, <2>2, <2>3
<1>6. CASE UNCHANGED vars
  BY <1>6 DEF vars, batsim_vars, sim_vars, loop_vars, api_vars, controller_vars, transfer_vars,
              Tracked, Departures, Arrivals, Handled, Staged, Way, AtMostOne, Preceded
<1> QED
  BY <1>1, <1>2, <1>3, <1>4, <1>5, <1>6 DEF Next

\* At first none is numbered.
LEMMA TrackingInit ==
  ASSUME Init, NEW d \in Dynamic
  PROVE  Tracked(d)
<1>1. /\ phase = "recv" /\ mailbox = <<Begins>> /\ commands = <<>> /\ truth[d] = "absent"
      /\ DOMAIN current_transfers = {} /\ next_staging_job_id = 0
  BY DEF Init, BatsimInit, Begins, Job
<1>2. Departures = <<>> /\ Arrivals = <<Begins>> /\ Handled = {} /\ Staged = {}
  BY <1>1 DEF Departures, Arrivals, Handled, Staged
<1>3. ToSet(Departures) = {} /\ ToSet(Arrivals) = {Begins}
  BY <1>2 DEF ToSet
<1>4. ToSet(Arrivals) \cap Completions(d) = {}
  BY <1>3, OtherEvents DEF Begins
<1>5. Departures \in Seq(ApiCommand) /\ Arrivals \in Seq(SimEvent)
  BY <1>2, EventsExist
<1>6. AtMostOne(Arrivals, Completions(d))
  BY <1>4, <1>5, Members
<1>7. /\ AtMostOne(Departures, {Executing(d)}) /\ AtMostOne(Departures, {Registering(d)})
      /\ Preceded(Departures, Executing(d), Registering(d))
  BY <1>3, <1>5, Members
<1> QED
  BY <1>1, <1>2, <1>3, <1>4, <1>6, <1>7 DEF Tracked, Way

-----------------------------------------------------------------------------
\* No transfer is lost or forgotten

\* What a transfer reserves is never negative.
LEMMA ReservedIsNat ==
  ASSUME NEW C, IsFiniteSet(DOMAIN C), \A d \in DOMAIN C : C[d] \in DataTransfer, NEW s
  PROVE  ReservedBy(C, s) \in Nat
<1> DEFINE f == [d \in DOMAIN C |-> Size[C[d].dataset_id]]
           S == {d \in DOMAIN C : C[d].dest_id = s}
<1>1. IsFiniteSet(S) /\ \A d \in S : f[d] \in Nat
  BY FS_Subset, StorageAssumption DEF StorageAssumption, DataTransfer
<1>2. ReservedBy(C, s) = SumFunctionOnSet(f, S)
  BY DEF ReservedBy
<1> HIDE DEF f, S
<1> QED
  BY <1>1, <1>2, SumStep

ReservedNat == reserved_space \in [StorageId -> Nat]

LEMMA ReservedNatStep ==
  ASSUME StorageInv, ReservedNat, [Next]_vars
  PROVE  ReservedNat'
<1>1. CASE phase' # "exception"
  <2>1. StorageInv'
    BY StorageNext
  <2>2. Numbered' /\ Reserved'
    BY <2>1 DEF StorageInv
  <2>3. IsFiniteSet(DOMAIN current_transfers')
    <3>1. Numbered => IsFiniteSet(DOMAIN current_transfers)
      BY FewTransfers
    <3>2. \/ current_transfers' = current_transfers
          \/ \E d \in Dynamic : data_staging_completed(d)
          \/ SchedulerAsks
      BY StepKinds, TagEffect DEF Aside
    <3>3. IsFiniteSet(DOMAIN current_transfers)
      BY <3>1 DEF StorageInv
    <3>4. ASSUME NEW d \in Dynamic, data_staging_completed(d) PROVE IsFiniteSet(DOMAIN current_transfers')
      <4>1. DOMAIN current_transfers' \subseteq DOMAIN current_transfers
        BY <3>4 DEF data_staging_completed, Restrict
      <4> QED
        BY <3>3, <4>1, FS_Subset
    <3>5. ASSUME SchedulerAsks PROVE IsFiniteSet(DOMAIN current_transfers')
      <4>1. PICK d : DOMAIN current_transfers' = DOMAIN current_transfers \cup {d}
        BY <3>5, RequestEffect
      <4> QED
        BY <3>3, <4>1, FS_AddElement
    <3> QED
      BY <3>2, <3>3, <3>4, <3>5
  <2>4. PICK C : C = current_transfers'
    OBVIOUS
  <2>5. IsFiniteSet(DOMAIN C) /\ \A d \in DOMAIN C : C[d] \in DataTransfer
    BY <2>2, <2>3, <2>4 DEF Numbered, DataTransfer
  <2>6. \A s \in StorageId : ReservedBy(C, s) \in Nat
    BY <2>5, ReservedIsNat
  <2>7. /\ reserved_space' \in [StorageId -> Int]
        /\ \A s \in StorageId : reserved_space'[s] = ReservedBy(C, s)
    BY <1>1, <2>2, <2>4 DEF Reserved, ReservedBy
  <2> QED
    BY <2>6, <2>7 DEF ReservedNat
<1>2. CASE phase' = "exception"
  <2>1. ASSUME NEW d \in Dynamic, data_staging_completed(d) PROVE reserved_space' = reserved_space
    BY <1>2, <2>1 DEF data_staging_completed, Completion, Handling, storage_vars
  <2>2. Aside => reserved_space' = reserved_space
    BY DEF Aside, storage_vars
  <2>3. ASSUME SchedulerAsks \/ SchedulerTags PROVE FALSE
    BY <1>2, <2>3 DEF SchedulerAsks, SchedulerTags, Calling, Listening, loop_vars
  <2> QED
    BY <2>1, <2>2, <2>3, StepKinds DEF ReservedNat
<1> QED
  BY <1>1, <1>2

LEMMA MessagesInvariant == Spec => [](StorageInv /\ Messages /\ ReservedNat)
<1>1. Init => StorageInv /\ Messages /\ ReservedNat
  BY StorageInit, MessagesInit DEF Init, ReservedNat
<1>2. StorageInv /\ Messages /\ ReservedNat /\ [Next]_vars => (StorageInv /\ Messages /\ ReservedNat)'
  BY StorageNext, MessagesStep, ReservedNatStep
<1> QED
  BY <1>1, <1>2, PTL DEF Spec

\* Every variable of the library and of the controller keeps its type: no space is
\* ever negative, and no counter, though a staging job is counted by the controller's
\* own calls and its acknowledgement by the library.
THEOREM StorageTypes == Spec => []StorageTypeOK
<1>1. StorageInv /\ Messages /\ ReservedNat => StorageTypeOK
  <2> SUFFICES ASSUME StorageInv, Messages, ReservedNat PROVE StorageTypeOK
    OBVIOUS
  <2>1. DOMAIN current_transfers \subseteq Dynamic
    BY FewTransfers DEF StorageInv
  <2>2. Range(current_transfers) \subseteq DataTransfer
    BY DEF StorageInv, Numbered, Range
  <2> QED
    BY <2>1, <2>2 DEF StorageInv, Clocks, Stored, Numbered, Messages, TypeInv, ReservedNat, StorageTypeOK
<1> QED
  BY <1>1, MessagesInvariant, PTL

\* While pybatsim waits, the controller knows of exactly the transfers whose staging
\* jobs are still to be executed, run, or are reported: none is lost or forgotten,
\* unless a transfer is asked for before the simulator has had its first reply.
THEOREM TransfersAreTracked ==
  ASSUME ~InitCalls
  PROVE  Spec => []TransfersTracked
<1>1. Init => Tracking
  BY TrackingInit DEF Tracking
<1>2. StorageInv /\ Messages /\ Tracking /\ [Next]_vars => Tracking'
  <2> SUFFICES ASSUME StorageInv, Messages, Tracking, [Next]_vars, phase' # "exception", NEW d \in Dynamic
               PROVE  Tracked(d)'
    BY DEF Tracking
  <2>1. phase # "exception"
    BY CutShort
  <2>2. Tracked(d)
    BY <2>1 DEF Tracking
  <2> QED
    BY <2>2, TrackedStep
<1>3. StorageInv /\ Messages /\ Tracking => TransfersTracked
  <2> SUFFICES ASSUME Messages, Tracking, phase = "recv", NEW d \in Dynamic
               PROVE  d \in DOMAIN current_transfers <=>
                        \/ Mentions(commands, d) /\ truth[d] \in {"absent", "queued"}
                        \/ truth[d] = "running"
                        \/ \E i \in DOMAIN mailbox : mailbox[i].type = "JOB_COMPLETED" /\ d \in mailbox[i].jobs
    BY DEF TransfersTracked
  <2>1. PICK N, C, t, s : N = Staged /\ C = DOMAIN current_transfers /\ t = truth[d] /\ s = batsim
    OBVIOUS
  <2>2. Way(d, N, C, t, commands, mailbox, s, {})
    <3>1. Departures = commands /\ Arrivals = mailbox /\ Handled = {}
      BY DEF Departures, Arrivals, Handled
    <3>2. Tracked(d)
      BY DEF Tracking
    <3> QED
      BY <2>1, <3>1, <3>2 DEF Tracked
  <2>3. t \in {"absent", "queued", "running", "changed", "done", "rejected"}
    BY <2>1 DEF Messages, TypeInv, TypeOK, SimTypeOK, Job
  <2>4. mailbox \in Seq(SimEvent) /\ commands \in Seq(ApiCommand)
    BY DEF Messages, TypeInv
  <2>5. (\E i \in DOMAIN mailbox : mailbox[i].type = "JOB_COMPLETED" /\ d \in mailbox[i].jobs)
        <=> ToSet(mailbox) \cap Completions(d) # {}
    <3>1. ASSUME NEW i \in DOMAIN mailbox, mailbox[i].type = "JOB_COMPLETED", d \in mailbox[i].jobs
          PROVE  mailbox[i] \in ToSet(mailbox) \cap Completions(d)
      <4>1. mailbox[i] \in SimEvent
        BY <2>4, ElementOfSeq, LenProperties
      <4>2. PICK j \in Job, o \in Outcomes \cup {"COMPLETED_KILLED"} : mailbox[i] = JobCompleted(j, o)
        BY <3>1, <4>1, EventKinds
      <4>3. mailbox[i].jobs = {j}
        BY <4>2, EventFields
      <4>4. j = d
        BY <3>1, <4>3
      <4> QED
        BY <4>2, <4>4 DEF Completions, ToSet
    <3>2. ASSUME NEW e \in ToSet(mailbox) \cap Completions(d)
          PROVE  \E i \in DOMAIN mailbox : mailbox[i].type = "JOB_COMPLETED" /\ d \in mailbox[i].jobs
      <4>1. e.type = "JOB_COMPLETED" /\ e.jobs = {d}
        BY OtherEvents
      <4>2. PICK i \in DOMAIN mailbox : mailbox[i] = e
        BY DEF ToSet
      <4> QED
        BY <4>1, <4>2
    <3> QED
      BY <3>1, <3>2
  <2>6. Executing(d) \in ToSet(commands) => Mentions(commands, d)
    BY CommandFields DEF Mentions, ToSet
  <2>7. Mentions(commands, d) => d \in N
    BY <2>2 DEF Way, Mentions, ToSet
  <2>8. d \in C <=> \/ Mentions(commands, d) /\ t \in {"absent", "queued"}
                    \/ t = "running"
                    \/ ToSet(mailbox) \cap Completions(d) # {}
    <3>1. d \in C /\ t \in {"absent", "queued"} => Mentions(commands, d)
      BY <2>2, <2>6 DEF Way
    <3>2. Mentions(commands, d) /\ t \in {"absent", "queued"} => d \in C
      BY <2>2, <2>7 DEF Way
    <3>3. t = "running" => d \in C
      BY <2>2 DEF Way
    <3>4. /\ t \notin {"changed", "rejected"}
          /\ t # "done" => ToSet(mailbox) \cap Completions(d) = {}
          /\ t = "done" => (d \in C <=> ToSet(mailbox) \cap Completions(d) # {})
      BY <2>2 DEF Way
    <3> QED
      BY <2>3, <3>1, <3>2, <3>3, <3>4
  <2> QED
    BY <2>1, <2>5, <2>8
<1> QED
  BY <1>1, <1>2, <1>3, MessagesInvariant, PTL DEF Spec
=============================================================================

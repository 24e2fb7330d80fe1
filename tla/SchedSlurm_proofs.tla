-------------------------- MODULE SchedSlurm_proofs ---------------------------
(***************************************************************************)
(* The types and the safety of SchedSlurm, for every number of machines,   *)
(* every set of jobs, every workload and every weight of the priority: its *)
(* machines stay partitioned, in the simulator no machine runs two jobs,   *)
(* the simulator never aborts, and schedule() leaves no machine idle that  *)
(* a pending job could use, and lets no job overtake one of higher         *)
(* priority that fits.                                                     *)
(*                                                                         *)
(* A job is, at any time, at one place on its way: its submission is under *)
(* way to the scheduler, or it is pending, or has machines since this call *)
(* of schedule(), or its command is under way to the simulator, or it      *)
(* runs, or its completion is under way back.  The invariant says so; that *)
(* machines are given once and freed once follows.                         *)
(*                                                                         *)
(* A job is also at one place at least.  What the library's job table says *)
(* of a job agrees with that place, so each step of a job on its way is a  *)
(* step of Cluster: SchedSlurm implements it, and only a job that its      *)
(* partition cannot hold can make the simulation stop early.               *)
(***************************************************************************)
EXTENDS SchedSlurm, SequenceTheorems, FiniteSetTheorems, FunctionTheorems, TLAPS

-----------------------------------------------------------------------------
\* Type correctness

\* This scheduler only ever executes and rejects single jobs, ...
SlurmCommand == [type : {"EXECUTE_JOB", "REJECT_JOB"}, jobs : {{j} : j \in Job},
                 value : {""}]

\* ... so it is only ever told of submissions, completions and the life cycle.
JobEvent == [type : {"JOB_SUBMITTED", "JOB_COMPLETED"}, jobs : {{j} : j \in Job},
             progress : {{}}, state : Outcomes \cup {""}]
LifeEvent == [type : {"SIMULATION_BEGINS", "SIMULATION_ENDS", "NOTIFY"}, jobs : {{}},
              progress : {{}}, state : {""}]
SlurmEvent == JobEvent \cup LifeEvent

\* No job of this scheduler is ever in one of the states only a registration,
\* a kill or a mistaken assignment could give it.
SlurmJobState == {"NONE", "SUBMITTED", "UNKNOWN"} \cup Completed

SimInv  == /\ SimTypeOK /\ wakes = 0
           /\ commands \in Seq(SlurmCommand) /\ mailbox \in Seq(SlurmEvent)
LoopInv == LoopTypeOK /\ events \in Seq(SlurmEvent)
ApiInv  == ApiTypeOK /\ events_to_send \in Seq(SlurmCommand)
JobInv  == JobTypeOK /\ job_state \in [Job -> SlurmJobState]

\* schedule() runs inside the callback of a submission or a completion.
InCallback == scheduling =>
  /\ phase = "handler" /\ events # <<>>
  /\ Head(events).type \in {"JOB_SUBMITTED", "JOB_COMPLETED"}

TypeInv ==
  /\ SimInv /\ now \in Nat /\ LoopInv /\ ApiInv /\ JobInv
  /\ workload \in Workloads
  /\ QueueTypeOK /\ MachineTypeOK /\ UsageTypeOK /\ ScheduleTypeOK
  /\ InCallback

LEMMA CommandTypes == SlurmCommand \subseteq CommandSet
  BY DEF SlurmCommand, CommandSet, CommandType

LEMMA EventTypes == SlurmEvent \subseteq EventSet
<1>1. ASSUME NEW e \in JobEvent PROVE e \in EventSet
  BY <1>1 DEF JobEvent, EventSet, EventType
<1>2. ASSUME NEW e \in LifeEvent PROVE e \in EventSet
  BY <1>2 DEF LifeEvent, EventSet, EventType
<1> QED
  BY <1>1, <1>2 DEF SlurmEvent

\* A submission or a completion is about one job.
LEMMA OneJob ==
  ASSUME NEW e \in SlurmEvent, e.type \in {"JOB_SUBMITTED", "JOB_COMPLETED"}
  PROVE  \E j \in Job : e.jobs = {j}
<1>1. e \in JobEvent
  BY DEF SlurmEvent, LifeEvent
<1>2. e.jobs \in {{j} : j \in Job}
  BY <1>1 DEF JobEvent
<1> QED
  BY <1>2

LEMMA InitType == Init => TypeInv
<1> SUFFICES ASSUME Init PROVE TypeInv
  OBVIOUS
<1>1. BatsimInit
  BY DEF Init
<1>2. Signal("SIMULATION_BEGINS") \in SlurmEvent
  BY DEF SlurmEvent, LifeEvent, Signal, Event
<1>3. SimInv
  BY <1>1, <1>2, EventTypes DEF BatsimInit, SimInv, SimTypeOK
<1>4. LoopInv
  <2>1. /\ initialised \in BOOLEAN /\ running_simulation \in BOOLEAN
        /\ no_more_static_jobs \in BOOLEAN /\ ack_of_dynamic_jobs \in BOOLEAN
    BY <1>1, Zenon DEF BatsimInit
  <2>2. /\ phase = "recv" /\ events \in Seq(EventSet) /\ events \in Seq(SlurmEvent)
    BY <1>1 DEF BatsimInit
  <2> QED
    BY <2>1, <2>2 DEF LoopInv, LoopTypeOK
<1>5. ApiInv
  BY <1>1 DEF BatsimInit, ApiInv, ApiTypeOK
<1>6. JobInv
  BY <1>1 DEF BatsimInit, JobInv, JobTypeOK, SlurmJobState, Counter
<1>7. now \in Nat
  BY <1>1 DEF BatsimInit
<1>8. QueueTypeOK /\ MachineTypeOK
  BY DEF Init, QueueTypeOK, MachineTypeOK
<1>9. UsageTypeOK
  BY DEF Init, UsageTypeOK
<1>10. ScheduleTypeOK
  <2>1. scheduling \in BOOLEAN
    BY Zenon DEF Init
  <2>2. todo \subseteq Job /\ scheduled_jobs \in Seq(Job) /\ current_time \in Nat
    BY DEF Init
  <2> QED
    BY <2>1, <2>2 DEF ScheduleTypeOK
<1> QED
  BY <1>3, <1>4, <1>5, <1>6, <1>7, <1>8, <1>9, <1>10 DEF TypeInv, Init, InCallback

\* The invariant of each group of variables is untouched by a step that leaves
\* the group alone.
LEMMA Frames ==
  /\ SimInv /\ UNCHANGED sim_vars => SimInv'
  /\ LoopInv /\ UNCHANGED loop_vars => LoopInv'
  /\ ApiInv /\ UNCHANGED api_vars => ApiInv'
  /\ JobInv /\ UNCHANGED job_vars => JobInv'
  /\ QueueTypeOK /\ UNCHANGED queue_vars => QueueTypeOK'
  /\ UsageTypeOK /\ UNCHANGED usage_vars => UsageTypeOK'
  /\ ScheduleTypeOK /\ UNCHANGED schedule_vars => ScheduleTypeOK'
  /\ MachineTypeOK /\ UNCHANGED <<available_resources, total_resources, allocation>>
       => MachineTypeOK'
<1>1. SimInv /\ UNCHANGED sim_vars => SimInv'
  BY DEF SimInv, SimTypeOK, sim_vars
<1>2. LoopInv /\ UNCHANGED loop_vars => LoopInv'
  BY DEF LoopInv, LoopTypeOK, loop_vars
<1>3. ApiInv /\ UNCHANGED api_vars => ApiInv'
  BY DEF ApiInv, ApiTypeOK, api_vars
<1>4. JobInv /\ UNCHANGED job_vars => JobInv'
  BY DEF JobInv, JobTypeOK, job_vars
<1>5. QueueTypeOK /\ UNCHANGED queue_vars => QueueTypeOK'
  BY DEF QueueTypeOK, queue_vars
<1>6. UsageTypeOK /\ UNCHANGED usage_vars => UsageTypeOK'
  BY DEF UsageTypeOK, usage_vars
<1>7. ScheduleTypeOK /\ UNCHANGED schedule_vars => ScheduleTypeOK'
  BY DEF ScheduleTypeOK, schedule_vars
<1>8. MachineTypeOK /\ UNCHANGED <<available_resources, total_resources, allocation>>
        => MachineTypeOK'
  BY DEF MachineTypeOK
<1> QED
  BY <1>1, <1>2, <1>3, <1>4, <1>5, <1>6, <1>7, <1>8

LEMMA WiderSequences ==
  /\ Seq(SlurmCommand) \subseteq Seq(CommandSet)
  /\ Seq(SlurmEvent) \subseteq Seq(EventSet)
<1>1. Seq(SlurmCommand) \subseteq Seq(CommandSet)
  BY CommandTypes, SeqMonotonic
<1>2. Seq(SlurmEvent) \subseteq Seq(EventSet)
  BY EventTypes, SeqMonotonic
<1> QED
  BY <1>1, <1>2

LEMMA SimType ==
  ASSUME TypeInv, Sim, UNCHANGED slurm_vars
  PROVE  TypeInv'
<1> USE DEF TypeInv
<1>1. LoopInv' /\ ApiInv' /\ workload' \in Workloads
        /\ QueueTypeOK' /\ MachineTypeOK' /\ UsageTypeOK' /\ ScheduleTypeOK' /\ InCallback'
  <2>1. UNCHANGED <<loop_vars, api_vars>>
    BY DEF Sim, SimTick, SimSubmit, SimComplete, SimCall, SimEnd, Inject, InjectExecute,
           InjectReject, InjectChange, InjectKill, InjectRegister, InjectNotify,
           InjectCallMeLater, Injected
  <2> QED
    BY <2>1, Frames DEF slurm_vars, schedule_vars, loop_vars, InCallback
<1>2. SimInv' /\ now' \in Nat /\ JobInv'
  <2>1. CASE SimTick
    BY <2>1, Frames DEF SimTick
  <2>2. ASSUME NEW j \in Job, SimSubmit(j) PROVE SimInv' /\ now' \in Nat /\ JobInv'
    <3>1. Submitted(j) \in SlurmEvent /\ Signal("NOTIFY") \in SlurmEvent
      BY DEF Submitted, Signal, Event, SlurmEvent, JobEvent, LifeEvent
    <3>2. mailbox' \in Seq(SlurmEvent)
      BY <2>2, <3>1 DEF SimSubmit, SimInv
    <3>3. SimInv'
      BY <2>2, <3>2, WiderSequences DEF SimSubmit, SimInv, SimTypeOK
    <3>4. JobInv'
      BY <2>2 DEF SimSubmit, JobInv, JobTypeOK
    <3> QED
      BY <2>2, <3>3, <3>4 DEF SimSubmit
  <2>3. ASSUME NEW j \in Job, NEW o \in Outcomes, SimComplete(j, o)
        PROVE SimInv' /\ now' \in Nat /\ JobInv'
    <3>1. JobCompleted(j, o) \in SlurmEvent
      BY DEF JobCompleted, Event, SlurmEvent, JobEvent
    <3>2. mailbox' \in Seq(SlurmEvent)
      BY <2>3, <3>1 DEF SimComplete, SimInv
    <3> QED
      BY <2>3, <3>2, WiderSequences, Frames DEF SimComplete, SimInv, SimTypeOK
  <2>4. ~SimCall
    BY DEF SimCall, SimInv
  <2>5. CASE Inject
    <3>1. Injecting(Head(commands).type) => Head(commands) \in SlurmCommand
      BY HeadTailProperties DEF Injecting, SimInv
    <3>2. InjectExecute \/ InjectReject
      BY <2>5, <3>1 DEF Inject, InjectExecute, InjectReject, InjectChange, InjectKill,
           InjectRegister, InjectNotify, InjectCallMeLater, Injecting, SlurmCommand
    <3>3. commands' \in Seq(SlurmCommand)
      BY <3>2, HeadTailProperties
      DEF InjectExecute, InjectReject, Injecting, Injected, SimInv
    <3>4. /\ truth' \in [Job -> {"absent", "queued", "running", "changed", "done", "rejected"}]
          /\ batsim' \in {"running", "ending", "ended", "aborted"}
      BY <3>2 DEF InjectExecute, InjectReject, Move, SimInv, SimTypeOK
    <3>5. UNCHANGED <<registration, wakes, mailbox, now, job_vars>>
      BY <3>2 DEF InjectExecute, InjectReject, Injected, job_vars
    <3> QED
      BY <3>3, <3>4, <3>5, WiderSequences, Frames DEF SimInv, SimTypeOK
  <2>6. CASE SimEnd
    <3>1. Signal("SIMULATION_ENDS") \in SlurmEvent
      BY DEF Signal, Event, SlurmEvent, LifeEvent
    <3>2. mailbox' \in Seq(SlurmEvent)
      BY <2>6, <3>1 DEF SimEnd
    <3> QED
      BY <2>6, <3>2, WiderSequences, Frames DEF SimEnd, SimInv, SimTypeOK
  <2> QED
    BY <2>1, <2>2, <2>3, <2>4, <2>5, <2>6 DEF Sim
<1> QED
  BY <1>1, <1>2

LEMMA LoopType ==
  ASSUME TypeInv, Receive \/ Timeout \/ Dispatch \/ SendReply, UNCHANGED slurm_vars
  PROVE  TypeInv'
<1> USE DEF TypeInv
<1>1. workload' \in Workloads
        /\ QueueTypeOK' /\ MachineTypeOK' /\ UsageTypeOK' /\ ScheduleTypeOK' /\ InCallback'
  <2>1. ~scheduling
    BY DEF InCallback, Receive, Timeout, SendReply, Dispatch, DispatchSimulationBegins,
       DispatchSimulationEnds, DispatchJobSubmitted, DispatchJobCompleted, DispatchJobKilled,
       DispatchRequestedCall, DispatchNotify, DispatchNoMoreEvents, Dispatching
  <2> QED
    BY <2>1, Frames DEF slurm_vars, schedule_vars, InCallback
<1>2. CASE Receive
  <2>1. SimInv' /\ ApiInv'
    BY <1>2 DEF Receive, SimInv, SimTypeOK, ApiInv, ApiTypeOK
  <2>2. LoopInv'
    BY <1>2, WiderSequences DEF Receive, LoopInv, LoopTypeOK, SimInv
  <2> QED
    BY <1>1, <1>2, <2>1, <2>2, Frames DEF Receive
<1>3. CASE Timeout
  BY <1>1, <1>3, Frames DEF Timeout, LoopInv, LoopTypeOK
<1>4. CASE Dispatch
  <2>1. UNCHANGED <<sim_vars, now, events_to_send, jobs_manually_changed>>
    BY <1>4 DEF Dispatch, DispatchSimulationBegins, DispatchSimulationEnds,
         DispatchJobSubmitted, DispatchJobCompleted, DispatchJobKilled,
         DispatchRequestedCall, DispatchNotify, DispatchNoMoreEvents, api_vars
  <2>2. Dispatching(Head(events).type) => Head(events) \in SlurmEvent
    BY HeadTailProperties DEF Dispatching, LoopInv
  <2>3. ~DispatchJobKilled /\ ~DispatchRequestedCall
    BY <2>2 DEF DispatchJobKilled, DispatchRequestedCall, Dispatching, SlurmEvent,
         JobEvent, LifeEvent
  <2>4. phase' = "handler" /\ UNCHANGED <<events, initialised>>
    BY <1>4, <2>3 DEF Dispatch, DispatchSimulationBegins, DispatchSimulationEnds,
         DispatchJobSubmitted, DispatchJobCompleted, DispatchNotify, DispatchNoMoreEvents
  <2>5. /\ running_simulation' \in BOOLEAN /\ no_more_static_jobs' \in BOOLEAN
        /\ ack_of_dynamic_jobs' \in BOOLEAN
    BY <1>4, <2>3, SlurmAssumption
    DEF Dispatch, DispatchSimulationBegins, DispatchSimulationEnds, DispatchJobSubmitted,
        DispatchJobCompleted, DispatchNotify, DispatchNoMoreEvents, LoopInv, LoopTypeOK
  <2>6. LoopInv'
    BY <2>4, <2>5 DEF LoopInv, LoopTypeOK
  <2>7. ApiInv' /\ JobInv'
    <3>1. CASE DispatchJobSubmitted
      <4>1. PICK j \in Head(events).jobs :
              /\ nb' = CountSubmission(job_state[j] # "NONE", job_state[j] = "IN_SUBMISSON")
              /\ job_state' = [job_state EXCEPT ![j] = "SUBMITTED"]
              /\ state' = [state EXCEPT ![j] = "NONE"]
        BY <3>1 DEF DispatchJobSubmitted
      <4>2. j \in Job
        BY <2>2, <3>1, <4>1, OneJob DEF DispatchJobSubmitted, Dispatching
      <4>3. job_state[j] # "IN_SUBMISSON"
        BY <4>2 DEF JobInv, SlurmJobState, Completed
      <4>4. nb' \in [Counter -> Nat]
        <5>1. nb \in [Counter -> Nat]
          BY DEF JobInv, JobTypeOK
        <5>2. CASE job_state[j] # "NONE"
          BY <4>1, <4>3, <5>1, <5>2 DEF CountSubmission, Count, Counter
        <5>3. CASE job_state[j] = "NONE"
          BY <4>1, <4>3, <5>1, <5>3 DEF CountSubmission, Count, Counter
        <5> QED
          BY <5>2, <5>3
      <4>5. ApiInv'
        BY <2>1, <4>1, <4>2 DEF ApiInv, ApiTypeOK
      <4>6. /\ job_state' \in [Job -> SlurmJobState]
            /\ job_state' \in [Job -> JobState \cup {"NONE"}]
        BY <4>1, <4>2 DEF JobInv, JobTypeOK, SlurmJobState, JobState
      <4> QED
        BY <3>1, <4>4, <4>5, <4>6 DEF DispatchJobSubmitted, JobInv, JobTypeOK
    <3>2. CASE DispatchJobCompleted
      <4>1. PICK j \in Head(events).jobs :
              /\ job_state' = [job_state EXCEPT ![j] = StateNamed(Head(events).state)]
              /\ nb' = CountCompletion(StateNamed(Head(events).state))
        BY <3>2 DEF DispatchJobCompleted
      <4>2. StateNamed(Head(events).state) \in Completed \cup {"UNKNOWN"}
        BY <2>2, <3>2, ConstantsAssumption
        DEF DispatchJobCompleted, Dispatching, StateNamed, JobState, Completed,
            SlurmEvent, JobEvent, LifeEvent
      <4>3. nb' \in [Counter -> Nat]
        BY <4>1 DEF CountCompletion, Count, JobInv, JobTypeOK, Counter
      <4>4. /\ job_state' \in [Job -> SlurmJobState]
            /\ job_state' \in [Job -> JobState \cup {"NONE"}]
        BY <4>1, <4>2 DEF JobInv, JobTypeOK, SlurmJobState, JobState
      <4>5. ApiInv'
        BY <3>2, Frames DEF DispatchJobCompleted
      <4> QED
        BY <3>2, <4>3, <4>4, <4>5 DEF DispatchJobCompleted, JobInv, JobTypeOK
    <3>3. CASE ~DispatchJobSubmitted /\ ~DispatchJobCompleted
      <4>1. UNCHANGED <<api_vars, job_vars>>
        BY <1>4, <2>3, <3>3 DEF Dispatch, DispatchSimulationBegins, DispatchSimulationEnds,
             DispatchNotify, DispatchNoMoreEvents
      <4> QED
        BY <4>1, Frames
    <3> QED
      BY <3>1, <3>2, <3>3
  <2> QED
    BY <1>1, <2>1, <2>6, <2>7, Frames
<1>5. CASE SendReply
  <2>1. SimInv' /\ ApiInv'
    BY <1>5, WiderSequences DEF SendReply, Reply, SimInv, SimTypeOK, ApiInv, ApiTypeOK
  <2>2. LoopInv'
    BY <1>5 DEF SendReply, LoopInv, LoopTypeOK
  <2> QED
    BY <1>1, <1>5, <2>1, <2>2, Frames DEF SendReply
<1> QED
  BY <1>2, <1>3, <1>4, <1>5

\* A callback that handles an event leaves a well-typed rest of the message.
LEMMA ReturnType ==
  ASSUME LoopInv, events # <<>>, CallbackReturns,
         UNCHANGED <<initialised, running_simulation, no_more_static_jobs, ack_of_dynamic_jobs>>
  PROVE  LoopInv'
<1>1. events' \in Seq(SlurmEvent)
  BY HeadTailProperties DEF CallbackReturns, LoopInv
<1> QED
  BY <1>1, WiderSequences DEF CallbackReturns, LoopInv, LoopTypeOK

LEMMA ScheduleBeginType ==
  ASSUME TypeInv, phase = "handler", events # <<>>, ~scheduling, ScheduleBegin,
         Head(events).type \in {"JOB_SUBMITTED", "JOB_COMPLETED"}, pending_jobs' \subseteq Job,
         UNCHANGED <<initialised, running_simulation, no_more_static_jobs, ack_of_dynamic_jobs>>
  PROVE  now' \in Nat /\ LoopInv' /\ ScheduleTypeOK' /\ InCallback'
<1> USE DEF TypeInv
<1>1. now' \in Nat
  BY SlurmAssumption DEF ScheduleBegin, ConsumeTime
<1>2. CASE pending_jobs' = {}
  BY <1>1, <1>2, ReturnType, Frames DEF ScheduleBegin, schedule_vars, InCallback
<1>3. CASE pending_jobs' # {}
  <2>1. LoopInv'
    BY <1>3, Frames DEF ScheduleBegin, loop_vars
  <2>2. scheduling' \in BOOLEAN
    BY <1>3, Zenon DEF ScheduleBegin
  <2>3. todo' \subseteq Job /\ scheduled_jobs' \in Seq(Job) /\ current_time' \in Nat
    BY <1>3 DEF ScheduleBegin, ScheduleTypeOK
  <2> QED
    BY <1>1, <1>3, <2>1, <2>2, <2>3 DEF ScheduleBegin, ScheduleTypeOK, InCallback
<1> QED
  BY <1>2, <1>3

\* The head of the message is the event a callback handles.
LEMMA HandledEvent ==
  ASSUME TypeInv, NEW type, Handling(type)
  PROVE  phase = "handler" /\ events # <<>> /\ Head(events) \in SlurmEvent /\ Head(events).type = type
  BY HeadTailProperties DEF Handling, TypeInv, LoopInv

LEMMA OnePerJobType ==
  ASSUME NEW jobs \in Seq(Job), NEW type \in {"EXECUTE_JOB", "REJECT_JOB"}
  PROVE  OnePerJob(type, jobs) \in Seq(SlurmCommand)
<1>1. Len(jobs) \in Nat /\ \A i \in 1 .. Len(jobs) : jobs[i] \in Job
  OBVIOUS
<1>2. \A i \in 1 .. Len(jobs) : Command(type, {jobs[i]}, "") \in SlurmCommand
  BY <1>1 DEF Command, SlurmCommand
<1>3. OnePerJob(type, jobs) \in [1 .. Len(jobs) -> SlurmCommand]
  BY <1>2 DEF OnePerJob
<1>4. \A n \in Nat : \A f : f \in [1 .. n -> SlurmCommand] => f \in Seq(SlurmCommand)
  OBVIOUS
<1> QED
  BY <1>1, <1>3, <1>4

LEMMA CountManyType ==
  ASSUME nb \in [Counter -> Nat], NEW c, NEW n \in Nat
  PROVE  CountMany(c, n) \in [Counter -> Nat]
  BY DEF CountMany

LEMMA CallbackType ==
  ASSUME TypeInv, Callback
  PROVE  TypeInv'
<1> USE DEF TypeInv
<1>1. CASE OnAfterBatsimInit
  <2>1. MachineTypeOK'
    BY <1>1, SlurmAssumption DEF OnAfterBatsimInit, MachineTypeOK, Machine, ProcSetUpTo
  <2>2. LoopInv'
    BY <1>1 DEF OnAfterBatsimInit, InitReturns, LoopInv, LoopTypeOK
  <2> QED
    BY <1>1, <2>1, <2>2, Frames DEF OnAfterBatsimInit, InitReturns, InCallback, schedule_vars
<1>2. ASSUME NEW j \in Job, OnJobSubmissionRefused(j) PROVE TypeInv'
  <2>1. <<j>> \in Seq(Job) /\ Len(<<j>>) = 1
    OBVIOUS
  <2>2. OnePerJob("REJECT_JOB", <<j>>) \in Seq(SlurmCommand)
    BY <2>1, OnePerJobType
  <2>3. events_to_send' \in Seq(SlurmCommand)
    BY <1>2, <2>2, ConcatProperties DEF OnJobSubmissionRefused, RejectJobs, ApiInv
  <2>4. ApiInv'
    BY <1>2, <2>3, WiderSequences DEF OnJobSubmissionRefused, RejectJobs, ApiInv, ApiTypeOK
  <2>5. JobInv'
    <3>1. nb' = CountMany("rejected", Len(<<j>>))
      BY <1>2 DEF OnJobSubmissionRefused, RejectJobs, CountRejection
    <3>2. nb' \in [Counter -> Nat]
      BY <2>1, <3>1, CountManyType DEF JobInv, JobTypeOK
    <3> QED
      BY <1>2, <3>2 DEF OnJobSubmissionRefused, RejectJobs, JobInv, JobTypeOK
  <2>6. LoopInv'
    BY <1>2, HandledEvent, ReturnType DEF OnJobSubmissionRefused
  <2> QED
    BY <1>2, <2>4, <2>5, <2>6, Frames
    DEF OnJobSubmissionRefused, slurm_vars, schedule_vars, InCallback
<1>3. ASSUME NEW j \in Job, OnJobSubmission(j) PROVE TypeInv'
  <2>1. pending_jobs' \subseteq Job
    BY <1>3 DEF OnJobSubmission, QueueTypeOK
  <2>2. now' \in Nat /\ LoopInv' /\ ScheduleTypeOK' /\ InCallback'
    BY <1>3, <2>1, HandledEvent, ScheduleBeginType DEF OnJobSubmission
  <2>3. QueueTypeOK'
    BY <1>3, <2>1 DEF OnJobSubmission, QueueTypeOK, JobInv, JobTypeOK, Counter
  <2> QED
    BY <1>3, <2>2, <2>3, Frames DEF OnJobSubmission
<1>4. ASSUME NEW j \in Job, OnJobCompletion(j) PROVE TypeInv'
  <2>1. pending_jobs' \subseteq Job
    BY <1>4 DEF OnJobCompletion, QueueTypeOK
  <2>2. now' \in Nat /\ LoopInv' /\ ScheduleTypeOK' /\ InCallback'
    BY <1>4, <2>1, HandledEvent, ScheduleBeginType DEF OnJobCompletion
  <2>3. QueueTypeOK'
    BY <1>4, <2>1 DEF OnJobCompletion, QueueTypeOK
  <2>4. UsageTypeOK'
    BY <1>4 DEF OnJobCompletion, update_usage_stats, UsageTypeOK, JobInv, SlurmJobState, Completed
  <2>5. MachineTypeOK'
    BY <1>4 DEF OnJobCompletion, Free, MachineTypeOK
  <2> QED
    BY <1>4, <2>2, <2>3, <2>4, <2>5, Frames DEF OnJobCompletion
<1>5. ASSUME NEW j \in Job, ScheduleNext(j) PROVE TypeInv'
  <2>1. UNCHANGED batsim_vars /\ UNCHANGED workload
    BY <1>5 DEF ScheduleNext
  <2>2. FirstOf(FreeFor(j), workload[j].res) \subseteq Machine
    BY DEF FirstOf, FreeFor, MachineTypeOK
  <2>3. MachineTypeOK'
    BY <1>5, <2>2 DEF ScheduleNext, Take, MachineTypeOK
  <2>4. QueueTypeOK'
    BY <1>5 DEF ScheduleNext, QueueTypeOK
  <2>5. UsageTypeOK'
    BY <1>5 DEF ScheduleNext, UsageTypeOK, ScheduleTypeOK
  <2>6. scheduled_jobs' \in Seq(Job)
    BY <1>5 DEF ScheduleNext, ScheduleTypeOK
  <2>7. ScheduleTypeOK'
    BY <1>5, <2>6 DEF ScheduleNext, ScheduleTypeOK, Untried
  <2> QED
    BY <1>5, <2>1, <2>3, <2>4, <2>5, <2>7, Frames
    DEF ScheduleNext, batsim_vars, loop_vars, InCallback
<1>6. CASE ScheduleEnd
  <2>1. OnePerJob("EXECUTE_JOB", scheduled_jobs) \in Seq(SlurmCommand)
    BY OnePerJobType DEF ScheduleTypeOK
  <2>2. events_to_send' \in Seq(SlurmCommand)
    BY <1>6, <2>1, ConcatProperties DEF ScheduleEnd, ExecuteJobs, ApiInv
  <2>3. ApiInv'
    BY <1>6, <2>2, WiderSequences DEF ScheduleEnd, ExecuteJobs, ApiInv, ApiTypeOK
  <2>4. JobInv'
    <3>1. nb' = CountMany("scheduled", Len(scheduled_jobs))
      BY <1>6 DEF ScheduleEnd, ExecuteJobs
    <3>2. Len(scheduled_jobs) \in Nat
      BY DEF ScheduleTypeOK
    <3>3. nb' \in [Counter -> Nat]
      BY <3>1, <3>2, CountManyType DEF JobInv, JobTypeOK
    <3> QED
      BY <1>6, <3>3 DEF ScheduleEnd, ExecuteJobs, JobInv, JobTypeOK
  <2>5. QueueTypeOK'
    BY <1>6 DEF ScheduleEnd, QueueTypeOK, ScheduleTypeOK, ToSet
  <2>6. ~scheduling' /\ scheduling' \in BOOLEAN
    BY <1>6, Zenon DEF ScheduleEnd
  <2>7. ScheduleTypeOK' /\ InCallback'
    BY <1>6, <2>6 DEF ScheduleEnd, ScheduleTypeOK, InCallback
  <2>8. LoopInv'
    BY <1>6, ReturnType DEF ScheduleEnd, InCallback
  <2> QED
    BY <1>6, <2>3, <2>4, <2>5, <2>7, <2>8, Frames DEF ScheduleEnd
<1>7. CASE OtherCallback
  <2>1. LoopInv'
    BY <1>7, HandledEvent, ReturnType DEF OtherCallback
  <2> QED
    BY <1>7, <2>1, HandledEvent, Frames
    DEF OtherCallback, Handling, slurm_vars, schedule_vars, InCallback
<1> QED
  BY <1>1, <1>2, <1>3, <1>4, <1>5, <1>6, <1>7 DEF Callback

LEMMA TypeStep == TypeInv /\ [Next]_vars => TypeInv'
<1> SUFFICES ASSUME TypeInv, [Next]_vars PROVE TypeInv'
  OBVIOUS
<1>1. CASE LibraryStep
  BY <1>1, SimType, LoopType DEF LibraryStep, Library
<1>2. CASE Callback
  BY <1>2, CallbackType
<1>3. CASE UNCHANGED vars
  BY <1>3, Frames DEF vars, batsim_vars, slurm_vars, loop_vars, schedule_vars, TypeInv, InCallback
<1> QED
  BY <1>1, <1>2, <1>3 DEF Next

\* Every variable keeps its type in every reachable state.
THEOREM TypeCorrect == Spec => []SlurmTypeOK
<1>1. TypeInv => SlurmTypeOK
  BY DEF TypeInv, SimInv, LoopInv, ApiInv, JobInv, SlurmTypeOK, TypeOK
<1> QED
  BY InitType, TypeStep, <1>1, PTL DEF Spec

-----------------------------------------------------------------------------
\* Where a job is on its way

\* The event whose callback runs schedule() is dealt with.
Undealt == IF scheduling THEN Tail(events) ELSE events

\* What is under way from the simulator to the scheduler, and back, whichever
\* of the two acts.
Inbox  == IF phase \in {"events", "handler"} THEN Undealt ELSE mailbox
Outbox == IF phase \in {"events", "handler"} THEN events_to_send ELSE commands

\* The jobs that the messages of a queue are about, and those of one type.
About(q) == {j \in Job : \E i \in 1 .. Len(q) : j \in q[i].jobs}
Named(q, type) == {j \in Job : \E i \in 1 .. Len(q) : q[i].type = type /\ j \in q[i].jobs}

\* No job is the subject of two messages of a queue.
OneEach(q) == \A i, k \in 1 .. Len(q) : i # k => q[i].jobs \cap q[k].jobs = {}

NothingLate == phase \in {"events", "handler"} => mailbox = <<>>

Started ==
  /\ total_resources = N <=> (initialised /\ phase # "init")
  /\ phase = "init" => initialised
  /\ total_resources # N => /\ Held = {} /\ pending_jobs = {}
                            /\ \A j \in Job : truth[j] = "absent"

Incoming ==
  /\ OneEach(Inbox)
  /\ \A j \in Named(Inbox, "JOB_SUBMITTED") :
       truth[j] = "queued" /\ j \notin pending_jobs \cup Held
  /\ \A j \in Named(Inbox, "JOB_COMPLETED") : truth[j] = "done" /\ j \in running_jobs

Outgoing ==
  /\ OneEach(Outbox)
  /\ \A j \in Named(Outbox, "EXECUTE_JOB") : truth[j] = "queued" /\ j \in running_jobs
  /\ \A j \in Named(Outbox, "REJECT_JOB") :
       /\ truth[j] = "queued" /\ j \notin pending_jobs \cup Held
       /\ j \notin Named(Inbox, "JOB_SUBMITTED")

InScheduler ==
  /\ \A j \in pending_jobs \cup ToSet(scheduled_jobs) :
       truth[j] = "queued" /\ j \notin running_jobs
  /\ pending_jobs \cap ToSet(scheduled_jobs) = {}
  /\ \A i, k \in 1 .. Len(scheduled_jobs) : i # k => scheduled_jobs[i] # scheduled_jobs[k]
  /\ scheduling => todo \subseteq pending_jobs
  /\ ~scheduling => scheduled_jobs = <<>>

InSimulator ==
  /\ \A j \in running_jobs : truth[j] \in {"queued", "running", "done"}
  /\ \A j \in Job : truth[j] = "running" => j \in running_jobs

WayInv == /\ NothingLate /\ Started /\ Incoming /\ Outgoing /\ InScheduler /\ InSimulator
          /\ NeverAborted

SafetyInv == TypeInv /\ WayInv /\ MachinesPartitioned

-----------------------------------------------------------------------------
\* Queues

\* The head of a queue is about its own jobs, and about nothing the rest is.
LEMMA TailOfQueue ==
  ASSUME NEW S, NEW q \in Seq(S), q # <<>>
  PROVE  /\ \A type : Named(Tail(q), type) \subseteq Named(q, type)
         /\ About(Tail(q)) \subseteq About(q)
         /\ OneEach(q) => OneEach(Tail(q))
         /\ OneEach(q) => Head(q).jobs \cap About(Tail(q)) = {}
         /\ \A j \in Job : j \in Head(q).jobs => j \in Named(q, Head(q).type)
<1>1. /\ Len(q) \in Nat /\ Len(q) > 0 /\ Head(q) = q[1]
      /\ Len(Tail(q)) = Len(q) - 1
      /\ \A i \in 1 .. Len(Tail(q)) : Tail(q)[i] = q[i + 1]
  BY LenProperties, HeadTailProperties
<1>2. \A i \in 1 .. Len(Tail(q)) : i + 1 \in 1 .. Len(q) /\ i + 1 # 1
  BY <1>1
<1>3. 1 \in 1 .. Len(q)
  BY <1>1
<1>4. \A type : Named(Tail(q), type) \subseteq Named(q, type)
  BY <1>1, <1>2 DEF Named
<1>5. About(Tail(q)) \subseteq About(q)
  BY <1>1, <1>2 DEF About
<1>6. ASSUME OneEach(q) PROVE OneEach(Tail(q))
  <2> SUFFICES ASSUME NEW i \in 1 .. Len(Tail(q)), NEW k \in 1 .. Len(Tail(q)), i # k
               PROVE Tail(q)[i].jobs \cap Tail(q)[k].jobs = {}
    BY DEF OneEach
  <2>1. i + 1 # k + 1
    BY <1>1
  <2> QED
    BY <1>1, <1>2, <1>6, <2>1 DEF OneEach
<1>7. ASSUME OneEach(q) PROVE Head(q).jobs \cap About(Tail(q)) = {}
  <2> SUFFICES ASSUME NEW i \in 1 .. Len(Tail(q)), NEW j \in Head(q).jobs, j \in Tail(q)[i].jobs
               PROVE FALSE
    BY DEF About
  <2> QED
    BY <1>1, <1>2, <1>3, <1>7 DEF OneEach
<1>8. \A j \in Job : j \in Head(q).jobs => j \in Named(q, Head(q).type)
  BY <1>1, <1>3 DEF Named
<1> QED
  BY <1>4, <1>5, <1>6, <1>7, <1>8

\* Two queues that share no job make one queue.
LEMMA JoinedQueue ==
  ASSUME NEW S, NEW p \in Seq(S), NEW q \in Seq(S)
  PROVE  /\ \A type : Named(p \o q, type) = Named(p, type) \cup Named(q, type)
         /\ About(p \o q) = About(p) \cup About(q)
         /\ /\ OneEach(p) /\ OneEach(q) /\ About(p) \cap About(q) = {}
            /\ \A e \in S : e.jobs \subseteq Job
            => OneEach(p \o q)
<1>1. /\ Len(p) \in Nat /\ Len(q) \in Nat /\ Len(p \o q) = Len(p) + Len(q)
      /\ \A i \in 1 .. Len(p \o q) :
           (p \o q)[i] = IF i <= Len(p) THEN p[i] ELSE q[i - Len(p)]
  BY LenProperties, ConcatProperties
<1>2. \A i \in 1 .. Len(p) : i \in 1 .. Len(p \o q) /\ (p \o q)[i] = p[i]
  BY <1>1
<1>3. \A i \in 1 .. Len(q) : /\ Len(p) + i \in 1 .. Len(p \o q)
                             /\ (p \o q)[Len(p) + i] = q[i]
  BY <1>1
<1>4. \A i \in 1 .. Len(p \o q) :
        \/ i \in 1 .. Len(p) /\ (p \o q)[i] = p[i]
        \/ i - Len(p) \in 1 .. Len(q) /\ (p \o q)[i] = q[i - Len(p)]
  BY <1>1
<1> DEFINE r == p \o q
<1> HIDE DEF r
<1>5. \A type : Named(r, type) = Named(p, type) \cup Named(q, type)
  <2>1. \A type : Named(p, type) \subseteq Named(r, type)
    BY <1>2 DEF Named, r
  <2>2. \A type : Named(q, type) \subseteq Named(r, type)
    BY <1>3 DEF Named, r
  <2>3. \A type : Named(r, type) \subseteq Named(p, type) \cup Named(q, type)
    BY <1>4 DEF Named, r
  <2> QED
    BY <2>1, <2>2, <2>3
<1>6. About(r) = About(p) \cup About(q)
  BY <1>2, <1>3, <1>4 DEF About, r
<1>7. ASSUME OneEach(p), OneEach(q), About(p) \cap About(q) = {},
             \A e \in S : e.jobs \subseteq Job
      PROVE  OneEach(p \o q)
  <2> SUFFICES ASSUME NEW i \in 1 .. Len(p \o q), NEW k \in 1 .. Len(p \o q), i # k,
                      NEW j \in (p \o q)[i].jobs, j \in (p \o q)[k].jobs
               PROVE  FALSE
    BY DEF OneEach
  <2>1. \A n \in 1 .. Len(p) : p[n].jobs \subseteq Job
    BY <1>7, ElementOfSeq
  <2>2. \A n \in 1 .. Len(q) : q[n].jobs \subseteq Job
    BY <1>7, ElementOfSeq
  <2>3. CASE i \in 1 .. Len(p) /\ k \in 1 .. Len(p)
    BY <1>2, <1>7, <2>3 DEF OneEach
  <2>4. CASE i - Len(p) \in 1 .. Len(q) /\ k - Len(p) \in 1 .. Len(q)
    <3>1. i - Len(p) # k - Len(p)
      BY <1>1
    <3>2. (p \o q)[i] = q[i - Len(p)] /\ (p \o q)[k] = q[k - Len(p)]
      BY <1>1, <2>4
    <3> QED
      BY <1>7, <2>4, <3>1, <3>2 DEF OneEach
  <2>5. CASE i \in 1 .. Len(p) /\ k - Len(p) \in 1 .. Len(q)
    <3>1. (p \o q)[i] = p[i] /\ (p \o q)[k] = q[k - Len(p)]
      BY <1>1, <2>5
    <3>2. j \in About(p) /\ j \in About(q)
      BY <2>1, <2>2, <2>5, <3>1 DEF About
    <3> QED
      BY <1>7, <3>2
  <2>6. CASE k \in 1 .. Len(p) /\ i - Len(p) \in 1 .. Len(q)
    <3>1. (p \o q)[k] = p[k] /\ (p \o q)[i] = q[i - Len(p)]
      BY <1>1, <2>6
    <3>2. j \in About(p) /\ j \in About(q)
      BY <2>1, <2>2, <2>6, <3>1 DEF About
    <3> QED
      BY <1>7, <3>2
  <2> QED
    BY <1>4, <2>3, <2>4, <2>5, <2>6
<1> QED
  BY <1>5, <1>6, <1>7 DEF r

\* A queue of one message.
LEMMA SingletonQueue ==
  ASSUME NEW e
  PROVE  /\ OneEach(<<e>>)
         /\ About(<<e>>) = Job \cap e.jobs
         /\ \A type : Named(<<e>>, type) = IF e.type = type THEN Job \cap e.jobs ELSE {}
<1>1. Len(<<e>>) = 1 /\ <<e>>[1] = e /\ \A i \in 1 .. Len(<<e>>) : i = 1
  OBVIOUS
<1> QED
  BY <1>1 DEF OneEach, About, Named

\* Commands and events of SchedSlurm are about jobs, each type about its own.
LEMMA CommandsAboutJobs ==
  ASSUME NEW q \in Seq(SlurmCommand)
  PROVE  About(q) = Named(q, "EXECUTE_JOB") \cup Named(q, "REJECT_JOB")
<1>1. \A i \in 1 .. Len(q) : q[i] \in SlurmCommand
  BY ElementOfSeq
<1>2. \A i \in 1 .. Len(q) : q[i].type \in {"EXECUTE_JOB", "REJECT_JOB"}
  BY <1>1 DEF SlurmCommand
<1> QED
  BY <1>2 DEF About, Named

LEMMA EventsAboutJobs ==
  ASSUME NEW q \in Seq(SlurmEvent)
  PROVE  About(q) = Named(q, "JOB_SUBMITTED") \cup Named(q, "JOB_COMPLETED")
<1>1. \A i \in 1 .. Len(q) : q[i] \in SlurmEvent
  BY ElementOfSeq
<1>2. \A i \in 1 .. Len(q) : \/ q[i].type \in {"JOB_SUBMITTED", "JOB_COMPLETED"}
                             \/ q[i].jobs = {}
  BY <1>1 DEF SlurmEvent, JobEvent, LifeEvent
<1> QED
  BY <1>2 DEF About, Named

\* One command for each of some jobs.
LEMMA OnePerJobNamed ==
  ASSUME NEW jobs \in Seq(Job), NEW type \in {"EXECUTE_JOB", "REJECT_JOB"},
         \A i, k \in 1 .. Len(jobs) : i # k => jobs[i] # jobs[k]
  PROVE  /\ OneEach(OnePerJob(type, jobs))
         /\ About(OnePerJob(type, jobs)) = ToSet(jobs)
         /\ Named(OnePerJob(type, jobs), type) = ToSet(jobs)
         /\ \A t : t # type => Named(OnePerJob(type, jobs), t) = {}
<1> DEFINE q == OnePerJob(type, jobs)
<1>1. Len(jobs) \in Nat /\ q \in Seq(SlurmCommand)
  BY OnePerJobType
<1>2. DOMAIN q = 1 .. Len(jobs) /\ \A i \in 1 .. Len(jobs) : q[i] = Command(type, {jobs[i]}, "")
  BY DEF OnePerJob
<1>3. DOMAIN q = 1 .. Len(q) /\ Len(q) \in Nat
  BY <1>1, LenProperties
<1>4. 1 .. Len(q) = 1 .. Len(jobs)
  BY <1>2, <1>3
<1> HIDE DEF q
<1>5. \A i \in 1 .. Len(q) : q[i].type = type /\ q[i].jobs = {jobs[i]}
  <2>1. \A i \in 1 .. Len(q) : q[i] = Command(type, {jobs[i]}, "")
    BY <1>2, <1>4
  <2>2. \A js : Command(type, js, "").type = type /\ Command(type, js, "").jobs = js
    BY DEF Command
  <2> SUFFICES ASSUME NEW i \in 1 .. Len(q) PROVE q[i].type = type /\ q[i].jobs = {jobs[i]}
    OBVIOUS
  <2>3. q[i] = Command(type, {jobs[i]}, "")
    BY <2>1
  <2> QED
    BY <2>2, <2>3
<1>6. ToSet(jobs) = {j \in Job : \E i \in 1 .. Len(jobs) : j = jobs[i]}
  <2>1. \A i \in 1 .. Len(jobs) : jobs[i] \in Job
    BY ElementOfSeq
  <2>2. DOMAIN jobs = 1 .. Len(jobs)
    BY LenProperties
  <2> QED
    BY <2>1, <2>2 DEF ToSet
<1>7. OneEach(q)
  BY <1>4, <1>5 DEF OneEach
<1>8. About(q) = ToSet(jobs)
  BY <1>4, <1>5, <1>6 DEF About
<1>9. Named(q, type) = ToSet(jobs)
  BY <1>4, <1>5, <1>6 DEF Named
<1>10. \A t : t # type => Named(q, t) = {}
  BY <1>5 DEF Named
<1> QED
  BY <1>7, <1>8, <1>9, <1>10 DEF q

LEMMA JobsOfMessages ==
  /\ \A e \in SlurmEvent : e.jobs \subseteq Job
  /\ \A c \in SlurmCommand : c.jobs \subseteq Job
  BY DEF SlurmEvent, JobEvent, LifeEvent, SlurmCommand

-----------------------------------------------------------------------------
\* The way of a job

LEMMA InitWay == Init => WayInv
<1> SUFFICES ASSUME Init PROVE WayInv
  OBVIOUS
<1>1. /\ phase = "recv" /\ mailbox = <<Signal("SIMULATION_BEGINS")>> /\ commands = <<>>
      /\ ~initialised /\ total_resources = 0 /\ N # 0
      /\ pending_jobs = {} /\ running_jobs = {} /\ scheduled_jobs = <<>> /\ ~scheduling
      /\ truth = [j \in Job |-> "absent"] /\ batsim = "running"
  BY SlurmAssumption DEF Init, BatsimInit
<1>2. Held = {} /\ ToSet(scheduled_jobs) = {}
  BY <1>1 DEF Held, ToSet
<1>3. Inbox = <<Signal("SIMULATION_BEGINS")>> /\ Outbox = <<>>
  BY <1>1 DEF Inbox, Outbox
<1>4. Signal("SIMULATION_BEGINS").jobs = {} /\ Signal("SIMULATION_BEGINS").type = "SIMULATION_BEGINS"
  BY DEF Signal, Event
<1>5. /\ OneEach(Inbox) /\ Named(Inbox, "JOB_SUBMITTED") = {} /\ Named(Inbox, "JOB_COMPLETED") = {}
  BY <1>3, <1>4, SingletonQueue
<1>6. OneEach(<<>>) /\ \A type : Named(<<>>, type) = {}
  BY DEF OneEach, Named
<1>7. Incoming /\ Outgoing
  BY <1>3, <1>5, <1>6 DEF Incoming, Outgoing
<1>8. InScheduler /\ InSimulator
  BY <1>1, <1>2 DEF InScheduler, InSimulator
<1>9. Started
  BY <1>1, <1>2 DEF Started
<1> QED
  BY <1>1, <1>7, <1>8, <1>9 DEF WayInv, NothingLate, NeverAborted

LEMMA ScheduledAreJobs == TypeInv => ToSet(scheduled_jobs) \subseteq Job
  BY DEF TypeInv, ScheduleTypeOK, ToSet

\* A step that moves no job along its way.
LEMMA StillWay ==
  ASSUME WayInv, Inbox' = Inbox, Outbox' = Outbox, NothingLate', Started',
         UNCHANGED <<truth, batsim, pending_jobs, running_jobs, scheduling, todo, scheduled_jobs>>
  PROVE  WayInv'
<1>1. Held' = Held
  BY DEF Held
<1> QED
  BY <1>1 DEF WayInv, Incoming, Outgoing, InScheduler, InSimulator, NeverAborted, Named

\* While the simulator acts.
LEMMA Simulating ==
  ASSUME TypeInv, WayInv, Waiting, UNCHANGED <<loop_vars, slurm_vars>>
  PROVE  /\ Inbox = mailbox /\ Inbox' = mailbox' /\ Outbox = commands /\ Outbox' = commands'
         /\ mailbox \in Seq(SlurmEvent) /\ commands \in Seq(SlurmCommand)
         /\ total_resources = N /\ Started' /\ NothingLate' /\ Held' = Held
         /\ UNCHANGED <<pending_jobs, running_jobs, scheduling, todo, scheduled_jobs>>
<1>1. phase = "recv" /\ phase' = "recv" /\ initialised /\ initialised'
  BY DEF Waiting, loop_vars
<1>2. UNCHANGED <<pending_jobs, running_jobs, scheduling, todo, scheduled_jobs, total_resources>>
  BY DEF slurm_vars, queue_vars, schedule_vars
<1>3. total_resources = N
  BY <1>1 DEF WayInv, Started
<1> QED
  BY <1>1, <1>2, <1>3 DEF TypeInv, SimInv, Inbox, Outbox, Started, NothingLate, Held

LEMMA SubmitWay ==
  ASSUME TypeInv, WayInv, NEW j \in Job, SimSubmit(j), UNCHANGED slurm_vars
  PROVE  WayInv'
<1>1. Waiting /\ UNCHANGED <<batsim, commands, loop_vars>> /\ truth[j] = "absent"
      /\ truth' = [truth EXCEPT ![j] = "queued"]
  BY DEF SimSubmit
<1>2. /\ Inbox = mailbox /\ Inbox' = mailbox' /\ Outbox = commands /\ Outbox' = commands'
      /\ mailbox \in Seq(SlurmEvent) /\ commands \in Seq(SlurmCommand)
      /\ total_resources = N /\ Started' /\ NothingLate' /\ Held' = Held
      /\ UNCHANGED <<pending_jobs, running_jobs, scheduling, todo, scheduled_jobs>>
  BY <1>1, Simulating
<1>3. PICK new \in Seq(SlurmEvent) :
        /\ mailbox' = mailbox \o new
        /\ OneEach(new) /\ About(new) = {j}
        /\ Named(new, "JOB_SUBMITTED") = {j} /\ Named(new, "JOB_COMPLETED") = {}
  <2>1. /\ Submitted(j) \in SlurmEvent /\ Signal("NOTIFY") \in SlurmEvent
        /\ Submitted(j).jobs = {j} /\ Submitted(j).type = "JOB_SUBMITTED"
        /\ Signal("NOTIFY").jobs = {} /\ Signal("NOTIFY").type = "NOTIFY"
    BY DEF Submitted, Signal, Event, SlurmEvent, JobEvent, LifeEvent
  <2> DEFINE one == <<Submitted(j)>>
             two == <<Submitted(j), Signal("NOTIFY")>>
  <2>2. one \in Seq(SlurmEvent) /\ two \in Seq(SlurmEvent)
    BY <2>1
  <2>3. /\ OneEach(one) /\ About(one) = {j}
        /\ Named(one, "JOB_SUBMITTED") = {j} /\ Named(one, "JOB_COMPLETED") = {}
    BY <2>1, SingletonQueue
  <2>4. Len(two) = 2 /\ two[1] = Submitted(j) /\ two[2] = Signal("NOTIFY")
    OBVIOUS
  <2>5. 1 .. 2 = {1, 2}
    OBVIOUS
  <2> HIDE DEF one, two
  <2>6. /\ OneEach(two) /\ About(two) = {j}
        /\ Named(two, "JOB_SUBMITTED") = {j} /\ Named(two, "JOB_COMPLETED") = {}
    BY <2>1, <2>4, <2>5 DEF OneEach, About, Named
  <2>7. mailbox' = mailbox \o one \/ mailbox' = mailbox \o two
    BY DEF SimSubmit, one, two
  <2> QED
    BY <2>2, <2>3, <2>6, <2>7
<1>4. j \notin About(Inbox) /\ j \notin pending_jobs \cup Held /\ j \notin About(Outbox)
  <2>1. About(Inbox) = Named(Inbox, "JOB_SUBMITTED") \cup Named(Inbox, "JOB_COMPLETED")
    BY <1>2, EventsAboutJobs
  <2>2. About(Outbox) = Named(Outbox, "EXECUTE_JOB") \cup Named(Outbox, "REJECT_JOB")
    BY <1>2, CommandsAboutJobs
  <2> QED
    BY <1>1, <2>1, <2>2 DEF WayInv, Incoming, Outgoing, InScheduler, InSimulator, Held
<1>5. /\ OneEach(Inbox')
      /\ Named(Inbox', "JOB_SUBMITTED") = Named(Inbox, "JOB_SUBMITTED") \cup {j}
      /\ Named(Inbox', "JOB_COMPLETED") = Named(Inbox, "JOB_COMPLETED")
  <2>1. Inbox \in Seq(SlurmEvent) /\ Inbox' = Inbox \o new
    BY <1>2, <1>3
  <2>2. OneEach(Inbox) /\ About(Inbox) \cap About(new) = {}
    BY <1>3, <1>4 DEF WayInv, Incoming
  <2>3. \A type : Named(Inbox \o new, type) = Named(Inbox, type) \cup Named(new, type)
    BY <2>1, JoinedQueue
  <2>4. OneEach(Inbox \o new)
    BY <1>3, <2>1, <2>2, JoinedQueue, JobsOfMessages
  <2> QED
    BY <1>3, <2>1, <2>3, <2>4
<1>6. truth[j] = "absent" /\ truth'[j] = "queued" /\ \A k \in Job \ {j} : truth'[k] = truth[k]
  BY <1>1 DEF TypeInv, SimInv, SimTypeOK
<1>7. Incoming'
  <2>1. Named(Inbox, "JOB_SUBMITTED") \subseteq Job /\ Named(Inbox, "JOB_COMPLETED") \subseteq Job
    BY DEF Named
  <2>2. j \notin Named(Inbox, "JOB_COMPLETED")
    BY <1>4 DEF About, Named
  <2>3. OneEach(Inbox)'
    BY <1>5 DEF OneEach
  <2>4. Named(Inbox, "JOB_SUBMITTED")' = Named(Inbox', "JOB_SUBMITTED")
        /\ Named(Inbox, "JOB_COMPLETED")' = Named(Inbox', "JOB_COMPLETED")
    BY DEF Named
  <2> QED
    BY <1>2, <1>4, <1>5, <1>6, <2>1, <2>2, <2>3, <2>4 DEF WayInv, Incoming
<1>8. Outgoing'
  <2>1. Outbox' = Outbox
    BY <1>1, <1>2
  <2>2. j \notin Named(Outbox, "EXECUTE_JOB") /\ j \notin Named(Outbox, "REJECT_JOB")
    BY <1>4 DEF Named, About
  <2>3. Named(Outbox, "EXECUTE_JOB") \subseteq Job /\ Named(Outbox, "REJECT_JOB") \subseteq Job
    BY DEF Named
  <2> QED
    BY <1>2, <1>5, <1>6, <2>1, <2>2, <2>3 DEF WayInv, Outgoing
<1>9. InScheduler'
  <2>1. pending_jobs \cup ToSet(scheduled_jobs) \subseteq Job \ {j}
    BY <1>4, ScheduledAreJobs DEF Held, TypeInv, QueueTypeOK
  <2>2. ToSet(scheduled_jobs)' = ToSet(scheduled_jobs)
    BY <1>2
  <2> QED
    BY <1>2, <1>6, <2>1, <2>2 DEF WayInv, InScheduler
<1>10. InSimulator'
  BY <1>2, <1>4, <1>6 DEF WayInv, InSimulator, Held, TypeInv, QueueTypeOK
<1> QED
  BY <1>1, <1>2, <1>7, <1>8, <1>9, <1>10 DEF WayInv, NeverAborted

\* An invariant about queues in the next state is about the queues of the next state.
LEMMA NextQueues ==
  /\ \A type : Named(Inbox, type)' = Named(Inbox', type)
  /\ \A type : Named(Outbox, type)' = Named(Outbox', type)
  /\ OneEach(Inbox)' <=> OneEach(Inbox')
  /\ OneEach(Outbox)' <=> OneEach(Outbox')
  BY DEF Named, OneEach

LEMMA NamedAreJobs == \A q, type : Named(q, type) \subseteq About(q) /\ Named(q, type) \subseteq Job
  BY DEF Named, About

LEMMA CompleteWay ==
  ASSUME TypeInv, WayInv, NEW j \in Job, NEW o \in Outcomes, SimComplete(j, o), UNCHANGED slurm_vars
  PROVE  WayInv'
<1>1. Waiting /\ UNCHANGED <<batsim, commands, loop_vars>> /\ truth[j] = "running"
      /\ truth' = [truth EXCEPT ![j] = "done"]
  BY DEF SimComplete
<1>2. /\ Inbox = mailbox /\ Inbox' = mailbox' /\ Outbox = commands /\ Outbox' = commands'
      /\ mailbox \in Seq(SlurmEvent) /\ commands \in Seq(SlurmCommand)
      /\ total_resources = N /\ Started' /\ NothingLate' /\ Held' = Held
      /\ UNCHANGED <<pending_jobs, running_jobs, scheduling, todo, scheduled_jobs>>
  BY <1>1, Simulating
<1>3. PICK new \in Seq(SlurmEvent) :
        /\ mailbox' = mailbox \o new
        /\ OneEach(new) /\ About(new) = {j}
        /\ Named(new, "JOB_SUBMITTED") = {} /\ Named(new, "JOB_COMPLETED") = {j}
  <2>1. /\ JobCompleted(j, o) \in SlurmEvent
        /\ JobCompleted(j, o).jobs = {j} /\ JobCompleted(j, o).type = "JOB_COMPLETED"
    BY DEF JobCompleted, Event, SlurmEvent, JobEvent
  <2>2. /\ OneEach(<<JobCompleted(j, o)>>) /\ About(<<JobCompleted(j, o)>>) = {j}
        /\ Named(<<JobCompleted(j, o)>>, "JOB_SUBMITTED") = {}
        /\ Named(<<JobCompleted(j, o)>>, "JOB_COMPLETED") = {j}
    <3> DEFINE e == JobCompleted(j, o)
    <3>1. e.jobs = {j} /\ e.type = "JOB_COMPLETED" /\ Job \cap e.jobs = {j}
      BY <2>1
    <3> HIDE DEF e
    <3>2. /\ OneEach(<<e>>) /\ About(<<e>>) = {j}
          /\ Named(<<e>>, "JOB_SUBMITTED") = {} /\ Named(<<e>>, "JOB_COMPLETED") = {j}
      BY <3>1, SingletonQueue
    <3> QED
      BY <3>2 DEF e
  <2>3. <<JobCompleted(j, o)>> \in Seq(SlurmEvent)
    BY <2>1
  <2>4. mailbox' = mailbox \o <<JobCompleted(j, o)>>
    BY <1>2, <2>1, AppendIsConcat DEF SimComplete
  <2> QED
    BY <2>2, <2>3, <2>4
<1>4. /\ j \in running_jobs /\ j \notin About(Inbox) /\ j \notin About(Outbox)
      /\ j \notin pending_jobs /\ j \notin ToSet(scheduled_jobs)
  <2>1. About(Inbox) = Named(Inbox, "JOB_SUBMITTED") \cup Named(Inbox, "JOB_COMPLETED")
    BY <1>2, EventsAboutJobs
  <2>2. About(Outbox) = Named(Outbox, "EXECUTE_JOB") \cup Named(Outbox, "REJECT_JOB")
    BY <1>2, CommandsAboutJobs
  <2> QED
    BY <1>1, <2>1, <2>2 DEF WayInv, Incoming, Outgoing, InScheduler, InSimulator
<1>5. /\ OneEach(Inbox')
      /\ Named(Inbox', "JOB_SUBMITTED") = Named(Inbox, "JOB_SUBMITTED")
      /\ Named(Inbox', "JOB_COMPLETED") = Named(Inbox, "JOB_COMPLETED") \cup {j}
  <2>1. Inbox \in Seq(SlurmEvent) /\ Inbox' = Inbox \o new
    BY <1>2, <1>3
  <2>2. OneEach(Inbox) /\ About(Inbox) \cap About(new) = {}
    BY <1>3, <1>4 DEF WayInv, Incoming
  <2>3. \A type : Named(Inbox \o new, type) = Named(Inbox, type) \cup Named(new, type)
    BY <2>1, JoinedQueue
  <2>4. OneEach(Inbox \o new)
    BY <1>3, <2>1, <2>2, JoinedQueue, JobsOfMessages
  <2> QED
    BY <1>3, <2>1, <2>3, <2>4
<1>6. truth'[j] = "done" /\ \A k \in Job \ {j} : truth'[k] = truth[k]
  BY <1>1 DEF TypeInv, SimInv, SimTypeOK
<1>7. Incoming'
  <2>1. /\ Named(Inbox, "JOB_SUBMITTED") \subseteq Job \ {j}
        /\ Named(Inbox, "JOB_COMPLETED") \subseteq Job \ {j}
    BY <1>4, NamedAreJobs
  <2> QED
    BY <1>2, <1>4, <1>5, <1>6, <2>1, NextQueues DEF WayInv, Incoming
<1>8. Outgoing'
  <2>1. /\ Outbox' = Outbox
        /\ Named(Outbox, "EXECUTE_JOB") \subseteq Job \ {j}
        /\ Named(Outbox, "REJECT_JOB") \subseteq Job \ {j}
    BY <1>1, <1>2, <1>4, NamedAreJobs
  <2> QED
    BY <1>2, <1>5, <1>6, <2>1, NextQueues DEF WayInv, Outgoing
<1>9. InScheduler'
  <2>1. pending_jobs \cup ToSet(scheduled_jobs) \subseteq Job \ {j}
    BY <1>4, ScheduledAreJobs DEF TypeInv, QueueTypeOK
  <2>2. ToSet(scheduled_jobs)' = ToSet(scheduled_jobs)
    BY <1>2
  <2> QED
    BY <1>2, <1>6, <2>1, <2>2 DEF WayInv, InScheduler
<1>10. InSimulator'
  BY <1>2, <1>4, <1>6 DEF WayInv, InSimulator, TypeInv, QueueTypeOK
<1> QED
  BY <1>1, <1>2, <1>7, <1>8, <1>9, <1>10 DEF WayInv, NeverAborted

\* A command finds its job where the scheduler left it.
LEMMA InjectWay ==
  ASSUME TypeInv, WayInv, InjectExecute \/ InjectReject, UNCHANGED slurm_vars
  PROVE  WayInv'
<1> DEFINE c == Head(commands)
<1>1. /\ Waiting /\ commands # <<>> /\ c.type \in {"EXECUTE_JOB", "REJECT_JOB"}
      /\ commands' = Tail(commands) /\ UNCHANGED <<mailbox, loop_vars>>
  BY DEF InjectExecute, InjectReject, Injecting, Injected
<1>2. /\ Inbox = mailbox /\ Inbox' = mailbox' /\ Outbox = commands /\ Outbox' = commands'
      /\ mailbox \in Seq(SlurmEvent) /\ commands \in Seq(SlurmCommand)
      /\ total_resources = N /\ Started' /\ NothingLate' /\ Held' = Held
      /\ UNCHANGED <<pending_jobs, running_jobs, scheduling, todo, scheduled_jobs>>
  BY <1>1, Simulating
<1>3. PICK j \in Job : c.jobs = {j}
  <2>1. c \in SlurmCommand
    BY <1>1, <1>2, HeadTailProperties
  <2>2. c.jobs \in {{k} : k \in Job}
    BY <2>1 DEF SlurmCommand
  <2> QED
    BY <2>2
<1>4. /\ OneEach(Outbox') /\ j \notin About(Outbox') /\ j \in Named(Outbox, c.type)
      /\ Named(Outbox', "EXECUTE_JOB") \subseteq Named(Outbox, "EXECUTE_JOB")
      /\ Named(Outbox', "REJECT_JOB") \subseteq Named(Outbox, "REJECT_JOB")
  <2>1. /\ Outbox \in Seq(SlurmCommand) /\ Outbox # <<>> /\ Outbox' = Tail(Outbox)
        /\ c = Head(Outbox) /\ OneEach(Outbox)
    BY <1>1, <1>2 DEF WayInv, Outgoing
  <2>2. /\ \A type : Named(Tail(Outbox), type) \subseteq Named(Outbox, type)
        /\ OneEach(Tail(Outbox)) /\ c.jobs \cap About(Tail(Outbox)) = {}
        /\ \A k \in Job : k \in c.jobs => k \in Named(Outbox, c.type)
    BY <2>1, TailOfQueue
  <2> QED
    BY <1>3, <2>1, <2>2
<1>5. truth[j] = "queued"
  BY <1>1, <1>4 DEF WayInv, Outgoing
<1>6. PICK to \in {"running", "rejected"} :
        /\ to = IF c.type = "EXECUTE_JOB" THEN "running" ELSE "rejected"
        /\ truth' = [k \in Job |-> IF k \in c.jobs THEN to ELSE truth[k]]
        /\ UNCHANGED batsim
  <2>1. \A k \in c.jobs : truth[k] = "queued"
    BY <1>3, <1>5
  <2>2. CASE InjectExecute
    BY <2>1, <2>2 DEF InjectExecute, Injecting, Move
  <2>3. CASE InjectReject
    BY <2>1, <2>3 DEF InjectReject, Injecting, Move
  <2> QED
    BY <2>2, <2>3
<1>7. truth'[j] = to /\ \A k \in Job \ {j} : truth'[k] = truth[k]
  BY <1>3, <1>6
<1>8. /\ j \notin pending_jobs /\ j \notin ToSet(scheduled_jobs)
      /\ to = "running" <=> j \in running_jobs
      /\ j \notin Named(Inbox, "JOB_SUBMITTED") /\ j \notin Named(Inbox, "JOB_COMPLETED")
  <2>1. CASE c.type = "EXECUTE_JOB"
    BY <1>4, <1>5, <1>6, <2>1 DEF WayInv, Incoming, Outgoing, InScheduler, Held
  <2>2. CASE c.type = "REJECT_JOB"
    BY <1>4, <1>5, <1>6, <2>2 DEF WayInv, Incoming, Outgoing, InScheduler, Held
  <2> QED
    BY <1>1, <2>1, <2>2
<1>9. Incoming'
  <2>1. /\ Inbox' = Inbox
        /\ Named(Inbox, "JOB_SUBMITTED") \subseteq Job \ {j}
        /\ Named(Inbox, "JOB_COMPLETED") \subseteq Job \ {j}
    BY <1>1, <1>2, <1>8, NamedAreJobs
  <2> QED
    BY <1>2, <1>7, <2>1, NextQueues DEF WayInv, Incoming
<1>10. Outgoing'
  <2>1. /\ Inbox' = Inbox
        /\ Named(Outbox', "EXECUTE_JOB") \subseteq Job \ {j}
        /\ Named(Outbox', "REJECT_JOB") \subseteq Job \ {j}
    BY <1>1, <1>2, <1>4, NamedAreJobs
  <2> QED
    BY <1>2, <1>4, <1>7, <2>1, NextQueues DEF WayInv, Outgoing
<1>11. InScheduler'
  <2>1. pending_jobs \cup ToSet(scheduled_jobs) \subseteq Job \ {j}
    BY <1>8, ScheduledAreJobs DEF TypeInv, QueueTypeOK
  <2>2. ToSet(scheduled_jobs)' = ToSet(scheduled_jobs)
    BY <1>2
  <2> QED
    BY <1>2, <1>7, <2>1, <2>2 DEF WayInv, InScheduler
<1>12. InSimulator'
  BY <1>2, <1>7, <1>8 DEF WayInv, InSimulator, TypeInv, QueueTypeOK
<1> QED
  BY <1>2, <1>6, <1>9, <1>10, <1>11, <1>12 DEF WayInv, NeverAborted

LEMMA SimWay ==
  ASSUME TypeInv, WayInv, Sim, UNCHANGED slurm_vars
  PROVE  WayInv'
<1>1. CASE SimTick
  <2>1. Waiting /\ UNCHANGED <<truth, batsim, commands, mailbox, loop_vars>>
    BY <1>1 DEF SimTick, sim_vars
  <2> QED
    BY <2>1, Simulating, StillWay
<1>2. ASSUME NEW j \in Job, SimSubmit(j) PROVE WayInv'
  BY <1>2, SubmitWay
<1>3. ASSUME NEW j \in Job, NEW o \in Outcomes, SimComplete(j, o) PROVE WayInv'
  BY <1>3, CompleteWay
<1>4. ~SimCall
  BY DEF SimCall, TypeInv, SimInv
<1>5. CASE Inject
  <2>1. Injecting(Head(commands).type) => Head(commands) \in SlurmCommand
    BY HeadTailProperties DEF Injecting, TypeInv, SimInv
  <2>2. InjectExecute \/ InjectReject
    BY <1>5, <2>1 DEF Inject, InjectExecute, InjectReject, InjectChange, InjectKill,
         InjectRegister, InjectNotify, InjectCallMeLater, Injecting, SlurmCommand
  <2> QED
    BY <2>2, InjectWay
<1>6. CASE SimEnd
  <2>1. /\ Waiting /\ UNCHANGED <<truth, commands, loop_vars>> /\ batsim' = "ending"
        /\ mailbox' = <<Signal("SIMULATION_ENDS")>>
    BY <1>6 DEF SimEnd
  <2>2. /\ Inbox' = mailbox' /\ Outbox' = Outbox /\ Started' /\ NothingLate' /\ Held' = Held
        /\ UNCHANGED <<pending_jobs, running_jobs, scheduling, todo, scheduled_jobs>>
    BY <2>1, Simulating
  <2>3. Signal("SIMULATION_ENDS").jobs = {}
    BY DEF Signal, Event
  <2>4. OneEach(Inbox') /\ \A type : Named(Inbox', type) = {}
    BY <2>1, <2>2, <2>3, SingletonQueue
  <2>5. Incoming'
    BY <2>4, NextQueues DEF Incoming
  <2>6. Outgoing'
    BY <2>1, <2>2, <2>4, NextQueues DEF WayInv, Outgoing
  <2>7. InScheduler' /\ InSimulator'
    BY <2>1, <2>2 DEF WayInv, InScheduler, InSimulator
  <2> QED
    BY <2>1, <2>2, <2>5, <2>6, <2>7 DEF WayInv, NeverAborted
<1> QED
  BY <1>1, <1>2, <1>3, <1>4, <1>5, <1>6 DEF Sim

LEMMA LoopWay ==
  ASSUME TypeInv, WayInv, Receive \/ Timeout \/ Dispatch \/ SendReply, UNCHANGED slurm_vars
  PROVE  WayInv'
<1>1. UNCHANGED <<pending_jobs, running_jobs, scheduling, todo, scheduled_jobs, total_resources>>
      /\ Held' = Held
  BY DEF slurm_vars, queue_vars, schedule_vars, Held
<1>2. CASE Receive
  <2>1. /\ phase = "recv" /\ phase' = "events" /\ events' = mailbox /\ mailbox' = <<>>
        /\ events_to_send' = <<>> /\ commands = <<>> /\ UNCHANGED <<truth, initialised>>
        /\ batsim # "aborted" => batsim' # "aborted"
    BY <1>2 DEF Receive
  <2>2. ~scheduling /\ ~scheduling'
    BY <1>1, <2>1 DEF TypeInv, InCallback
  <2>3. Inbox' = Inbox /\ Outbox' = Outbox /\ NothingLate'
    BY <2>1, <2>2 DEF Inbox, Outbox, Undealt, NothingLate
  <2>4. Started'
    BY <1>1, <2>1 DEF WayInv, Started
  <2> QED
    BY <1>1, <2>1, <2>3, <2>4
    DEF WayInv, Incoming, Outgoing, InScheduler, InSimulator, NeverAborted, Named
<1>3. CASE Timeout
  <2>1. phase = "recv" /\ phase' = "deadlock" /\ UNCHANGED <<sim_vars, events, initialised, events_to_send>>
    BY <1>3 DEF Timeout, api_vars
  <2>2. Inbox' = Inbox /\ Outbox' = Outbox /\ NothingLate'
    BY <2>1 DEF Inbox, Outbox, NothingLate, sim_vars
  <2>3. Started'
    BY <1>1, <2>1 DEF WayInv, Started, sim_vars
  <2> QED
    BY <1>1, <2>1, <2>2, <2>3, StillWay DEF sim_vars
<1>4. CASE Dispatch
  <2>1. UNCHANGED <<sim_vars, events_to_send>> /\ phase = "events"
    BY <1>4 DEF Dispatch, DispatchSimulationBegins, DispatchSimulationEnds,
         DispatchJobSubmitted, DispatchJobCompleted, DispatchJobKilled,
         DispatchRequestedCall, DispatchNotify, DispatchNoMoreEvents, api_vars, Dispatching
  <2>2. Dispatching(Head(events).type) => Head(events) \in SlurmEvent
    BY HeadTailProperties DEF Dispatching, TypeInv, LoopInv
  <2>3. ~DispatchJobKilled /\ ~DispatchRequestedCall
    BY <2>2 DEF DispatchJobKilled, DispatchRequestedCall, Dispatching, SlurmEvent,
         JobEvent, LifeEvent
  <2>4. phase' = "handler" /\ UNCHANGED <<events, initialised>>
    BY <1>4, <2>3 DEF Dispatch, DispatchSimulationBegins, DispatchSimulationEnds,
         DispatchJobSubmitted, DispatchJobCompleted, DispatchNotify, DispatchNoMoreEvents
  <2>5. Inbox' = Inbox /\ Outbox' = Outbox
    BY <1>1, <2>1, <2>4 DEF Inbox, Outbox, Undealt
  <2>6. Started' /\ NothingLate'
    BY <1>1, <2>1, <2>4 DEF WayInv, Started, NothingLate, sim_vars
  <2> QED
    BY <1>1, <2>1, <2>5, <2>6, StillWay DEF sim_vars
<1>5. CASE SendReply
  <2>1. /\ phase = "handler" /\ events = <<>> /\ commands' = events_to_send
        /\ UNCHANGED <<truth, batsim, mailbox>>
    BY <1>5 DEF SendReply, Reply
  <2>2. mailbox = <<>> /\ ~scheduling
    BY <2>1 DEF WayInv, NothingLate, TypeInv, InCallback
  <2>3. phase' \in {"init", "ended", "recv"} /\ (phase' = "init" <=> ~initialised)
    <3>1. ~initialised => phase' = "init"
      BY <1>5 DEF SendReply
    <3>2. initialised /\ running_simulation => phase' = "recv"
      BY <1>5 DEF SendReply
    <3>3. initialised /\ ~running_simulation => phase' = "ended"
      BY <1>5 DEF SendReply
    <3> QED
      BY <3>1, <3>2, <3>3
  <2>6. initialised'
    BY <1>5, Zenon DEF SendReply
  <2>4. Inbox' = Inbox /\ Outbox' = Outbox /\ NothingLate'
    BY <2>1, <2>2, <2>3 DEF Inbox, Outbox, Undealt, NothingLate
  <2>5. Started'
    BY <1>1, <2>1, <2>3, <2>6 DEF WayInv, Started
  <2> QED
    BY <1>1, <2>1, <2>4, <2>5, StillWay
<1> QED
  BY <1>2, <1>3, <1>4, <1>5

\* A callback that handles an event about job j.
LEMMA HandledWay ==
  ASSUME TypeInv, WayInv, ~scheduling, NEW type \in {"JOB_SUBMITTED", "JOB_COMPLETED"},
         Handling(type), NEW j \in Job, j \in Head(events).jobs
  PROVE  /\ phase = "handler" /\ events # <<>> /\ Head(events).type = type
         /\ Inbox = events /\ Outbox = events_to_send /\ mailbox = <<>>
         /\ Head(events).jobs = {j} /\ j \in Named(Inbox, type)
         /\ OneEach(Tail(events)) /\ j \notin About(Tail(events))
         /\ \A t : Named(Tail(events), t) \subseteq Named(Inbox, t)
         /\ total_resources = N /\ scheduled_jobs = <<>> /\ Held = running_jobs
<1>1. phase = "handler" /\ events # <<>> /\ Head(events) \in SlurmEvent /\ Head(events).type = type
  BY HandledEvent
<1>2. Inbox = events /\ Outbox = events_to_send /\ mailbox = <<>>
  BY <1>1 DEF Inbox, Outbox, Undealt, WayInv, NothingLate
<1>3. Head(events).jobs = {j}
  BY <1>1, OneJob
<1>4. events \in Seq(SlurmEvent)
  BY DEF TypeInv, LoopInv
<1>5. /\ \A t : Named(Tail(events), t) \subseteq Named(events, t)
      /\ OneEach(events) => OneEach(Tail(events))
      /\ OneEach(events) => Head(events).jobs \cap About(Tail(events)) = {}
      /\ \A k \in Job : k \in Head(events).jobs => k \in Named(events, Head(events).type)
  BY <1>1, <1>4, TailOfQueue
<1>6. j \in Named(Inbox, type)
  BY <1>1, <1>2, <1>3, <1>5
<1>7. truth[j] \in {"queued", "done"}
  BY <1>6 DEF WayInv, Incoming
<1>8. total_resources = N
  BY <1>7 DEF WayInv, Started
<1>9. scheduled_jobs = <<>> /\ Held = running_jobs
  BY DEF WayInv, InScheduler, Held, ToSet
<1>10. OneEach(Inbox)
  BY DEF WayInv, Incoming
<1> QED
  BY <1>1, <1>2, <1>3, <1>5, <1>6, <1>8, <1>9, <1>10

\* The event is dealt with: at once, or by the call of schedule() that begins.
LEMMA DealtWay ==
  ASSUME TypeInv, WayInv, ~scheduling, phase = "handler", total_resources = N,
         UNCHANGED <<total_resources, initialised, mailbox>>,
         \/ CallbackReturns /\ ~scheduling'
         \/ ScheduleBegin
  PROVE  Inbox' = Tail(events) /\ Outbox' = events_to_send' /\ NothingLate' /\ Started'
<1>1. /\ phase' \in {"events", "handler"}
      /\ scheduling' => events' = events
      /\ ~scheduling' => events' = Tail(events)
  BY DEF ScheduleBegin, CallbackReturns, schedule_vars
<1>2. mailbox' = <<>>
  BY DEF WayInv, NothingLate
<1>3. Inbox' = Tail(events) /\ Outbox' = events_to_send' /\ NothingLate'
  BY <1>1, <1>2 DEF Inbox, Outbox, Undealt, NothingLate
<1>4. initialised
  BY DEF WayInv, Started
<1>5. Started'
  BY <1>1, <1>4 DEF Started
<1> QED
  BY <1>3, <1>5

LEMMA SubmissionWay ==
  ASSUME TypeInv, WayInv, NEW j \in Job, OnJobSubmission(j)
  PROVE  WayInv'
<1>1. /\ Handling("JOB_SUBMITTED") /\ ~scheduling /\ j \in Head(events).jobs
      /\ pending_jobs' = pending_jobs \cup {j} /\ ScheduleBegin
      /\ UNCHANGED <<sim_vars, initialised, events_to_send, running_jobs, total_resources>>
  BY DEF OnJobSubmission, api_vars
<1>2. /\ phase = "handler" /\ Inbox = events /\ Outbox = events_to_send
      /\ j \in Named(Inbox, "JOB_SUBMITTED")
      /\ OneEach(Tail(events)) /\ j \notin About(Tail(events))
      /\ \A t : Named(Tail(events), t) \subseteq Named(Inbox, t)
      /\ total_resources = N /\ scheduled_jobs = <<>> /\ Held = running_jobs
  BY <1>1, HandledWay
<1>3. Inbox' = Tail(events) /\ Outbox' = events_to_send' /\ NothingLate' /\ Started'
  BY <1>1, <1>2, DealtWay DEF sim_vars
<1>4. /\ truth[j] = "queued" /\ j \notin pending_jobs /\ j \notin running_jobs
      /\ j \notin Named(Outbox, "REJECT_JOB")
  BY <1>2 DEF WayInv, Incoming, Outgoing
<1>5. scheduling' /\ todo' = pending_jobs' /\ scheduled_jobs' = <<>> /\ UNCHANGED <<truth, batsim>>
  BY <1>1, <1>2 DEF ScheduleBegin, sim_vars
<1>6. Held' = running_jobs /\ ToSet(scheduled_jobs') = {}
  BY <1>1, <1>5 DEF Held, ToSet
<1>7. Incoming'
  <2>1. j \notin Named(Tail(events), "JOB_SUBMITTED") /\ j \notin Named(Tail(events), "JOB_COMPLETED")
    BY <1>2, NamedAreJobs
  <2> QED
    BY <1>1, <1>2, <1>3, <1>5, <1>6, <2>1, NextQueues DEF WayInv, Incoming
<1>8. Outgoing'
  BY <1>1, <1>2, <1>3, <1>4, <1>5, <1>6, NextQueues DEF WayInv, Outgoing
<1>9. InScheduler'
  <2>1. ToSet(scheduled_jobs)' = {} /\ \A i : i \notin 1 .. Len(scheduled_jobs')
    BY <1>5, <1>6
  <2> QED
    BY <1>1, <1>4, <1>5, <2>1 DEF WayInv, InScheduler
<1>10. InSimulator'
  BY <1>1, <1>5 DEF WayInv, InSimulator
<1> QED
  BY <1>3, <1>5, <1>7, <1>8, <1>9, <1>10 DEF WayInv, NeverAborted

LEMMA CompletionWay ==
  ASSUME TypeInv, WayInv, NEW j \in Job, OnJobCompletion(j)
  PROVE  WayInv'
<1>1. /\ Handling("JOB_COMPLETED") /\ ~scheduling /\ j \in Head(events).jobs
      /\ pending_jobs' = pending_jobs \ {j} /\ running_jobs' = running_jobs \ {j} /\ ScheduleBegin
      /\ UNCHANGED <<sim_vars, initialised, events_to_send, total_resources>>
  BY DEF OnJobCompletion, api_vars
<1>2. /\ phase = "handler" /\ Inbox = events /\ Outbox = events_to_send
      /\ j \in Named(Inbox, "JOB_COMPLETED")
      /\ OneEach(Tail(events)) /\ j \notin About(Tail(events))
      /\ \A t : Named(Tail(events), t) \subseteq Named(Inbox, t)
      /\ total_resources = N /\ scheduled_jobs = <<>> /\ Held = running_jobs
  BY <1>1, HandledWay
<1>3. Inbox' = Tail(events) /\ Outbox' = events_to_send' /\ NothingLate' /\ Started'
  BY <1>1, <1>2, DealtWay DEF sim_vars
<1>4. truth[j] = "done"
  BY <1>2 DEF WayInv, Incoming
<1>5. /\ scheduled_jobs' = <<>> /\ UNCHANGED <<truth, batsim>>
      /\ scheduling' => todo' \subseteq pending_jobs'
  BY <1>1, <1>2 DEF ScheduleBegin, sim_vars, schedule_vars
<1>6. Held' = running_jobs \ {j} /\ ToSet(scheduled_jobs') = {}
  BY <1>1, <1>5 DEF Held, ToSet
<1>7. Incoming'
  <2>1. j \notin Named(Tail(events), "JOB_SUBMITTED") /\ j \notin Named(Tail(events), "JOB_COMPLETED")
    BY <1>2, NamedAreJobs
  <2> QED
    BY <1>1, <1>2, <1>3, <1>5, <1>6, <2>1, NextQueues DEF WayInv, Incoming
<1>8. Outgoing'
  <2>1. j \notin Named(Outbox, "EXECUTE_JOB")
    BY <1>4 DEF WayInv, Outgoing
  <2> QED
    BY <1>1, <1>2, <1>3, <1>5, <1>6, <2>1, NextQueues DEF WayInv, Outgoing
<1>9. InScheduler'
  <2>1. ToSet(scheduled_jobs)' = {} /\ \A i : i \notin 1 .. Len(scheduled_jobs')
    BY <1>5, <1>6
  <2> QED
    BY <1>1, <1>5, <2>1 DEF WayInv, InScheduler
<1>10. InSimulator'
  BY <1>1, <1>4, <1>5 DEF WayInv, InSimulator
<1> QED
  BY <1>3, <1>5, <1>7, <1>8, <1>9, <1>10 DEF WayInv, NeverAborted

LEMMA RefusalWay ==
  ASSUME TypeInv, WayInv, NEW j \in Job, OnJobSubmissionRefused(j)
  PROVE  WayInv'
<1>1. /\ Handling("JOB_SUBMITTED") /\ ~scheduling /\ j \in Head(events).jobs
      /\ CallbackReturns /\ RejectJobs(<<j>>)
      /\ UNCHANGED <<sim_vars, initialised>> /\ UNCHANGED slurm_vars
  BY DEF OnJobSubmissionRefused
<1>2. /\ UNCHANGED <<pending_jobs, running_jobs, scheduling, todo, scheduled_jobs, total_resources,
                     truth, batsim, mailbox>>
      /\ Held' = Held
  BY <1>1 DEF slurm_vars, queue_vars, schedule_vars, sim_vars, Held
<1>3. /\ phase = "handler" /\ Inbox = events /\ Outbox = events_to_send
      /\ j \in Named(Inbox, "JOB_SUBMITTED")
      /\ OneEach(Tail(events)) /\ j \notin About(Tail(events))
      /\ \A t : Named(Tail(events), t) \subseteq Named(Inbox, t)
      /\ total_resources = N
  BY <1>1, HandledWay
<1>4. Inbox' = Tail(events) /\ Outbox' = events_to_send' /\ NothingLate' /\ Started'
  BY <1>1, <1>2, <1>3, DealtWay
<1>5. /\ truth[j] = "queued" /\ j \notin pending_jobs \cup Held /\ j \notin running_jobs
      /\ j \notin Named(Outbox, "REJECT_JOB") /\ j \notin Named(Outbox, "EXECUTE_JOB")
  BY <1>3 DEF WayInv, Incoming, Outgoing, Held
<1>6. /\ OneEach(Outbox')
      /\ Named(Outbox', "EXECUTE_JOB") = Named(Outbox, "EXECUTE_JOB")
      /\ Named(Outbox', "REJECT_JOB") = Named(Outbox, "REJECT_JOB") \cup {j}
  <2> DEFINE new == OnePerJob("REJECT_JOB", <<j>>)
  <2>1. <<j>> \in Seq(Job) /\ Len(<<j>>) = 1 /\ ToSet(<<j>>) = {j}
    BY DEF ToSet
  <2>2. \A i, k \in 1 .. Len(<<j>>) : i # k => <<j>>[i] # <<j>>[k]
    BY <2>1
  <2>3. /\ OneEach(new) /\ About(new) = {j}
        /\ Named(new, "EXECUTE_JOB") = {} /\ Named(new, "REJECT_JOB") = {j}
    BY <2>1, <2>2, OnePerJobNamed
  <2>4. new \in Seq(SlurmCommand)
    BY <2>1, OnePerJobType
  <2>5. Outbox \in Seq(SlurmCommand) /\ Outbox' = Outbox \o new
    BY <1>1, <1>3, <1>4 DEF RejectJobs, TypeInv, ApiInv
  <2> HIDE DEF new
  <2>6. OneEach(Outbox) /\ About(Outbox) \cap About(new) = {}
    BY <1>5, <2>3, <2>5, CommandsAboutJobs DEF WayInv, Outgoing
  <2>7. /\ OneEach(Outbox \o new)
        /\ \A t : Named(Outbox \o new, t) = Named(Outbox, t) \cup Named(new, t)
    BY <2>3, <2>4, <2>5, <2>6, JoinedQueue, JobsOfMessages
  <2> QED
    BY <2>3, <2>5, <2>7
<1>7. j \notin Named(Tail(events), "JOB_SUBMITTED")
  BY <1>3, NamedAreJobs
<1>8. Incoming'
  BY <1>2, <1>3, <1>4, NextQueues DEF WayInv, Incoming
<1>9. Outgoing'
  BY <1>2, <1>3, <1>4, <1>5, <1>6, <1>7, NextQueues DEF WayInv, Outgoing
<1>10. InScheduler' /\ InSimulator'
  BY <1>2 DEF WayInv, InScheduler, InSimulator
<1> QED
  BY <1>2, <1>4, <1>8, <1>9, <1>10 DEF WayInv, NeverAborted

\* A callback that calls nothing, and the end of the initialisation.
LEMMA QuietWay ==
  ASSUME TypeInv, WayInv, OtherCallback
  PROVE  WayInv'
<1>1. PICK type \in {"SIMULATION_BEGINS", "SIMULATION_ENDS", "NOTIFY"} : Handling(type)
  BY DEF OtherCallback
<1>2. phase = "handler" /\ events # <<>> /\ Head(events).type = type
  BY <1>1 DEF Handling
<1>3. /\ CallbackReturns
      /\ UNCHANGED <<truth, batsim, mailbox, initialised, events_to_send, pending_jobs, running_jobs,
                     scheduling, todo, scheduled_jobs, total_resources>>
      /\ ~scheduling /\ Held' = Held
  BY <1>2 DEF OtherCallback, sim_vars, api_vars, slurm_vars, queue_vars, schedule_vars,
              TypeInv, InCallback, Held
<1>4. /\ Inbox = events /\ Inbox' = Tail(events) /\ Outbox' = Outbox /\ NothingLate' /\ Started'
  <2>1. phase' = "events" /\ events' = Tail(events)
    BY <1>3 DEF CallbackReturns
  <2> QED
    BY <1>2, <1>3, <2>1 DEF Inbox, Outbox, Undealt, WayInv, NothingLate, Started
<1>5. /\ \A t : Named(Tail(events), t) \subseteq Named(Inbox, t)
      /\ OneEach(Tail(events))
  <2>1. events \in Seq(SlurmEvent) /\ OneEach(events)
    BY <1>4 DEF TypeInv, LoopInv, WayInv, Incoming
  <2> QED
    BY <1>2, <1>4, <2>1, TailOfQueue
<1>6. Incoming'
  BY <1>3, <1>4, <1>5, NextQueues DEF WayInv, Incoming
<1>7. Outgoing'
  BY <1>3, <1>4, <1>5, NextQueues DEF WayInv, Outgoing
<1>8. InScheduler' /\ InSimulator'
  BY <1>3 DEF WayInv, InScheduler, InSimulator
<1> QED
  BY <1>3, <1>4, <1>6, <1>7, <1>8 DEF WayInv, NeverAborted

LEMMA InitialisedWay ==
  ASSUME TypeInv, WayInv, OnAfterBatsimInit
  PROVE  WayInv' /\ Held' = {}
<1>1. /\ phase = "init" /\ phase' = "recv" /\ total_resources' = N
      /\ UNCHANGED <<truth, batsim, mailbox, commands, initialised, pending_jobs, running_jobs,
                     scheduling, todo, scheduled_jobs>>
  BY DEF OnAfterBatsimInit, InitReturns, sim_vars, queue_vars, schedule_vars
<1>2. Held' = Held
  BY <1>1 DEF Held
<1>3. initialised /\ Held = {}
  <2>1. total_resources # N
    BY <1>1 DEF WayInv, Started
  <2>2. Held = {}
    BY <2>1 DEF WayInv, Started
  <2>3. initialised
    BY <1>1 DEF WayInv, Started
  <2> QED
    BY <2>2, <2>3
<1>4. Inbox' = Inbox /\ Outbox' = Outbox /\ NothingLate' /\ Started'
  BY <1>1, <1>3 DEF Inbox, Outbox, NothingLate, Started
<1> QED
  BY <1>1, <1>2, <1>3, <1>4, StillWay

\* A job at the end of a sequence of other jobs.
LEMMA AppendedJob ==
  ASSUME NEW s \in Seq(Job), NEW j \in Job, j \notin ToSet(s)
  PROVE  /\ ToSet(Append(s, j)) = ToSet(s) \cup {j}
         /\ (\A i, k \in 1 .. Len(s) : i # k => s[i] # s[k])
            => \A i, k \in 1 .. Len(Append(s, j)) : i # k => Append(s, j)[i] # Append(s, j)[k]
<1>1. /\ Len(s) \in Nat /\ DOMAIN s = 1 .. Len(s)
      /\ Len(Append(s, j)) = Len(s) + 1 /\ DOMAIN Append(s, j) = 1 .. Len(s) + 1
      /\ Append(s, j)[Len(s) + 1] = j
      /\ \A i \in 1 .. Len(s) : Append(s, j)[i] = s[i]
  OBVIOUS
<1>2. 1 .. Len(s) + 1 = 1 .. Len(s) \cup {Len(s) + 1}
  BY <1>1
<1>3. \A i \in 1 .. Len(s) : i # Len(s) + 1
  BY <1>1
<1>4. ToSet(Append(s, j)) = ToSet(s) \cup {j}
  BY <1>1, <1>2 DEF ToSet
<1>5. \A i \in 1 .. Len(s) : s[i] # j
  BY <1>1 DEF ToSet
<1> QED
  BY <1>1, <1>2, <1>3, <1>4, <1>5

\* While schedule() runs.
LEMMA SchedulingWay ==
  ASSUME TypeInv, WayInv, scheduling
  PROVE  /\ phase = "handler" /\ mailbox = <<>> /\ Inbox = Tail(events) /\ Outbox = events_to_send
         /\ todo \subseteq pending_jobs
<1>1. phase = "handler"
  BY DEF TypeInv, InCallback
<1> QED
  BY <1>1 DEF Inbox, Outbox, Undealt, WayInv, NothingLate, InScheduler

LEMMA IterationWay ==
  ASSUME TypeInv, WayInv, NEW j \in Job, ScheduleNext(j)
  PROVE  /\ WayInv' /\ total_resources = N /\ j \in pending_jobs /\ j \notin Held
         /\ CanStart(j) => Held' = Held \cup {j}
         /\ ~CanStart(j) => Held' = Held
<1>1. /\ scheduling /\ j \in todo /\ todo' = todo \ {j}
      /\ UNCHANGED <<truth, batsim, mailbox, commands, phase, events, initialised, events_to_send,
                     running_jobs, total_resources, scheduling>>
      /\ \/ /\ CanStart(j) /\ scheduled_jobs' = Append(scheduled_jobs, j)
            /\ pending_jobs' = pending_jobs \ {j}
         \/ /\ ~CanStart(j) /\ UNCHANGED <<scheduled_jobs, pending_jobs>>
  BY DEF ScheduleNext, Untried, batsim_vars, sim_vars, loop_vars, api_vars
<1>2. phase = "handler" /\ todo \subseteq pending_jobs
  BY <1>1, SchedulingWay
<1>3. Inbox' = Inbox /\ Outbox' = Outbox
  BY <1>1 DEF Inbox, Outbox, Undealt
<1>4. j \in pending_jobs /\ truth[j] = "queued" /\ j \notin running_jobs
      /\ j \notin ToSet(scheduled_jobs) /\ j \notin Held
  BY <1>1, <1>2 DEF WayInv, InScheduler, Held
<1>5. total_resources = N
  BY <1>4 DEF WayInv, Started
<1>6. Started' /\ NothingLate'
  BY <1>1, <1>5 DEF WayInv, Started, NothingLate
<1>7. CASE CanStart(j)
  <2>1. scheduled_jobs' = Append(scheduled_jobs, j) /\ pending_jobs' = pending_jobs \ {j}
    BY <1>1, <1>7
  <2>2. /\ ToSet(scheduled_jobs') = ToSet(scheduled_jobs) \cup {j}
        /\ \A i, k \in 1 .. Len(scheduled_jobs') : i # k => scheduled_jobs'[i] # scheduled_jobs'[k]
    BY <1>4, <2>1, AppendedJob DEF TypeInv, ScheduleTypeOK, WayInv, InScheduler
  <2>3. Held' = Held \cup {j}
    BY <1>1, <2>2 DEF Held
  <2>4. /\ j \notin Named(Inbox, "JOB_SUBMITTED") /\ j \notin Named(Outbox, "REJECT_JOB")
    BY <1>4 DEF WayInv, Incoming, Outgoing
  <2>5. pending_jobs' \cup Held' = pending_jobs \cup Held
    BY <1>4, <2>1, <2>3
  <2>6. Incoming'
    BY <1>1, <1>3, <2>5, NextQueues DEF WayInv, Incoming
  <2>7. Outgoing'
    BY <1>1, <1>3, <2>5, NextQueues DEF WayInv, Outgoing
  <2>8. InScheduler'
    <3>1. ToSet(scheduled_jobs)' = ToSet(scheduled_jobs) \cup {j}
      BY <2>2
    <3> QED
      BY <1>1, <1>4, <2>1, <2>2, <3>1 DEF WayInv, InScheduler
  <2>9. InSimulator'
    BY <1>1 DEF WayInv, InSimulator
  <2> QED
    BY <1>1, <1>4, <1>5, <1>6, <1>7, <2>3, <2>6, <2>7, <2>8, <2>9 DEF WayInv, NeverAborted
<1>8. CASE ~CanStart(j)
  <2>1. UNCHANGED <<scheduled_jobs, pending_jobs>>
    BY <1>1, <1>8
  <2>2. Held' = Held /\ ToSet(scheduled_jobs)' = ToSet(scheduled_jobs)
    BY <1>1, <2>1 DEF Held
  <2>3. Incoming'
    BY <1>1, <1>3, <2>1, <2>2, NextQueues DEF WayInv, Incoming
  <2>4. Outgoing'
    BY <1>1, <1>3, <2>1, <2>2, NextQueues DEF WayInv, Outgoing
  <2>5. InScheduler' /\ InSimulator'
    BY <1>1, <2>1, <2>2 DEF WayInv, InScheduler, InSimulator
  <2> QED
    BY <1>1, <1>4, <1>5, <1>6, <1>8, <2>2, <2>3, <2>4, <2>5 DEF WayInv, NeverAborted
<1> QED
  BY <1>7, <1>8

\* The jobs given machines go out, all at once.
LEMMA HandedOverWay ==
  ASSUME TypeInv, WayInv, ScheduleEnd
  PROVE  WayInv' /\ Held' = Held
<1> DEFINE new == OnePerJob("EXECUTE_JOB", scheduled_jobs)
           S == ToSet(scheduled_jobs)
<1>1. /\ scheduling /\ events_to_send' = events_to_send \o new
      /\ running_jobs' = running_jobs \cup S /\ scheduled_jobs' = <<>>
      /\ phase' = "events" /\ events' = Tail(events)
      /\ UNCHANGED <<truth, batsim, mailbox, initialised, pending_jobs, total_resources>>
  BY DEF ScheduleEnd, ExecuteJobs, CallbackReturns, sim_vars
<1>2. ~scheduling'
  BY Zenon DEF ScheduleEnd
<1>3. /\ phase = "handler" /\ mailbox = <<>> /\ Inbox = Tail(events) /\ Outbox = events_to_send
  BY <1>1, SchedulingWay
<1>4. Inbox' = Inbox /\ Outbox' = Outbox \o new /\ NothingLate'
  BY <1>1, <1>2, <1>3 DEF Inbox, Outbox, Undealt, NothingLate
<1>5. ToSet(scheduled_jobs') = {} /\ Held' = Held
  BY <1>1 DEF Held, ToSet
<1>6. Started'
  BY <1>1, <1>3, <1>5 DEF WayInv, Started
<1>7. S \subseteq Job /\ \A j \in S : truth[j] = "queued" /\ j \notin running_jobs /\ j \notin pending_jobs
  BY ScheduledAreJobs DEF WayInv, InScheduler
<1>8. /\ OneEach(new) /\ About(new) = S
      /\ Named(new, "EXECUTE_JOB") = S /\ Named(new, "REJECT_JOB") = {}
      /\ new \in Seq(SlurmCommand)
  <2>1. /\ scheduled_jobs \in Seq(Job)
        /\ \A i, k \in 1 .. Len(scheduled_jobs) : i # k => scheduled_jobs[i] # scheduled_jobs[k]
    BY DEF TypeInv, ScheduleTypeOK, WayInv, InScheduler
  <2> QED
    BY <2>1, OnePerJobNamed, OnePerJobType
<1> HIDE DEF new
<1>9. /\ OneEach(Outbox')
      /\ Named(Outbox', "EXECUTE_JOB") = Named(Outbox, "EXECUTE_JOB") \cup S
      /\ Named(Outbox', "REJECT_JOB") = Named(Outbox, "REJECT_JOB")
  <2>1. Outbox \in Seq(SlurmCommand) /\ OneEach(Outbox)
    BY <1>3 DEF TypeInv, ApiInv, WayInv, Outgoing
  <2>2. S \subseteq Held
    BY DEF Held
  <2>3. About(Outbox) \cap About(new) = {}
    BY <1>7, <1>8, <2>1, <2>2, CommandsAboutJobs DEF WayInv, Outgoing
  <2>4. /\ OneEach(Outbox \o new)
        /\ \A t : Named(Outbox \o new, t) = Named(Outbox, t) \cup Named(new, t)
    BY <1>8, <2>1, <2>3, JoinedQueue, JobsOfMessages
  <2> QED
    BY <1>4, <1>8, <2>4
<1>10. Incoming'
  BY <1>1, <1>4, <1>5, NextQueues DEF WayInv, Incoming
<1>11. Outgoing'
  BY <1>1, <1>4, <1>5, <1>7, <1>9, NextQueues DEF WayInv, Outgoing
<1>12. InScheduler'
  <2>1. ToSet(scheduled_jobs)' = {} /\ \A i : i \notin 1 .. Len(scheduled_jobs')
    BY <1>1, <1>5
  <2> QED
    BY <1>1, <1>2, <1>7, <2>1 DEF WayInv, InScheduler
<1>13. InSimulator'
  BY <1>1, <1>7 DEF WayInv, InSimulator
<1> QED
  BY <1>1, <1>4, <1>5, <1>6, <1>10, <1>11, <1>12, <1>13 DEF WayInv, NeverAborted

LEMMA WayStep == TypeInv /\ WayInv /\ [Next]_vars => WayInv'
<1> SUFFICES ASSUME TypeInv, WayInv, [Next]_vars PROVE WayInv'
  OBVIOUS
<1>1. CASE LibraryStep
  BY <1>1, SimWay, LoopWay DEF LibraryStep, Library
<1>2. CASE Callback
  BY <1>2, InitialisedWay, RefusalWay, SubmissionWay, CompletionWay, IterationWay,
     HandedOverWay, QuietWay DEF Callback
<1>3. CASE UNCHANGED vars
  <2>1. UNCHANGED <<truth, batsim, mailbox, commands, phase, events, initialised, events_to_send,
                    pending_jobs, running_jobs, scheduling, todo, scheduled_jobs, total_resources>>
    BY <1>3 DEF vars, batsim_vars, sim_vars, loop_vars, api_vars, slurm_vars, queue_vars, schedule_vars
  <2>2. Inbox' = Inbox /\ Outbox' = Outbox /\ NothingLate' /\ Held' = Held
    BY <2>1 DEF Inbox, Outbox, Undealt, WayInv, NothingLate, Held
  <2>3. Started'
    BY <2>1, <2>2 DEF WayInv, Started
  <2> QED
    BY <2>1, <2>2, <2>3, StillWay
<1> QED
  BY <1>1, <1>2, <1>3 DEF Next

-----------------------------------------------------------------------------
\* The machines

\* A step that neither gives nor frees machines.
LEMMA StillMachines ==
  ASSUME MachinesPartitioned,
         UNCHANGED <<available_resources, total_resources, allocation>>, Held' = Held
  PROVE  MachinesPartitioned'
  BY DEF MachinesPartitioned

LEMMA MachineStep == SafetyInv /\ [Next]_vars => MachinesPartitioned'
<1> SUFFICES ASSUME TypeInv, WayInv, MachinesPartitioned, [Next]_vars
             PROVE  MachinesPartitioned'
  BY DEF SafetyInv
<1> USE DEF TypeInv, MachineTypeOK
<1>1. CASE UNCHANGED slurm_vars
  BY <1>1, StillMachines DEF slurm_vars, queue_vars, schedule_vars, Held
<1>2. CASE OnAfterBatsimInit
  <2>1. Held' = {} /\ available_resources' = Machine
    BY <1>2, InitialisedWay DEF OnAfterBatsimInit, ProcSetUpTo, Machine
  <2> QED
    BY <2>1 DEF MachinesPartitioned
<1>3. ASSUME NEW j \in Job, OnJobSubmission(j) PROVE MachinesPartitioned'
  <2>1. ~scheduling /\ UNCHANGED <<available_resources, total_resources, allocation, running_jobs>>
        /\ scheduled_jobs' = scheduled_jobs
    BY <1>3 DEF OnJobSubmission, ScheduleBegin, schedule_vars
  <2> QED
    BY <2>1, StillMachines DEF Held
<1>4. ASSUME NEW j \in Job, OnJobCompletion(j) PROVE MachinesPartitioned'
  <2>1. /\ Handling("JOB_COMPLETED") /\ ~scheduling /\ j \in Head(events).jobs
        /\ available_resources' = available_resources \cup allocation[j]
        /\ running_jobs' = running_jobs \ {j} /\ scheduled_jobs' = scheduled_jobs
        /\ UNCHANGED <<total_resources, allocation>>
    BY <1>4 DEF OnJobCompletion, Free, ScheduleBegin, schedule_vars
  <2>2. /\ j \in Named(Inbox, "JOB_COMPLETED") /\ total_resources = N
        /\ scheduled_jobs = <<>> /\ Held = running_jobs
    BY <2>1, HandledWay
  <2>3. j \in Held
    BY <2>2 DEF WayInv, Incoming
  <2>4. Held' = Held \ {j}
    BY <2>1, <2>2 DEF Held, ToSet
  <2> QED
    BY <2>1, <2>2, <2>3, <2>4 DEF MachinesPartitioned
<1>5. ASSUME NEW j \in Job, ScheduleNext(j) PROVE MachinesPartitioned'
  <2>1. /\ WayInv' /\ total_resources = N /\ j \in pending_jobs /\ j \notin Held
        /\ CanStart(j) => Held' = Held \cup {j}
        /\ ~CanStart(j) => Held' = Held
    BY <1>5, IterationWay
  <2>2. CASE CanStart(j)
    <3>1. /\ allocation' = [allocation EXCEPT ![j] = FirstOf(FreeFor(j), workload[j].res)]
          /\ available_resources' = available_resources \ allocation'[j]
          /\ UNCHANGED total_resources
      BY <1>5, <2>2 DEF ScheduleNext, Take
    <3>2. FirstOf(FreeFor(j), workload[j].res) \subseteq available_resources
      BY DEF FirstOf, FreeFor
    <3>3. allocation'[j] \subseteq available_resources
      BY <3>1, <3>2
    <3>4. \A k \in Held : k # j /\ allocation'[k] = allocation[k]
      BY <2>1, <3>1, ScheduledAreJobs DEF Held, QueueTypeOK
    <3>5. Held' = Held \cup {j}
      BY <2>1, <2>2
    <3> QED
      BY <2>1, <3>1, <3>3, <3>4, <3>5 DEF MachinesPartitioned
  <2>3. CASE ~CanStart(j)
    BY <1>5, <2>1, <2>3, StillMachines DEF ScheduleNext
  <2> QED
    BY <2>2, <2>3
<1>6. CASE ScheduleEnd
  BY <1>6, HandedOverWay, StillMachines DEF ScheduleEnd
<1>7. ASSUME NEW j \in Job, OnJobSubmissionRefused(j) PROVE UNCHANGED slurm_vars
  BY <1>7 DEF OnJobSubmissionRefused
<1>8. CASE OtherCallback
  BY <1>1, <1>8 DEF OtherCallback
<1> QED
  BY <1>1, <1>2, <1>3, <1>4, <1>5, <1>6, <1>7, <1>8 DEF Next, Callback, LibraryStep, vars

LEMMA InitMachines == Init => MachinesPartitioned
  BY SlurmAssumption DEF Init, MachinesPartitioned

\* The invariant is inductive.
LEMMA Safety == Spec => []SafetyInv
<1>1. Init => SafetyInv
  BY InitType, InitWay, InitMachines DEF SafetyInv
<1>2. SafetyInv /\ [Next]_vars => SafetyInv'
  BY TypeStep, WayStep, MachineStep DEF SafetyInv
<1> QED
  BY <1>1, <1>2, PTL DEF Spec

-----------------------------------------------------------------------------
\* The theorems

\* In the scheduler's books every machine is available or held by exactly one
\* job, in every reachable state.
THEOREM MachinesSafe == Spec => []MachinesPartitioned
<1>1. SafetyInv => MachinesPartitioned
  BY DEF SafetyInv
<1> QED
  BY Safety, <1>1, PTL

\* No machine of the simulator ever runs two jobs, nor one the scheduler takes
\* for available, whatever is under way between the two processes.
THEOREM NeverOversubscribed == Spec => []NoOversubscription
<1>1. SafetyInv => NoOversubscription
  <2> SUFFICES ASSUME SafetyInv PROVE NoOversubscription
    OBVIOUS
  <2>1. \A j \in Job : truth[j] = "running" => total_resources = N /\ j \in Held
    BY DEF SafetyInv, WayInv, InSimulator, Started, Held
  <2> QED
    BY <2>1 DEF SafetyInv, MachinesPartitioned, NoOversubscription
<1> QED
  BY Safety, <1>1, PTL

\* The simulator never aborts: the commands of this scheduler reach each job
\* once, while it is in the queue of the simulator.
THEOREM SimulatorObeys == Spec => []NeverAborted
<1>1. SafetyInv => NeverAborted
  BY DEF SafetyInv, WayInv
<1> QED
  BY Safety, <1>1, PTL

-----------------------------------------------------------------------------
\* No machine idle that a pending job could use, no job overtaken
\*
\* Both rest on what the loop of schedule() has established when it has tried a
\* part of the pending jobs: those tried and still pending do not fit.  The loop
\* only takes machines, so they still do not fit at its end.

\* The pending jobs that the loop of schedule() has still to try.
ToTry == IF scheduling THEN todo ELSE {}

TriedInVain == \A j \in pending_jobs \ ToTry : Cardinality(FreeFor(j)) < workload[j].res

WorkInv == SafetyInv /\ TriedInVain

-----------------------------------------------------------------------------

LEMMA FreeMachines ==
  ASSUME TypeInv, NEW S, S \subseteq available_resources
  PROVE  IsFiniteSet(S) /\ Cardinality(S) \in Nat /\ Cardinality(S) <= Cardinality(available_resources)
<1>1. IsFiniteSet(Machine)
  BY SlurmAssumption, FS_Interval DEF Machine
<1>2. IsFiniteSet(available_resources)
  BY <1>1, FS_Subset DEF TypeInv, MachineTypeOK
<1>3. IsFiniteSet(S) /\ Cardinality(S) <= Cardinality(available_resources)
  BY <1>2, FS_Subset
<1> QED
  BY <1>3, FS_CardinalityType

LEMMA RequestType ==
  ASSUME TypeInv, NEW j \in Job
  PROVE  workload[j].res \in Nat \ {0} /\ workload[j].user \in User
<1>1. j \in Static
  BY SlurmAssumption DEF Job
<1>2. workload \in [Static -> [res : Nat \ {0}, long : BOOLEAN, user : User]]
  BY SlurmAssumption DEF TypeInv
<1> QED
  BY <1>1, <1>2

\* A job can start exactly if its partition has enough free machines.
LEMMA StartsIfItFits ==
  ASSUME TypeInv, NEW j \in Job
  PROVE  CanStart(j) <=> ~(Cardinality(FreeFor(j)) < workload[j].res)
<1>1. FreeFor(j) \subseteq available_resources
  BY DEF FreeFor
<1>2. /\ Cardinality(FreeFor(j)) \in Nat
      /\ Cardinality(FreeFor(j)) <= Cardinality(available_resources)
      /\ Cardinality(available_resources) \in Nat
  BY <1>1, FreeMachines
<1> QED
  BY <1>2, RequestType DEF CanStart

LEMMA StillTried ==
  ASSUME TriedInVain, UNCHANGED <<pending_jobs, workload, available_resources, total_resources>>,
         ToTry' = ToTry
  PROVE  TriedInVain'
  BY DEF TriedInVain, FreeFor, PartitionOf, PartitionResources, Half, determine_partition

LEMMA IterationTried ==
  ASSUME TypeInv, WayInv, TriedInVain, NEW j \in Job, ScheduleNext(j)
  PROVE  TriedInVain'
<1>1. /\ scheduling /\ scheduling' = scheduling /\ todo' = todo \ {j} /\ UNCHANGED <<workload, total_resources>>
      /\ available_resources' \subseteq available_resources
      /\ pending_jobs' \subseteq pending_jobs /\ (CanStart(j) => j \notin pending_jobs')
      /\ ~CanStart(j) => available_resources' = available_resources
  BY DEF ScheduleNext, Untried, Take
<1> SUFFICES ASSUME NEW k \in pending_jobs', k \notin ToTry'
             PROVE  Cardinality(FreeFor(k))' < workload[k].res'
  BY DEF TriedInVain
<1>2. k \in Job /\ k \in pending_jobs /\ (k = j \/ k \notin ToTry)
  BY <1>1 DEF ToTry, TypeInv, QueueTypeOK
<1>3. PartitionOf(k)' = PartitionOf(k)
  BY <1>1 DEF PartitionOf, PartitionResources, Half, determine_partition
<1>4. FreeFor(k)' \subseteq FreeFor(k) /\ FreeFor(k) \subseteq available_resources
  BY <1>1, <1>3 DEF FreeFor
<1>5. /\ Cardinality(FreeFor(k)) \in Nat /\ Cardinality(FreeFor(k)') \in Nat
      /\ Cardinality(FreeFor(k)') <= Cardinality(FreeFor(k))
  <2>1. IsFiniteSet(FreeFor(k)) /\ Cardinality(FreeFor(k)) \in Nat
    BY <1>4, FreeMachines
  <2>2. IsFiniteSet(FreeFor(k)') /\ Cardinality(FreeFor(k)') <= Cardinality(FreeFor(k))
    BY <1>4, <2>1, FS_Subset
  <2> QED
    BY <2>1, <2>2, FS_CardinalityType
<1>6. Cardinality(FreeFor(k)) < workload[k].res
  <2>1. CASE k \notin ToTry
    BY <1>2, <2>1 DEF TriedInVain
  <2>2. CASE k = j
    BY <1>1, <1>2, <2>2, StartsIfItFits
  <2> QED
    BY <1>2, <2>1, <2>2
<1> QED
  BY <1>1, <1>2, <1>5, <1>6, RequestType

LEMMA TriedStep == WorkInv /\ [Next]_vars => TriedInVain'
<1> SUFFICES ASSUME TypeInv, WayInv, TriedInVain, [Next]_vars PROVE TriedInVain'
  BY DEF WorkInv, SafetyInv
<1>1. CASE UNCHANGED slurm_vars
  BY <1>1, StillTried DEF slurm_vars, queue_vars, schedule_vars, ToTry
<1>2. CASE OnAfterBatsimInit
  <2>1. phase = "init" /\ pending_jobs' = pending_jobs
    BY <1>2 DEF OnAfterBatsimInit, InitReturns, queue_vars
  <2>2. total_resources # N
    BY <2>1 DEF WayInv, Started
  <2>3. pending_jobs = {}
    BY <2>2 DEF WayInv, Started
  <2> QED
    BY <2>1, <2>3 DEF TriedInVain
<1>3. CASE ~scheduling /\ ScheduleBegin
  BY <1>3 DEF ScheduleBegin, TriedInVain, ToTry
<1>4. ASSUME NEW j \in Job, ScheduleNext(j) PROVE TriedInVain'
  BY <1>4, IterationTried
<1>5. CASE ScheduleEnd
  <2>1. /\ todo = {} /\ UNCHANGED <<pending_jobs, workload, available_resources, total_resources, todo>>
    BY <1>5 DEF ScheduleEnd
  <2>2. ToTry = {} /\ ToTry' = {}
    BY <2>1 DEF ToTry
  <2> QED
    BY <2>1, <2>2, StillTried
<1>6. ASSUME NEW j \in Job, OnJobSubmission(j) \/ OnJobCompletion(j)
      PROVE  ~scheduling /\ ScheduleBegin
  BY <1>6 DEF OnJobSubmission, OnJobCompletion
<1>7. ASSUME NEW j \in Job, OnJobSubmissionRefused(j) PROVE UNCHANGED slurm_vars
  BY <1>7 DEF OnJobSubmissionRefused
<1>8. CASE OtherCallback
  BY <1>1, <1>8 DEF OtherCallback
<1> QED
  BY <1>1, <1>2, <1>3, <1>4, <1>5, <1>6, <1>7, <1>8 DEF Next, Callback, LibraryStep, vars

LEMMA Work == Spec => []WorkInv
<1>1. Init => WorkInv
  BY InitType, InitWay, InitMachines DEF WorkInv, SafetyInv, Init, TriedInVain
<1>2. WorkInv /\ [Next]_vars => WorkInv'
  BY TypeStep, WayStep, MachineStep, TriedStep DEF WorkInv, SafetyInv
<1> QED
  BY <1>1, <1>2, PTL DEF Spec

-----------------------------------------------------------------------------
\* Priorities

LEMMA PriorityType ==
  ASSUME TypeInv, NEW j \in Job
  PROVE  calculate_job_priority(j, current_time) \in Int
<1>1. /\ {SchedDelay, WeightAge, WeightJobSize, WeightFairshare, WeightPartition} \subseteq Int
      /\ MaxAge \in Int /\ MaxPartitionPriority \in Int
  BY SlurmAssumption DEF MaxPartitionPriority
<1>2. workload[j].res \in Int /\ workload[j].user \in User
  BY RequestType
<1>3. total_resources \in Int /\ total_usage \in Int /\ current_time \in Int
      /\ submit_time[j] \in Int /\ \A u \in User : user_usage[u] \in Int
  BY SlurmAssumption DEF TypeInv, MachineTypeOK, UsageTypeOK, ScheduleTypeOK, JobInv, JobTypeOK
<1>4. /\ AgeFactor(j, current_time) \in Int /\ JobSizeFactor(j) \in Int
      /\ UsageScale \in Int /\ FairshareFactor(j) \in Int
      /\ PartitionPriority(determine_partition(j)) \in Int
  BY <1>1, <1>2, <1>3 DEF AgeFactor, JobSizeFactor, UsageScale, FairshareFactor, PartitionPriority
<1> HIDE DEF AgeFactor
<1>5. \A a, b \in Int : a * b \in Int /\ a + b \in Int
  OBVIOUS
<1> QED
  BY <1>1, <1>3, <1>4, <1>5 DEF calculate_job_priority

\* The step of the property below.
Overtakes(j, k) == calculate_job_priority(k, current_time) > calculate_job_priority(j, current_time)

LEMMA PriorityStep ==
  ASSUME WorkInv, [Next]_vars, NEW j \in pending_jobs, j \notin pending_jobs',
         NEW k \in pending_jobs', Overtakes(j, k)
  PROVE  ~CanStart(k)
<1>1. TypeInv /\ WayInv /\ TriedInVain
  BY DEF WorkInv, SafetyInv
<1>2. j \in Job /\ truth[j] = "queued"
  BY <1>1 DEF TypeInv, QueueTypeOK, WayInv, InScheduler
<1>3. PICK i \in Job : ScheduleNext(i) /\ pending_jobs' # pending_jobs
  <2>1. pending_jobs' # pending_jobs
    OBVIOUS
  <2>2. ~(UNCHANGED slurm_vars) /\ ~OnAfterBatsimInit /\ ~ScheduleEnd /\ ~OtherCallback
    BY <2>1 DEF slurm_vars, queue_vars, OnAfterBatsimInit, ScheduleEnd, OtherCallback
  <2>3. \A i \in Job : ~OnJobSubmissionRefused(i) /\ ~OnJobSubmission(i)
    BY <2>2 DEF OnJobSubmissionRefused, OnJobSubmission
  <2>4. ASSUME NEW i \in Job, OnJobCompletion(i) PROVE FALSE
    <3>1. Handling("JOB_COMPLETED") /\ ~scheduling /\ i \in Head(events).jobs /\ j = i
      BY <2>4 DEF OnJobCompletion
    <3>2. i \in Named(Inbox, "JOB_COMPLETED")
      BY <1>1, <3>1, HandledWay
    <3> QED
      BY <1>1, <1>2, <3>1, <3>2 DEF WayInv, Incoming
  <2> QED
    BY <2>1, <2>2, <2>3, <2>4 DEF Next, Callback, LibraryStep, vars
<1>4. i = j /\ scheduling /\ k \in pending_jobs /\ k # j /\ \A m \in todo \ {j} : Precedes(j, m)
  BY <1>3 DEF ScheduleNext
<1>5. k \in Job
  BY <1>1, <1>4 DEF TypeInv, QueueTypeOK
<1>6. k \notin todo
  <2>1. /\ calculate_job_priority(j, current_time) \in Int
        /\ calculate_job_priority(k, current_time) \in Int
    BY <1>1, <1>2, <1>5, PriorityType
  <2>2. ~Precedes(j, k)
    BY <2>1 DEF Overtakes, Precedes
  <2> QED
    BY <1>4, <2>2
<1>7. Cardinality(FreeFor(k)) < workload[k].res
  BY <1>1, <1>4, <1>6 DEF TriedInVain, ToTry
<1> QED
  BY <1>1, <1>5, <1>7, StartsIfItFits

-----------------------------------------------------------------------------
\* The theorems

\* Outside schedule() no pending job could start: none is forgotten when
\* machines are freed, or because a job of higher priority did not fit.
THEOREM NothingIdle == Spec => []WorkConserving
<1>1. WorkInv => WorkConserving
  BY DEF WorkInv, TriedInVain, ToTry, WorkConserving
<1> QED
  BY Work, <1>1, PTL

\* A job that gets machines overtakes only jobs that could not have had any.
THEOREM NoOvertaking == Spec => PriorityRespected
<1>1. WorkInv /\ [Next]_vars =>
        [\A j \in pending_jobs \ pending_jobs' : \A k \in pending_jobs' :
           calculate_job_priority(k, current_time) > calculate_job_priority(j, current_time)
             => ~CanStart(k)]_vars
  BY PriorityStep DEF Overtakes
<1> QED
  BY Work, <1>1, PTL DEF Spec, PriorityRespected

-----------------------------------------------------------------------------
\* No job is lost on its way

Ended == Completed \cup {"UNKNOWN"}

\* No job drops off its way.
Tracked == \A j \in Job :
  /\ truth[j] # "changed"
  /\ truth[j] = "queued" =>
       \/ j \in Named(Inbox, "JOB_SUBMITTED") \/ j \in pending_jobs
       \/ j \in ToSet(scheduled_jobs) \/ j \in About(Outbox)
  /\ j \in running_jobs /\ truth[j] = "queued" => j \in Named(Outbox, "EXECUTE_JOB")
  /\ j \in running_jobs /\ truth[j] = "done" => j \in Named(Inbox, "JOB_COMPLETED")

\* The job table knows how far a job is.
Told ==
  /\ \A j \in Job : truth[j] = "absent" \/ j \in Named(Inbox, "JOB_SUBMITTED") =>
       state[j] = "NONE" /\ job_state[j] \in {"NONE", "SUBMITTED"}
  /\ \A j \in pending_jobs \cup Held : state[j] # "REJECTED"
  /\ Handling("JOB_COMPLETED") /\ ~scheduling =>
       \A j \in Head(events).jobs : job_state[j] \in Ended

ClusterInv == WorkInv /\ Tracked /\ Told

-----------------------------------------------------------------------------
\* Queues

\* A queue loses only its head.
LEMMA HeadLeaves ==
  ASSUME NEW S, NEW q \in Seq(S), q # <<>>
  PROVE  /\ \A type : Named(q, type) \subseteq
                        Named(Tail(q), type) \cup (IF Head(q).type = type THEN Head(q).jobs ELSE {})
         /\ About(q) \subseteq About(Tail(q)) \cup Head(q).jobs
<1>1. /\ Len(q) \in Nat /\ Len(q) > 0 /\ Head(q) = q[1]
      /\ Len(Tail(q)) = Len(q) - 1
      /\ \A i \in 1 .. Len(Tail(q)) : Tail(q)[i] = q[i + 1]
  BY LenProperties, HeadTailProperties
<1>2. \A i \in 1 .. Len(q) : i = 1 \/ (i - 1 \in 1 .. Len(Tail(q)) /\ q[i] = Tail(q)[i - 1])
  <2> SUFFICES ASSUME NEW i \in 1 .. Len(q), i # 1
               PROVE  i - 1 \in 1 .. Len(Tail(q)) /\ q[i] = Tail(q)[i - 1]
    OBVIOUS
  <2>1. i - 1 \in 1 .. Len(Tail(q)) /\ (i - 1) + 1 = i
    BY <1>1
  <2> QED
    BY <1>1, <2>1
<1> QED
  BY <1>1, <1>2 DEF Named, About

\* A message about j at the end of a queue.
LEMMA LastArrives ==
  ASSUME NEW S, NEW q \in Seq(S), NEW e \in S, NEW j \in Job, e.jobs = {j}
  PROVE  \A type : Named(q \o <<e>>, type) = Named(q, type) \cup (IF e.type = type THEN {j} ELSE {})
<1> DEFINE new == <<e>>
<1>1. new \in Seq(S)
  OBVIOUS
<1>2. Job \cap e.jobs = {j}
  OBVIOUS
<1>3. \A type : Named(new, type) = IF e.type = type THEN {j} ELSE {}
  BY <1>2, SingletonQueue
<1> HIDE DEF new
<1>4. \A type : Named(q \o new, type) = Named(q, type) \cup Named(new, type)
  BY <1>1, JoinedQueue
<1>5. \A type : Named(q \o new, type) = Named(q, type) \cup (IF e.type = type THEN {j} ELSE {})
  BY <1>3, <1>4
<1> QED
  BY <1>5 DEF new

\* A step that leaves the queues alone, and those who act on them.
LEMMA StillTracked ==
  ASSUME Tracked, Inbox' = Inbox, Outbox' = Outbox,
         UNCHANGED <<truth, pending_jobs, running_jobs, scheduled_jobs>>
  PROVE  Tracked'
  BY DEF Tracked, Named, About

\* The same, with what the job table says of the jobs.
LEMMA StillTold ==
  ASSUME Told, Inbox' = Inbox, Handling("JOB_COMPLETED")' /\ ~scheduling' => FALSE,
         UNCHANGED <<truth, state, job_state, pending_jobs, running_jobs, scheduled_jobs>>
  PROVE  Told'
  BY DEF Told, Named, Held

-----------------------------------------------------------------------------
\* The simulator

\* A submitted job starts its way as an event in the inbox.
LEMMA SubmitTracked ==
  ASSUME TypeInv, WayInv, Tracked, Told, NEW j \in Job, SimSubmit(j), UNCHANGED slurm_vars
  PROVE  Tracked' /\ Told'
<1>1. Waiting /\ UNCHANGED <<commands, loop_vars, state, job_state>> /\ truth[j] = "absent"
      /\ truth' = [truth EXCEPT ![j] = "queued"]
  BY DEF SimSubmit, api_vars
<1>2. /\ Inbox = mailbox /\ Inbox' = mailbox' /\ Outbox = commands /\ Outbox' = commands'
      /\ mailbox \in Seq(SlurmEvent) /\ Held' = Held
      /\ UNCHANGED <<pending_jobs, running_jobs, scheduling, todo, scheduled_jobs>>
  BY <1>1, Simulating
<1>3. \A type : Named(Inbox', type) = Named(Inbox, type) \cup (IF type = "JOB_SUBMITTED" THEN {j} ELSE {})
  <2>1. /\ Submitted(j) \in SlurmEvent /\ Signal("NOTIFY") \in SlurmEvent
        /\ Submitted(j).jobs = {j} /\ Submitted(j).type = "JOB_SUBMITTED"
        /\ Signal("NOTIFY").jobs = {}
    BY DEF Submitted, Signal, Event, SlurmEvent, JobEvent, LifeEvent
  <2> DEFINE one == mailbox \o <<Submitted(j)>>
  <2>2. one \in Seq(SlurmEvent)
    BY <1>2, <2>1
  <2>3. \A type : Named(one, type) = Named(mailbox, type) \cup (IF type = "JOB_SUBMITTED" THEN {j} ELSE {})
    BY <1>2, <2>1, LastArrives
  <2> DEFINE notice == <<Signal("NOTIFY")>>
  <2>4. \A type : Named(notice, type) = {}
    BY <2>1, SingletonQueue
  <2>5. notice \in Seq(SlurmEvent) /\ <<Submitted(j)>> \in Seq(SlurmEvent)
    BY <2>1
  <2>7. mailbox' = one \/ mailbox' = mailbox \o <<Submitted(j), Signal("NOTIFY")>>
    BY DEF SimSubmit
  <2>8. mailbox \o <<Submitted(j), Signal("NOTIFY")>> = one \o notice
    <3> DEFINE first == <<Submitted(j)>>
    <3>1. <<Submitted(j), Signal("NOTIFY")>> = first \o notice
      OBVIOUS
    <3>2. one = mailbox \o first /\ first \in Seq(SlurmEvent)
      BY <2>5
    <3> HIDE DEF one, notice, first
    <3>3. mailbox \o (first \o notice) = (mailbox \o first) \o notice
      BY <1>2, <2>5, <3>2, ConcatAssociative
    <3> QED
      BY <3>1, <3>2, <3>3
  <2> HIDE DEF one, notice
  <2>6. \A type : Named(one \o notice, type) = Named(one, type) \cup Named(notice, type)
    BY <2>2, <2>5, JoinedQueue
  <2>9. /\ \A type : Named(one \o notice, type) = Named(one, type)
        /\ mailbox' = one \/ mailbox' = one \o notice
    BY <2>4, <2>6, <2>7, <2>8
  <2>10. \A type : Named(mailbox', type) = Named(one, type)
    BY <2>9
  <2> QED
    BY <1>2, <2>3, <2>10
<1>4. truth'[j] = "queued" /\ \A k \in Job \ {j} : truth'[k] = truth[k]
  BY <1>1 DEF TypeInv, SimInv, SimTypeOK
<1>5. j \notin running_jobs
  BY <1>1 DEF WayInv, InSimulator
<1>6. Outbox' = Outbox
  BY <1>1, <1>2
<1>7. Tracked'
  BY <1>2, <1>3, <1>4, <1>5, <1>6, NextQueues DEF Tracked
<1>8. Told'
  <2>1. \A k \in Job : (truth[k] = "absent")' \/ k \in Named(Inbox', "JOB_SUBMITTED") =>
          truth[k] = "absent" \/ k \in Named(Inbox, "JOB_SUBMITTED")
    BY <1>1, <1>3, <1>4
  <2>2. ~Handling("JOB_COMPLETED")'
    BY <1>1 DEF Waiting, Handling, loop_vars
  <2> QED
    BY <1>1, <1>2, <2>1, <2>2, NextQueues DEF Told
<1> QED
  BY <1>7, <1>8

\* A completed job goes on as an event in the inbox.
LEMMA CompleteTracked ==
  ASSUME TypeInv, WayInv, Tracked, Told, NEW j \in Job, NEW o \in Outcomes, SimComplete(j, o),
         UNCHANGED slurm_vars
  PROVE  Tracked' /\ Told'
<1>1. Waiting /\ UNCHANGED <<commands, loop_vars, state, job_state>> /\ truth[j] = "running"
      /\ truth' = [truth EXCEPT ![j] = "done"]
  BY DEF SimComplete, api_vars, job_vars
<1>2. /\ Inbox = mailbox /\ Inbox' = mailbox' /\ Outbox = commands /\ Outbox' = commands'
      /\ mailbox \in Seq(SlurmEvent) /\ Held' = Held
      /\ UNCHANGED <<pending_jobs, running_jobs, scheduling, todo, scheduled_jobs>>
  BY <1>1, Simulating
<1>3. \A type : Named(Inbox', type) = Named(Inbox, type) \cup (IF type = "JOB_COMPLETED" THEN {j} ELSE {})
  <2>1. /\ JobCompleted(j, o) \in SlurmEvent
        /\ JobCompleted(j, o).jobs = {j} /\ JobCompleted(j, o).type = "JOB_COMPLETED"
    BY DEF JobCompleted, Event, SlurmEvent, JobEvent
  <2>2. mailbox' = mailbox \o <<JobCompleted(j, o)>>
    BY <1>2, <2>1, AppendIsConcat DEF SimComplete
  <2> QED
    BY <1>2, <2>1, <2>2, LastArrives
<1>4. truth'[j] = "done" /\ \A k \in Job \ {j} : truth'[k] = truth[k]
  BY <1>1 DEF TypeInv, SimInv, SimTypeOK
<1>5. Outbox' = Outbox
  BY <1>1, <1>2
<1>6. Tracked'
  BY <1>2, <1>3, <1>4, <1>5, NextQueues DEF Tracked
<1>7. Told'
  <2>1. \A k \in Job : (truth[k] = "absent")' \/ k \in Named(Inbox', "JOB_SUBMITTED") =>
          truth[k] = "absent" \/ k \in Named(Inbox, "JOB_SUBMITTED")
    BY <1>1, <1>3, <1>4
  <2>2. ~Handling("JOB_COMPLETED")'
    BY <1>1 DEF Waiting, Handling, loop_vars
  <2> QED
    BY <1>1, <1>2, <2>1, <2>2, NextQueues DEF Told
<1> QED
  BY <1>6, <1>7

\* A command is taken out of the outbox when the job has moved.
LEMMA InjectTracked ==
  ASSUME TypeInv, WayInv, Tracked, Told, InjectExecute \/ InjectReject, UNCHANGED slurm_vars
  PROVE  Tracked' /\ Told'
<1> DEFINE c == Head(commands)
<1>1. /\ Waiting /\ commands # <<>> /\ c.type \in {"EXECUTE_JOB", "REJECT_JOB"}
      /\ commands' = Tail(commands) /\ UNCHANGED <<mailbox, loop_vars, state, job_state>>
  BY DEF InjectExecute, InjectReject, Injecting, Injected, api_vars
<1>2. /\ Inbox = mailbox /\ Inbox' = mailbox' /\ Outbox = commands /\ Outbox' = commands'
      /\ commands \in Seq(SlurmCommand) /\ Held' = Held
      /\ UNCHANGED <<pending_jobs, running_jobs, scheduling, todo, scheduled_jobs>>
  BY <1>1, Simulating
<1>3. PICK j \in Job : c.jobs = {j}
  <2>1. c \in SlurmCommand
    BY <1>1, <1>2, HeadTailProperties
  <2>2. c.jobs \in {{k} : k \in Job}
    BY <2>1 DEF SlurmCommand
  <2> QED
    BY <2>2
<1>4. /\ j \in Named(Outbox, c.type)
      /\ \A t : Named(Outbox, t) \subseteq Named(Outbox', t) \cup {j}
      /\ About(Outbox) \subseteq About(Outbox') \cup {j}
  <2>1. /\ Outbox \in Seq(SlurmCommand) /\ Outbox # <<>> /\ Outbox' = Tail(Outbox) /\ c = Head(Outbox)
    BY <1>1, <1>2
  <2>2. \A k \in Job : k \in c.jobs => k \in Named(Outbox, c.type)
    BY <2>1, TailOfQueue
  <2>3. /\ \A t : Named(Outbox, t) \subseteq Named(Tail(Outbox), t) \cup (IF c.type = t THEN {j} ELSE {})
        /\ About(Outbox) \subseteq About(Tail(Outbox)) \cup {j}
    BY <1>3, <2>1, HeadLeaves
  <2> QED
    BY <1>3, <2>1, <2>2, <2>3
<1>5. truth[j] = "queued"
  BY <1>1, <1>4 DEF WayInv, Outgoing
<1>6. /\ truth'[j] \in {"running", "rejected"} /\ \A k \in Job \ {j} : truth'[k] = truth[k]
  <2>1. \A k \in c.jobs : truth[k] = "queued"
    BY <1>3, <1>5
  <2>2. CASE InjectExecute
    BY <1>3, <2>1, <2>2 DEF InjectExecute, Injecting, Move
  <2>3. CASE InjectReject
    BY <1>3, <2>1, <2>3 DEF InjectReject, Injecting, Move
  <2> QED
    BY <2>2, <2>3
<1>7. Tracked'
  BY <1>1, <1>2, <1>4, <1>6, NextQueues DEF Tracked, About
<1>8. Told'
  <2>1. \A k \in Job : (truth[k] = "absent")' => truth[k] = "absent"
    BY <1>6
  <2>2. ~Handling("JOB_COMPLETED")'
    BY <1>1 DEF Waiting, Handling, loop_vars
  <2> QED
    BY <1>1, <1>2, <2>1, <2>2, NextQueues DEF Told
<1> QED
  BY <1>7, <1>8

\* No step of the simulator loses a job.
LEMMA SimTracked ==
  ASSUME TypeInv, WayInv, Tracked, Told, Sim, UNCHANGED slurm_vars
  PROVE  Tracked' /\ Told'
<1>1. CASE SimTick
  <2>1. Waiting /\ UNCHANGED <<truth, commands, mailbox, loop_vars, state, job_state>>
    BY <1>1 DEF SimTick, sim_vars, api_vars, job_vars
  <2>2. ~Handling("JOB_COMPLETED")'
    BY <2>1 DEF Waiting, Handling, loop_vars
  <2>3. Inbox' = Inbox /\ Outbox' = Outbox
        /\ UNCHANGED <<pending_jobs, running_jobs, scheduled_jobs>>
    BY <2>1, Simulating
  <2> QED
    BY <2>1, <2>2, <2>3, StillTracked, StillTold
<1>2. ASSUME NEW j \in Job, SimSubmit(j) PROVE Tracked' /\ Told'
  BY <1>2, SubmitTracked
<1>3. ASSUME NEW j \in Job, NEW o \in Outcomes, SimComplete(j, o) PROVE Tracked' /\ Told'
  BY <1>3, CompleteTracked
<1>4. ~SimCall
  BY DEF SimCall, TypeInv, SimInv
<1>5. CASE Inject
  <2>1. Injecting(Head(commands).type) => Head(commands) \in SlurmCommand
    BY HeadTailProperties DEF Injecting, TypeInv, SimInv
  <2>2. InjectExecute \/ InjectReject
    BY <1>5, <2>1 DEF Inject, InjectExecute, InjectReject, InjectChange, InjectKill,
         InjectRegister, InjectNotify, InjectCallMeLater, Injecting, SlurmCommand
  <2> QED
    BY <2>2, InjectTracked
<1>6. CASE SimEnd
  <2>1. /\ Waiting /\ UNCHANGED <<truth, commands, loop_vars, state, job_state>> /\ mailbox = <<>>
        /\ mailbox' = <<Signal("SIMULATION_ENDS")>>
    BY <1>6 DEF SimEnd, Finished, api_vars, job_vars
  <2>2. /\ Inbox = <<>> /\ Inbox' = mailbox' /\ Outbox' = Outbox /\ Held' = Held
        /\ UNCHANGED <<pending_jobs, running_jobs, scheduling, todo, scheduled_jobs>>
    BY <2>1, Simulating
  <2>3. Signal("SIMULATION_ENDS").jobs = {}
    BY DEF Signal, Event
  <2>4. \A type : Named(Inbox', type) = {} /\ Named(Inbox, type) = {}
    BY <2>1, <2>2, <2>3, SingletonQueue DEF Named
  <2>5. ~Handling("JOB_COMPLETED")'
    BY <2>1 DEF Waiting, Handling, loop_vars
  <2>6. Tracked'
    BY <2>1, <2>2, <2>4, NextQueues DEF Tracked
  <2> QED
    BY <2>1, <2>2, <2>4, <2>5, <2>6, NextQueues DEF Told
<1> QED
  BY <1>1, <1>2, <1>3, <1>4, <1>5, <1>6 DEF Sim

-----------------------------------------------------------------------------
\* The message loop

\* A step of the message loop moves the messages from one place to another,
\* and neither adds nor drops one.
LEMMA LoopQueues ==
  ASSUME TypeInv, WayInv, Receive \/ Timeout \/ Dispatch \/ SendReply, UNCHANGED slurm_vars
  PROVE  /\ Inbox' = Inbox /\ Outbox' = Outbox
         /\ UNCHANGED <<truth, pending_jobs, running_jobs, scheduled_jobs>> /\ ~scheduling
         /\ ~Dispatch => phase' # "handler" /\ UNCHANGED <<state, job_state>>
<1>1. UNCHANGED <<pending_jobs, running_jobs, scheduling, scheduled_jobs>>
  BY DEF slurm_vars, queue_vars, schedule_vars
<1>2. CASE Receive
  <2>1. /\ phase = "recv" /\ phase' = "events" /\ events' = mailbox /\ mailbox' = <<>>
        /\ events_to_send' = <<>> /\ commands = <<>> /\ UNCHANGED <<truth, state, job_state>>
    BY <1>2 DEF Receive, job_vars
  <2>2. ~scheduling /\ ~scheduling'
    BY <1>1, <2>1 DEF TypeInv, InCallback
  <2> QED
    BY <1>1, <2>1, <2>2 DEF Inbox, Outbox, Undealt
<1>3. CASE Timeout
  <2>1. phase = "recv" /\ phase' = "deadlock" /\ UNCHANGED <<truth, mailbox, commands, state, job_state>>
    BY <1>3 DEF Timeout, api_vars, sim_vars, job_vars
  <2>2. ~scheduling
    BY <2>1 DEF TypeInv, InCallback
  <2> QED
    BY <1>1, <2>1, <2>2 DEF Inbox, Outbox
<1>4. CASE Dispatch
  <2>1. UNCHANGED <<truth, mailbox, commands, events_to_send>> /\ phase = "events"
    BY <1>4 DEF Dispatch, DispatchSimulationBegins, DispatchSimulationEnds,
         DispatchJobSubmitted, DispatchJobCompleted, DispatchJobKilled,
         DispatchRequestedCall, DispatchNotify, DispatchNoMoreEvents, api_vars, sim_vars, Dispatching
  <2>2. Dispatching(Head(events).type) => Head(events) \in SlurmEvent
    BY HeadTailProperties DEF Dispatching, TypeInv, LoopInv
  <2>3. ~DispatchJobKilled
    BY <2>2 DEF DispatchJobKilled, Dispatching, SlurmEvent, JobEvent, LifeEvent
  <2>4. phase' = "handler" /\ UNCHANGED events
    BY <1>4, <2>3 DEF Dispatch, DispatchSimulationBegins, DispatchSimulationEnds,
         DispatchJobSubmitted, DispatchJobCompleted, DispatchRequestedCall, DispatchNotify,
         DispatchNoMoreEvents
  <2>5. ~scheduling
    BY <2>1 DEF TypeInv, InCallback
  <2> QED
    BY <1>1, <1>4, <2>1, <2>4, <2>5 DEF Inbox, Outbox, Undealt
<1>5. CASE SendReply
  <2>1. /\ phase = "handler" /\ events = <<>> /\ commands' = events_to_send
        /\ UNCHANGED <<truth, mailbox, state, job_state>>
    BY <1>5 DEF SendReply, Reply, job_vars
  <2>2. mailbox = <<>> /\ ~scheduling
    BY <2>1 DEF WayInv, NothingLate, TypeInv, InCallback
  <2>3. phase' \in {"init", "ended", "recv"}
    BY <1>5 DEF SendReply
  <2> QED
    BY <1>1, <2>1, <2>2, <2>3 DEF Inbox, Outbox, Undealt
<1> QED
  BY <1>2, <1>3, <1>4, <1>5

\* So no step of the message loop loses a job.
LEMMA LoopTracked ==
  ASSUME TypeInv, WayInv, Tracked, Told, Receive \/ Timeout \/ Dispatch \/ SendReply,
         UNCHANGED slurm_vars
  PROVE  Tracked' /\ Told'
<1>1. /\ Inbox' = Inbox /\ Outbox' = Outbox
      /\ UNCHANGED <<truth, pending_jobs, running_jobs, scheduled_jobs>> /\ ~scheduling
      /\ ~Dispatch => phase' # "handler" /\ UNCHANGED <<state, job_state>>
  BY LoopQueues
<1>2. Tracked'
  BY <1>1, StillTracked
<1>3. CASE ~Dispatch
  BY <1>1, <1>2, <1>3, StillTold DEF Handling
<1>4. CASE Dispatch
  <2>1. phase = "events" /\ Inbox = events
    BY <1>1, <1>4 DEF Dispatch, DispatchSimulationBegins, DispatchSimulationEnds,
         DispatchJobSubmitted, DispatchJobCompleted, DispatchJobKilled,
         DispatchRequestedCall, DispatchNotify, DispatchNoMoreEvents, Dispatching, Inbox, Undealt
  <2>2. Dispatching(Head(events).type) => Head(events) \in SlurmEvent
    BY HeadTailProperties DEF Dispatching, TypeInv, LoopInv
  <2>3. ~DispatchJobKilled
    BY <2>2 DEF DispatchJobKilled, Dispatching, SlurmEvent, JobEvent, LifeEvent
  <2>4. events \in Seq(SlurmEvent)
    BY DEF TypeInv, LoopInv
  <2>5. events # <<>> => \A k \in Job : k \in Head(events).jobs => k \in Named(Inbox, Head(events).type)
    BY <2>1, <2>4, TailOfQueue
  <2>6. state \in [Job -> {"NONE", "RUNNING", "REJECTED"}] /\ job_state \in [Job -> SlurmJobState]
    BY DEF TypeInv, ApiInv, ApiTypeOK, JobInv
  <2>7. Held' = Held
    BY <1>1 DEF Held
  <2>8. CASE DispatchJobSubmitted
    <3>1. PICK j \in Head(events).jobs : /\ job_state' = [job_state EXCEPT ![j] = "SUBMITTED"]
                                         /\ state' = [state EXCEPT ![j] = "NONE"]
      BY <2>8 DEF DispatchJobSubmitted
    <3>2. events # <<>> /\ Head(events).type = "JOB_SUBMITTED" /\ UNCHANGED events
      BY <2>8 DEF DispatchJobSubmitted, Dispatching
    <3>3. j \in Job
      BY <2>2, <3>1, <3>2, <2>8, OneJob DEF DispatchJobSubmitted, Dispatching
    <3>4. state'[j] = "NONE" /\ job_state'[j] = "SUBMITTED"
          /\ \A k \in Job \ {j} : state'[k] = state[k] /\ job_state'[k] = job_state[k]
      BY <2>6, <3>1, <3>3
    <3>5. ~Handling("JOB_COMPLETED")'
      BY <3>2 DEF Handling
    <3>6. pending_jobs \cup Held \subseteq Job
      BY ScheduledAreJobs DEF Held, TypeInv, QueueTypeOK
    <3> QED
      BY <1>1, <1>2, <2>7, <3>4, <3>5, <3>6, NextQueues DEF Told
  <2>9. CASE DispatchJobCompleted
    <3>1. PICK j \in Head(events).jobs :
            job_state' = [job_state EXCEPT ![j] = StateNamed(Head(events).state)]
      BY <2>9 DEF DispatchJobCompleted
    <3>2. events # <<>> /\ Head(events).type = "JOB_COMPLETED" /\ UNCHANGED <<events, state>>
      BY <2>9 DEF DispatchJobCompleted, Dispatching, api_vars
    <3>3. j \in Job /\ Head(events).jobs = {j}
      BY <2>2, <3>1, <3>2, <2>9, OneJob DEF DispatchJobCompleted, Dispatching
    <3>4. StateNamed(Head(events).state) \in Ended
      BY <2>2, <2>9, ConstantsAssumption
      DEF DispatchJobCompleted, Dispatching, StateNamed, JobState, Completed, Ended,
          SlurmEvent, JobEvent, LifeEvent
    <3>5. job_state'[j] \in Ended /\ \A k \in Job \ {j} : job_state'[k] = job_state[k]
      BY <2>6, <3>1, <3>3, <3>4
    <3>6. truth[j] = "done" /\ j \notin Named(Inbox, "JOB_SUBMITTED")
      BY <2>5, <3>2, <3>3 DEF WayInv, Incoming
    <3> QED
      BY <1>1, <1>2, <2>7, <3>2, <3>3, <3>5, <3>6, NextQueues DEF Told
  <2>10. CASE ~DispatchJobSubmitted /\ ~DispatchJobCompleted
    <3>1. UNCHANGED <<events, state, job_state>>
      BY <1>4, <2>3, <2>10 DEF Dispatch, DispatchSimulationBegins, DispatchSimulationEnds,
           DispatchRequestedCall, DispatchNotify, DispatchNoMoreEvents, api_vars, job_vars
    <3>2. events = <<>> \/ Head(events).type # "JOB_COMPLETED"
      BY <1>4, <2>3, <2>10 DEF Dispatch, DispatchSimulationBegins, DispatchSimulationEnds,
           DispatchRequestedCall, DispatchNotify, DispatchNoMoreEvents, Dispatching
    <3> QED
      BY <1>1, <1>2, <3>1, <3>2, StillTold DEF Handling
  <2> QED
    BY <2>8, <2>9, <2>10
<1> QED
  BY <1>3, <1>4

-----------------------------------------------------------------------------
\* The callbacks

\* A submitted job becomes pending, and its event leaves the inbox.
LEMMA SubmissionTracked ==
  ASSUME TypeInv, WayInv, Tracked, Told, NEW j \in Job, OnJobSubmission(j)
  PROVE  Tracked' /\ Told'
<1>1. /\ Handling("JOB_SUBMITTED") /\ ~scheduling /\ j \in Head(events).jobs
      /\ pending_jobs' = pending_jobs \cup {j} /\ ScheduleBegin
      /\ UNCHANGED <<truth, mailbox, initialised, events_to_send, running_jobs, total_resources, state, job_state>>
  BY DEF OnJobSubmission, api_vars, sim_vars, job_vars
<1>2. /\ phase = "handler" /\ Inbox = events /\ Outbox = events_to_send /\ events # <<>>
      /\ Head(events).jobs = {j} /\ Head(events).type = "JOB_SUBMITTED"
      /\ j \in Named(Inbox, "JOB_SUBMITTED")
      /\ \A t : Named(Tail(events), t) \subseteq Named(Inbox, t)
      /\ total_resources = N /\ scheduled_jobs = <<>> /\ Held = running_jobs
  BY <1>1, HandledWay
<1>3. Inbox' = Tail(events) /\ Outbox' = events_to_send'
  BY <1>1, <1>2, DealtWay
<1>4. \A t : Named(Inbox, t) \subseteq Named(Tail(events), t) \cup (IF t = "JOB_SUBMITTED" THEN {j} ELSE {})
  <2>1. events \in Seq(SlurmEvent)
    BY DEF TypeInv, LoopInv
  <2> QED
    BY <1>2, <2>1, HeadLeaves
<1>5. scheduling' /\ scheduled_jobs' = <<>>
  BY <1>1, <1>2 DEF ScheduleBegin
<1>6. Held' = Held /\ ToSet(scheduled_jobs)' = ToSet(scheduled_jobs)
  BY <1>1, <1>2, <1>5 DEF Held
<1>7. Tracked'
  BY <1>1, <1>2, <1>3, <1>4, <1>6, NextQueues DEF Tracked, About
<1>8. Told'
  BY <1>1, <1>2, <1>3, <1>5, <1>6, NextQueues DEF Told
<1> QED
  BY <1>7, <1>8

\* A completed job is no longer running, and its event leaves the inbox.
LEMMA CompletionTracked ==
  ASSUME TypeInv, WayInv, Tracked, Told, NEW j \in Job, OnJobCompletion(j)
  PROVE  Tracked' /\ Told'
<1>1. /\ Handling("JOB_COMPLETED") /\ ~scheduling /\ j \in Head(events).jobs
      /\ pending_jobs' = pending_jobs \ {j} /\ running_jobs' = running_jobs \ {j} /\ ScheduleBegin
      /\ UNCHANGED <<truth, mailbox, initialised, events_to_send, total_resources, state, job_state>>
  BY DEF OnJobCompletion, api_vars, sim_vars, job_vars
<1>2. /\ phase = "handler" /\ Inbox = events /\ Outbox = events_to_send /\ events # <<>>
      /\ Head(events).jobs = {j} /\ Head(events).type = "JOB_COMPLETED"
      /\ j \in Named(Inbox, "JOB_COMPLETED")
      /\ \A t : Named(Tail(events), t) \subseteq Named(Inbox, t)
      /\ total_resources = N /\ scheduled_jobs = <<>> /\ Held = running_jobs
  BY <1>1, HandledWay
<1>3. Inbox' = Tail(events) /\ Outbox' = events_to_send'
  BY <1>1, <1>2, DealtWay
<1>4. \A t : Named(Inbox, t) \subseteq Named(Tail(events), t) \cup (IF t = "JOB_COMPLETED" THEN {j} ELSE {})
  <2>1. events \in Seq(SlurmEvent)
    BY DEF TypeInv, LoopInv
  <2> QED
    BY <1>2, <2>1, HeadLeaves
<1>5. /\ scheduled_jobs' = <<>>
      /\ scheduling' \/ (phase' = "events")
  BY <1>1, <1>2 DEF ScheduleBegin, CallbackReturns, schedule_vars
<1>6. Held' = Held \ {j} /\ ToSet(scheduled_jobs)' = ToSet(scheduled_jobs)
  BY <1>1, <1>2, <1>5 DEF Held, ToSet
<1>7. truth[j] = "done"
  BY <1>2 DEF WayInv, Incoming
<1>8. Tracked'
  BY <1>1, <1>2, <1>3, <1>4, <1>6, <1>7, NextQueues DEF Tracked, About
<1>9. Told'
  BY <1>1, <1>2, <1>3, <1>5, <1>6, NextQueues DEF Told, Handling
<1> QED
  BY <1>8, <1>9

\* A job that no partition can hold is rejected: a command goes out, and its
\* event leaves the inbox.
LEMMA RefusalTracked ==
  ASSUME TypeInv, WayInv, Tracked, Told, NEW j \in Job, OnJobSubmissionRefused(j)
  PROVE  Tracked' /\ Told'
<1>1. /\ Handling("JOB_SUBMITTED") /\ ~scheduling /\ j \in Head(events).jobs
      /\ CallbackReturns /\ RejectJobs(<<j>>)
      /\ UNCHANGED <<truth, mailbox, initialised, job_state>> /\ UNCHANGED slurm_vars
  BY DEF OnJobSubmissionRefused, RejectJobs, sim_vars
<1>2. /\ UNCHANGED <<pending_jobs, running_jobs, scheduling, scheduled_jobs, total_resources>>
      /\ Held' = Held
  BY <1>1 DEF slurm_vars, queue_vars, schedule_vars, Held
<1>3. /\ phase = "handler" /\ Inbox = events /\ Outbox = events_to_send /\ events # <<>>
      /\ Head(events).jobs = {j} /\ Head(events).type = "JOB_SUBMITTED"
      /\ j \in Named(Inbox, "JOB_SUBMITTED") /\ j \notin About(Tail(events))
      /\ \A t : Named(Tail(events), t) \subseteq Named(Inbox, t)
      /\ total_resources = N
  BY <1>1, HandledWay
<1>4. Inbox' = Tail(events) /\ Outbox' = events_to_send'
  BY <1>1, <1>2, <1>3, DealtWay
<1>5. \A t : Named(Inbox, t) \subseteq Named(Tail(events), t) \cup (IF t = "JOB_SUBMITTED" THEN {j} ELSE {})
  <2>1. events \in Seq(SlurmEvent)
    BY DEF TypeInv, LoopInv
  <2> QED
    BY <1>3, <2>1, HeadLeaves
<1>6. /\ truth[j] = "queued" /\ j \notin pending_jobs \cup Held
  BY <1>3 DEF WayInv, Incoming
<1>7. /\ \A t : Named(Outbox, t) \subseteq Named(Outbox', t)
      /\ About(Outbox') = About(Outbox) \cup {j}
  <2> DEFINE new == OnePerJob("REJECT_JOB", <<j>>)
  <2>1. <<j>> \in Seq(Job) /\ Len(<<j>>) = 1 /\ ToSet(<<j>>) = {j}
    BY DEF ToSet
  <2>2. \A i, k \in 1 .. Len(<<j>>) : i # k => <<j>>[i] # <<j>>[k]
    BY <2>1
  <2>3. About(new) = {j} /\ new \in Seq(SlurmCommand)
    BY <2>1, <2>2, OnePerJobNamed, OnePerJobType
  <2>4. Outbox \in Seq(SlurmCommand) /\ Outbox' = Outbox \o new
    BY <1>1, <1>3, <1>4 DEF RejectJobs, TypeInv, ApiInv
  <2> HIDE DEF new
  <2>5. /\ About(Outbox \o new) = About(Outbox) \cup About(new)
        /\ \A t : Named(Outbox \o new, t) = Named(Outbox, t) \cup Named(new, t)
    BY <2>3, <2>4, JoinedQueue
  <2> QED
    BY <2>3, <2>4, <2>5
<1>8. \A k \in Job \ {j} : state'[k] = state[k]
  BY <1>1 DEF RejectJobs, ToSet
<1>9. Tracked'
  <2>1. About(Outbox)' = About(Outbox')
    BY DEF About
  <2> QED
    BY <1>1, <1>2, <1>3, <1>4, <1>5, <1>7, <2>1, NextQueues DEF Tracked
<1>10. Told'
  <2>1. j \notin Named(Tail(events), "JOB_SUBMITTED")
    BY <1>3, NamedAreJobs
  <2>2. ~Handling("JOB_COMPLETED")'
    BY <1>1 DEF CallbackReturns, Handling
  <2>3. pending_jobs \cup Held \subseteq Job \ {j}
    BY <1>6, ScheduledAreJobs DEF Held, TypeInv, QueueTypeOK
  <2> QED
    BY <1>1, <1>2, <1>3, <1>4, <1>6, <1>8, <2>1, <2>2, <2>3, NextQueues DEF Told
<1> QED
  BY <1>9, <1>10

\* The callbacks of the other events change nothing.
LEMMA QuietTracked ==
  ASSUME TypeInv, WayInv, Tracked, Told, OtherCallback
  PROVE  Tracked' /\ Told'
<1>1. PICK type \in {"SIMULATION_BEGINS", "SIMULATION_ENDS", "NOTIFY"} : Handling(type)
  BY DEF OtherCallback
<1>2. phase = "handler" /\ events # <<>> /\ Head(events).type = type
  BY <1>1 DEF Handling
<1>3. /\ CallbackReturns /\ ~scheduling /\ Held' = Held
      /\ UNCHANGED <<truth, mailbox, events_to_send, state, job_state, pending_jobs, running_jobs,
                     scheduling, scheduled_jobs>>
  BY <1>2 DEF OtherCallback, sim_vars, api_vars, job_vars, slurm_vars, queue_vars, schedule_vars,
              TypeInv, InCallback, Held
<1>4. /\ Inbox = events /\ Inbox' = Tail(events) /\ Outbox' = Outbox /\ phase' = "events"
  BY <1>2, <1>3 DEF Inbox, Outbox, Undealt, CallbackReturns
<1>5. /\ Named(Tail(events), "JOB_SUBMITTED") = Named(Inbox, "JOB_SUBMITTED")
      /\ Named(Tail(events), "JOB_COMPLETED") = Named(Inbox, "JOB_COMPLETED")
  <2>1. events \in Seq(SlurmEvent)
    BY DEF TypeInv, LoopInv
  <2>2. \A t : Named(Tail(events), t) \subseteq Named(events, t)
    BY <1>2, <2>1, TailOfQueue
  <2>3. \A t : Named(events, t) \subseteq
                 Named(Tail(events), t) \cup (IF Head(events).type = t THEN Head(events).jobs ELSE {})
    BY <1>2, <2>1, HeadLeaves
  <2>4. Head(events).type # "JOB_SUBMITTED" /\ Head(events).type # "JOB_COMPLETED"
    BY <1>2
  <2>5. /\ Named(events, "JOB_SUBMITTED") \subseteq Named(Tail(events), "JOB_SUBMITTED")
        /\ Named(events, "JOB_COMPLETED") \subseteq Named(Tail(events), "JOB_COMPLETED")
    BY <2>3, <2>4
  <2> QED
    BY <1>4, <2>2, <2>5
<1>6. Tracked'
  BY <1>3, <1>4, <1>5, NextQueues DEF Tracked, About
<1>7. Told'
  BY <1>3, <1>4, <1>5, NextQueues DEF Told, Handling
<1> QED
  BY <1>6, <1>7

\* An iteration of the scheduling loop moves at most one job, from the pending
\* ones to the scheduled ones.
LEMMA IterationTracked ==
  ASSUME TypeInv, WayInv, Tracked, Told, NEW j \in Job, ScheduleNext(j)
  PROVE  Tracked' /\ Told'
<1>1. /\ scheduling /\ scheduling' = scheduling
      /\ UNCHANGED <<truth, mailbox, commands, phase, events, events_to_send, state, job_state, running_jobs>>
      /\ \/ /\ CanStart(j) /\ scheduled_jobs' = Append(scheduled_jobs, j)
            /\ pending_jobs' = pending_jobs \ {j}
         \/ /\ ~CanStart(j) /\ UNCHANGED <<scheduled_jobs, pending_jobs>>
  BY DEF ScheduleNext, batsim_vars, sim_vars, loop_vars, api_vars, job_vars
<1>2. Inbox' = Inbox /\ Outbox' = Outbox
  BY <1>1 DEF Inbox, Outbox, Undealt
<1>3. j \in pending_jobs /\ j \notin Held
  BY IterationWay
<1>4. /\ pending_jobs' \cup ToSet(scheduled_jobs)' = pending_jobs \cup ToSet(scheduled_jobs)
  <2>1. CASE CanStart(j)
    <3>1. ToSet(Append(scheduled_jobs, j)) = ToSet(scheduled_jobs) \cup {j}
      BY <1>3, AppendedJob DEF TypeInv, ScheduleTypeOK, Held
    <3> QED
      BY <1>1, <1>3, <2>1, <3>1
  <2> QED
    BY <1>1, <2>1
<1>5. Tracked'
  BY <1>1, <1>2, <1>4, NextQueues DEF Tracked, About
<1>6. Told'
  BY <1>1, <1>2, <1>4, NextQueues DEF Told, Held
<1> QED
  BY <1>5, <1>6

\* The scheduled jobs become running, and their commands go out.
LEMMA HandedOverTracked ==
  ASSUME TypeInv, WayInv, Tracked, Told, ScheduleEnd
  PROVE  Tracked' /\ Told'
<1> DEFINE new == OnePerJob("EXECUTE_JOB", scheduled_jobs)
           S == ToSet(scheduled_jobs)
<1>1. /\ scheduling /\ events_to_send' = events_to_send \o new
      /\ running_jobs' = running_jobs \cup S
      /\ state' = [j \in Job |-> IF j \in S THEN "RUNNING" ELSE state[j]]
      /\ phase' = "events" /\ events' = Tail(events)
      /\ UNCHANGED <<truth, mailbox, pending_jobs, job_state>>
  BY DEF ScheduleEnd, ExecuteJobs, CallbackReturns, sim_vars
<1>2. ~scheduling'
  BY Zenon DEF ScheduleEnd
<1>3. /\ phase = "handler" /\ Inbox = Tail(events) /\ Outbox = events_to_send
  BY <1>1, SchedulingWay
<1>4. Inbox' = Inbox /\ Outbox' = Outbox \o new
  BY <1>1, <1>2, <1>3 DEF Inbox, Outbox, Undealt
<1>5. WayInv' /\ Held' = Held
  BY HandedOverWay
<1>6. S \subseteq Job /\ S \subseteq Held /\ \A j \in S : j \notin pending_jobs /\ truth[j] = "queued"
  BY ScheduledAreJobs DEF WayInv, InScheduler, Held
<1>7. About(new) = S /\ Named(new, "EXECUTE_JOB") = S /\ new \in Seq(SlurmCommand)
  <2>1. /\ scheduled_jobs \in Seq(Job)
        /\ \A i, k \in 1 .. Len(scheduled_jobs) : i # k => scheduled_jobs[i] # scheduled_jobs[k]
    BY DEF TypeInv, ScheduleTypeOK, WayInv, InScheduler
  <2> QED
    BY <2>1, OnePerJobNamed, OnePerJobType
<1> HIDE DEF new
<1>8. /\ About(Outbox') = About(Outbox) \cup S
      /\ Named(Outbox', "EXECUTE_JOB") = Named(Outbox, "EXECUTE_JOB") \cup S
  <2>1. Outbox \in Seq(SlurmCommand)
    BY <1>3 DEF TypeInv, ApiInv
  <2>2. /\ About(Outbox \o new) = About(Outbox) \cup About(new)
        /\ \A t : Named(Outbox \o new, t) = Named(Outbox, t) \cup Named(new, t)
    BY <1>7, <2>1, JoinedQueue
  <2> QED
    BY <1>4, <1>7, <2>2
<1>9. Tracked'
  <2>1. About(Outbox)' = About(Outbox')
    BY DEF About
  <2> QED
    BY <1>1, <1>4, <1>6, <1>8, <2>1, NextQueues DEF Tracked
<1>10. Told'
  <2>1. \A j \in S : j \notin Named(Inbox, "JOB_SUBMITTED")
    BY <1>6 DEF WayInv, Incoming
  <2>2. \A j \in Job \ S : state'[j] = state[j]
    BY <1>1
  <2>3. \A j \in S : state'[j] = "RUNNING"
    BY <1>1, <1>6
  <2>4. pending_jobs \cup Held \subseteq Job
    BY ScheduledAreJobs DEF Held, TypeInv, QueueTypeOK
  <2>5. ~Handling("JOB_COMPLETED")'
    BY <1>1 DEF Handling
  <2> QED
    BY <1>1, <1>4, <1>5, <1>6, <2>1, <2>2, <2>3, <2>4, <2>5, NextQueues DEF Told
<1> QED
  BY <1>9, <1>10

\* At onAfterBatsimInit there is no job yet.
LEMMA InitialisedTracked ==
  ASSUME TypeInv, WayInv, Tracked, Told, OnAfterBatsimInit
  PROVE  Tracked' /\ Told'
<1>1. /\ phase = "init" /\ phase' = "recv"
      /\ UNCHANGED <<truth, mailbox, commands, state, job_state, pending_jobs, running_jobs, scheduled_jobs>>
  BY DEF OnAfterBatsimInit, InitReturns, sim_vars, api_vars, job_vars, queue_vars, schedule_vars
<1>2. Inbox' = Inbox /\ Outbox' = Outbox /\ ~Handling("JOB_COMPLETED")'
  BY <1>1 DEF Inbox, Outbox, Handling
<1> QED
  BY <1>1, <1>2, StillTracked, StillTold

\* No step loses a job.
LEMMA TrackedStep ==
  ASSUME TypeInv, WayInv, Tracked, Told, [Next]_vars
  PROVE  Tracked' /\ Told'
<1>1. CASE LibraryStep
  BY <1>1, SimTracked, LoopTracked DEF LibraryStep, Library
<1>2. CASE Callback
  BY <1>2, InitialisedTracked, RefusalTracked, SubmissionTracked, CompletionTracked,
     IterationTracked, HandedOverTracked, QuietTracked DEF Callback
<1>3. CASE UNCHANGED vars
  <2>1. UNCHANGED <<truth, mailbox, commands, phase, events, events_to_send, state, job_state,
                    pending_jobs, running_jobs, scheduling, scheduled_jobs>>
    BY <1>3 DEF vars, batsim_vars, sim_vars, loop_vars, api_vars, job_vars, slurm_vars, queue_vars,
         schedule_vars
  <2> QED
    BY <2>1 DEF Tracked, Told, Named, About, Inbox, Outbox, Undealt, Held, Handling
<1> QED
  BY <1>1, <1>2, <1>3 DEF Next

\* At the start there is no job to lose.
LEMMA InitTracked == Init => Tracked /\ Told
<1> SUFFICES ASSUME Init PROVE Tracked /\ Told
  OBVIOUS
<1>1. /\ phase = "recv" /\ running_jobs = {} /\ pending_jobs = {} /\ scheduled_jobs = <<>>
      /\ truth = [j \in Job |-> "absent"]
      /\ state = [j \in Job |-> "NONE"] /\ job_state = [j \in Job |-> "NONE"]
  BY DEF Init, BatsimInit
<1>2. Held = {}
  BY <1>1 DEF Held, ToSet
<1> QED
  BY <1>1, <1>2 DEF Tracked, Told, Handling

\* No job is ever lost, or at two places at once.
LEMMA ClusterInvariant == Spec => []ClusterInv
<1>1. Init => ClusterInv
  BY InitType, InitWay, InitMachines, InitTracked DEF ClusterInv, WorkInv, SafetyInv, Init, TriedInVain
<1>2. ClusterInv /\ [Next]_vars => ClusterInv'
  BY TypeStep, WayStep, MachineStep, TriedStep, TrackedStep DEF ClusterInv, WorkInv, SafetyInv
<1> QED
  BY <1>1, <1>2, PTL DEF Spec

-----------------------------------------------------------------------------
\* When nothing more comes

\* A simulator that has nothing to say waits for a pending job, which has all
\* the machines to itself and still does not fit.
LEMMA SilenceMeansMisfit ==
  ASSUME ClusterInv, phase = "recv", batsim = "running", Silent
  PROVE  \E j \in pending_jobs : ~Fits(j)
<1>1. TypeInv /\ WayInv /\ MachinesPartitioned /\ TriedInVain /\ Tracked
  BY DEF ClusterInv, WorkInv, SafetyInv
<1>2. Job = Static /\ Dynamic = {}
  BY SlurmAssumption DEF Job
<1>3. ~scheduling /\ scheduled_jobs = <<>> /\ Held = running_jobs /\ ToSet(scheduled_jobs) = {}
  BY <1>1 DEF TypeInv, InCallback, WayInv, InScheduler, Held, ToSet
<1>4. Inbox = <<>> /\ Outbox = <<>>
  BY DEF Silent, Inbox, Outbox
<1>5. About(Outbox) = {} /\ \A t : Named(Inbox, t) = {} /\ Named(Outbox, t) = {}
  BY <1>4 DEF About, Named
<1>6. \A j \in Job : truth[j] \in {"queued", "done", "rejected"}
  <2>1. \A j \in Job : truth[j] \in {"absent", "queued", "running", "changed", "done", "rejected"}
    BY <1>1 DEF TypeInv, SimInv, SimTypeOK
  <2> QED
    BY <1>1, <1>2, <2>1 DEF Silent, Tracked
<1>7. PICK j \in Job : truth[j] = "queued"
  BY <1>2, <1>6 DEF Silent, Finished
<1>8. j \in pending_jobs
  BY <1>1, <1>3, <1>5, <1>7 DEF Tracked
<1>9. running_jobs = {}
  BY <1>1, <1>5, <1>6 DEF Tracked, WayInv, InSimulator, TypeInv, QueueTypeOK
<1>10. total_resources = N
  BY <1>1, <1>8 DEF WayInv, Started
<1>11. available_resources = Machine
  <2>1. Held = {}
    BY <1>3, <1>9
  <2>2. UNION {allocation[k] : k \in Held} = {}
    BY <2>1
  <2>3. available_resources \cup UNION {allocation[k] : k \in Held} = Machine
    BY <1>1, <1>10 DEF MachinesPartitioned
  <2> QED
    BY <2>2, <2>3
<1>12. FreeFor(j) = PartitionOf(j)
  <2>1. PartitionOf(j) \subseteq Machine
    BY <1>10, SlurmAssumption DEF PartitionOf, PartitionResources, Half, Machine
  <2> QED
    BY <1>11, <2>1 DEF FreeFor
<1>13. Cardinality(FreeFor(j)) < workload[j].res /\ Cardinality(FreeFor(j)) \in Nat
  <2>1. FreeFor(j) \subseteq available_resources
    BY DEF FreeFor
  <2> QED
    BY <1>1, <1>3, <1>8, <2>1, FreeMachines DEF TriedInVain, ToTry
<1>14. workload[j].res \in Nat
  BY <1>1, RequestType
<1>15. ~Fits(j)
  BY <1>12, <1>13, <1>14 DEF Fits
<1> QED
  BY <1>8, <1>15

\* As long as no job is lost, the simulator can only wait for ever because of a
\* job its partition cannot hold.
LEMMA StuckStep == ClusterInv /\ BlockedOnlyByMisfit /\ [Next]_vars => BlockedOnlyByMisfit'
<1> SUFFICES ASSUME ClusterInv, BlockedOnlyByMisfit, [Next]_vars, phase' = "deadlock"
             PROVE  (\E j \in pending_jobs : ~Fits(j))'
  BY DEF BlockedOnlyByMisfit
<1>1. TypeInv /\ WayInv
  BY DEF ClusterInv, WorkInv, SafetyInv
<1>2. CASE UNCHANGED vars
  <2>1. UNCHANGED <<phase, pending_jobs, workload, total_resources>>
    BY <1>2 DEF vars, batsim_vars, loop_vars, slurm_vars, queue_vars
  <2> QED
    BY <2>1 DEF BlockedOnlyByMisfit, Fits, PartitionOf, PartitionResources, Half, determine_partition
<1>3. CASE Timeout /\ UNCHANGED slurm_vars
  <2>1. phase = "recv" /\ batsim = "running" /\ Silent
    BY <1>1, <1>3 DEF Timeout, WayInv, NeverAborted
  <2>2. \E j \in pending_jobs : ~Fits(j)
    BY <2>1, SilenceMeansMisfit
  <2>3. UNCHANGED <<pending_jobs, workload, total_resources>>
    BY <1>3 DEF slurm_vars, queue_vars
  <2> QED
    BY <2>2, <2>3 DEF Fits, PartitionOf, PartitionResources, Half, determine_partition
<1>4. ASSUME LibraryStep, ~Timeout PROVE FALSE
  <2>1. CASE Sim
    BY <2>1 DEF Sim, SimTick, SimSubmit, SimComplete, SimCall, SimEnd, Inject, InjectExecute,
           InjectReject, InjectChange, InjectKill, InjectRegister, InjectNotify,
           InjectCallMeLater, Injected, Injecting, Waiting, loop_vars
  <2>2. CASE Receive \/ Dispatch
    BY <2>2 DEF Receive, Dispatch, DispatchSimulationBegins, DispatchSimulationEnds,
         DispatchJobSubmitted, DispatchJobCompleted, DispatchJobKilled,
         DispatchRequestedCall, DispatchNotify, DispatchNoMoreEvents, Dispatching
  <2>3. CASE SendReply
    BY <2>3 DEF SendReply
  <2> QED
    BY <1>4, <2>1, <2>2, <2>3 DEF LibraryStep, Library
<1>5. ASSUME Callback PROVE FALSE
  <2>1. ASSUME NEW j \in Job,
               OnJobSubmissionRefused(j) \/ OnJobSubmission(j) \/ OnJobCompletion(j) \/ ScheduleNext(j)
        PROVE  FALSE
    <3>1. scheduling => phase = "handler"
      BY <1>1 DEF TypeInv, InCallback
    <3> QED
      BY <2>1, <3>1 DEF OnJobSubmissionRefused, OnJobSubmission, OnJobCompletion, ScheduleNext,
           ScheduleBegin, CallbackReturns, Handling, batsim_vars, loop_vars
  <2> QED
    BY <1>5, <2>1 DEF Callback, OnAfterBatsimInit, InitReturns, ScheduleEnd, OtherCallback, CallbackReturns
<1> QED
  BY <1>2, <1>3, <1>4, <1>5 DEF Next, LibraryStep

\* onDeadlock is only ever reached because of a job that its partition cannot
\* hold, whatever the order of arrivals, completions and replies.
THEOREM OnlyMisfitsBlock == Spec => []BlockedOnlyByMisfit
<1>1. Init => BlockedOnlyByMisfit
  BY DEF Init, BatsimInit, BlockedOnlyByMisfit
<1> QED
  BY <1>1, StuckStep, ClusterInvariant, PTL DEF Spec

-----------------------------------------------------------------------------
\* The machines that list(S)[:n] takes

\* The first n machines of a set that has as many are n.
LEMMA FirstOfSize ==
  ASSUME NEW S \in SUBSET Machine, NEW n \in Nat, n <= Cardinality(S)
  PROVE  FirstOf(S, n) \subseteq S /\ Cardinality(FirstOf(S, n)) = n
<1> DEFINE Below(m) == {x \in S : x < m}
           rank == [m \in S |-> Cardinality(Below(m))]
           F == FirstOf(S, n)
           cut == [m \in F |-> Cardinality(Below(m))]
<1>1. IsFiniteSet(S) /\ S \subseteq Int /\ Cardinality(S) \in Nat
  <2>1. IsFiniteSet(Machine) /\ Machine \subseteq Int
    BY FS_Interval, SlurmAssumption DEF Machine
  <2>2. IsFiniteSet(S)
    BY <2>1, FS_Subset
  <2> QED
    BY <2>1, <2>2, FS_CardinalityType
<1>2. \A m \in S : /\ IsFiniteSet(Below(m)) /\ Cardinality(Below(m)) \in Nat
                   /\ Cardinality(Below(m)) < Cardinality(S)
  <2> SUFFICES ASSUME NEW m \in S
               PROVE  /\ IsFiniteSet(Below(m)) /\ Cardinality(Below(m)) \in Nat
                      /\ Cardinality(Below(m)) < Cardinality(S)
    OBVIOUS
  <2>1. Below(m) \subseteq S /\ m \notin Below(m)
    BY <1>1
  <2>2. /\ IsFiniteSet(Below(m)) /\ Cardinality(Below(m)) <= Cardinality(S)
        /\ Cardinality(S) = Cardinality(Below(m)) => S = Below(m)
    BY <1>1, <2>1, FS_Subset
  <2>3. Cardinality(Below(m)) \in Nat
    BY <2>2, FS_CardinalityType
  <2> QED
    BY <1>1, <2>1, <2>2, <2>3
<1>3. \A m, k \in S : m < k => Cardinality(Below(m)) < Cardinality(Below(k))
  <2> SUFFICES ASSUME NEW m \in S, NEW k \in S, m < k
               PROVE  Cardinality(Below(m)) < Cardinality(Below(k))
    OBVIOUS
  <2>1. Below(m) \subseteq Below(k) /\ m \in Below(k) /\ m \notin Below(m)
    <3>1. m \in Int /\ k \in Int /\ \A x \in S : x \in Int
      BY <1>1
    <3>2. \A x \in S : x < m => x < k
      BY <3>1
    <3>3. Below(m) \subseteq Below(k)
      BY <3>2
    <3>4. m \in Below(k)
      OBVIOUS
    <3>5. m \notin Below(m)
      BY <3>1
    <3> QED
      BY <3>3, <3>4, <3>5
  <2>2. /\ Cardinality(Below(m)) <= Cardinality(Below(k))
        /\ Cardinality(Below(k)) = Cardinality(Below(m)) => Below(k) = Below(m)
    BY <1>2, <2>1, FS_Subset
  <2> HIDE DEF Below
  <2> QED
    BY <1>2, <2>1, <2>2
<1>4. \A m, k \in S : Cardinality(Below(m)) = Cardinality(Below(k)) => m = k
  <2> SUFFICES ASSUME NEW m \in S, NEW k \in S, m # k
               PROVE  Cardinality(Below(m)) # Cardinality(Below(k))
    OBVIOUS
  <2>1. m < k \/ k < m
    BY <1>1
  <2> HIDE DEF Below
  <2> QED
    BY <1>2, <1>3, <2>1
<1> DEFINE Ranks == 0 .. Cardinality(S) - 1
<1>5. IsFiniteSet(Ranks) /\ Cardinality(Ranks) = Cardinality(S)
  <2> DEFINE last == Cardinality(S) - 1
  <2>1. 0 \in Int /\ last \in Int /\ (IF 0 > last THEN 0 ELSE last - 0 + 1) = Cardinality(S)
    BY <1>1
  <2> HIDE DEF last
  <2>2. IsFiniteSet(0 .. last) /\ Cardinality(0 .. last) = Cardinality(S)
    BY <2>1, FS_Interval
  <2> QED
    BY <2>2 DEF last
<1>6. \A r \in Ranks : \E m \in S : Cardinality(Below(m)) = r
  <2> HIDE DEF Below
  <2>1. rank \in [S -> Ranks]
    BY <1>1, <1>2
  <2>2. \A m, k \in S : rank[m] = rank[k] => m = k
    BY <1>4
  <2> HIDE DEF rank, Ranks
  <2>3. rank \in Injection(S, Ranks)
    BY <2>1, <2>2, Fun_IsInj
  <2>4. rank \in Surjection(S, Ranks)
    BY <1>5, <2>3, FS_Injection
  <2>5. \A r \in Ranks : \E m \in S : rank[m] = r
    BY <2>4, Fun_SurjectionProperties
  <2> QED
    BY <2>5 DEF rank
<1>7. F \subseteq S /\ F = {m \in S : Cardinality(Below(m)) < n}
  BY DEF FirstOf
<1>8. IsFiniteSet(F)
  BY <1>1, <1>7, FS_Subset
<1> HIDE DEF Below, F
<1>9. cut \in [F -> 0 .. n - 1]
  BY <1>2, <1>7
<1>10. \A m, k \in F : cut[m] = cut[k] => m = k
  BY <1>4, <1>7
<1>11. \A r \in 0 .. n - 1 : \E m \in F : cut[m] = r
  <2> SUFFICES ASSUME NEW r \in 0 .. n - 1 PROVE \E m \in F : cut[m] = r
    OBVIOUS
  <2>1. r \in Ranks
    BY <1>1
  <2>2. PICK m \in S : Cardinality(Below(m)) = r
    BY <1>6, <2>1
  <2>3. m \in F
    BY <1>7, <2>2
  <2> QED
    BY <2>2, <2>3
<1> HIDE DEF cut
<1>12. cut \in Bijection(F, 0 .. n - 1)
  BY <1>9, <1>10, <1>11, Fun_IsBij
<1>13. Cardinality(0 .. n - 1) = Cardinality(F)
  BY <1>8, <1>12, FS_Bijection, Fun_ExistsBij
<1>14. Cardinality(0 .. n - 1) = n
  BY FS_Interval
<1> QED
  BY <1>7, <1>13, <1>14 DEF F

-----------------------------------------------------------------------------
\* Every step of the scheduler is a step of Cluster, or none

\* There are N machines.
LEMMA MachineCount == Cardinality(Machine) = N /\ N \in Nat
BY FS_Interval, SlurmAssumption DEF Machine

\* Cluster counts machines as SchedSlurm does.
LEMMA SameCount == \A S : ClusterOf!Cardinality(S) = Cardinality(S)
BY Zenon DEF ClusterOf!Cardinality, Cardinality

\* Every job asks for at least one machine.
LEMMA DemandType == TypeInv => [j \in Job |-> workload[j].res] \in [Job -> Nat \ {0}]
BY RequestType

\* Nothing that Cluster sees changes.
LEMMA Unseen ==
  ASSUME UNCHANGED <<workload, allocation>>, Held' = Held,
         \A j \in Job : Status(j)' = Status(j)
  PROVE  UNCHANGED ClusterOf!cluster_vars
BY DEF ClusterOf!cluster_vars

\* The status of a job depends on these variables only ...
LEMMA SameStatus ==
  ASSUME UNCHANGED <<pending_jobs, state, job_state>>, Held' = Held
  PROVE  \A j \in Job : Status(j)' = Status(j)
BY DEF Status

\* ... and so does all that Cluster sees.
LEMMA StillUnseen ==
  ASSUME UNCHANGED <<workload, allocation, pending_jobs, running_jobs, scheduled_jobs, state, job_state>>
  PROVE  UNCHANGED ClusterOf!cluster_vars
BY SameStatus, Unseen DEF Held

\* One job takes a step.
LEMMA StatusMoves ==
  ASSUME NEW j \in Job, NEW s, Status(j)' = s, \A k \in Job \ {j} : Status(k)' = Status(k)
  PROVE  [k \in Job |-> Status(k)]' = [[k \in Job |-> Status(k)] EXCEPT ![j] = s]
BY Zenon

\* One job is given machines, or gives its own back.
LEMMA HeldMoves ==
  ASSUME NEW j \in Job, NEW M,
         IF j \in Held' THEN allocation'[j] = M ELSE M = {},
         \A k \in Job \ {j} : /\ k \in Held' <=> k \in Held
                              /\ k \in Held => allocation'[k] = allocation[k]
  PROVE  [k \in Job |-> IF k \in Held THEN allocation[k] ELSE {}]'
           = [[k \in Job |-> IF k \in Held THEN allocation[k] ELSE {}] EXCEPT ![j] = M]
BY Zenon

\* Nobody is given a machine.
LEMMA SameHeld ==
  ASSUME Held' = Held, UNCHANGED allocation
  PROVE  UNCHANGED [k \in Job |-> IF k \in Held THEN allocation[k] ELSE {}]
OBVIOUS

\* A job's submission and completion change the job table before the scheduler
\* is told; Cluster sees nothing of that.
LEMMA LoopUnseen ==
  ASSUME ClusterInv, LibraryStep
  PROVE  UNCHANGED ClusterOf!cluster_vars
<1>1. TypeInv /\ WayInv /\ Tracked /\ Told
  BY DEF ClusterInv, WorkInv, SafetyInv
<1>2. UNCHANGED <<workload, allocation, pending_jobs, running_jobs, scheduled_jobs>> /\ Held' = Held
  BY DEF LibraryStep, slurm_vars, queue_vars, schedule_vars, Held
<1>3. CASE Sim
  BY <1>2, <1>3, StillUnseen DEF Sim, SimTick, SimSubmit, SimComplete, SimCall, SimEnd,
     Inject, InjectExecute, InjectReject, InjectChange, InjectKill, InjectRegister, InjectNotify,
     InjectCallMeLater, Injected, api_vars, job_vars
<1>4. CASE Receive \/ Timeout \/ SendReply
  BY <1>2, <1>4, StillUnseen DEF Receive, Timeout, SendReply, api_vars, job_vars
<1>5. CASE Dispatch
  <2>1. phase = "events" /\ Inbox = events
    <3>1. phase = "events"
      BY <1>5 DEF Dispatch, DispatchSimulationBegins, DispatchSimulationEnds,
         DispatchJobSubmitted, DispatchJobCompleted, DispatchJobKilled,
         DispatchRequestedCall, DispatchNotify, DispatchNoMoreEvents, Dispatching
    <3> QED
      BY <1>1, <3>1 DEF TypeInv, InCallback, Inbox, Undealt
  <2>2. Dispatching(Head(events).type) => Head(events) \in SlurmEvent /\ events \in Seq(SlurmEvent)
    BY <1>1, HeadTailProperties DEF Dispatching, TypeInv, LoopInv
  <2>3. events # <<>> => \A k \in Job : k \in Head(events).jobs => k \in Named(Inbox, Head(events).type)
    BY <1>1, <2>1, TailOfQueue DEF TypeInv, LoopInv
  <2>4. /\ state \in [Job -> {"NONE", "RUNNING", "REJECTED"}] /\ job_state \in [Job -> SlurmJobState]
        /\ running_jobs \subseteq Job
    BY <1>1 DEF TypeInv, ApiInv, ApiTypeOK, JobInv, QueueTypeOK
  <2>5. CASE DispatchJobSubmitted
    <3>1. PICK j \in Head(events).jobs : /\ job_state' = [job_state EXCEPT ![j] = "SUBMITTED"]
                                         /\ state' = [state EXCEPT ![j] = "NONE"]
      BY <2>5 DEF DispatchJobSubmitted
    <3>2. events # <<>> /\ Head(events).type = "JOB_SUBMITTED"
      BY <2>5 DEF DispatchJobSubmitted, Dispatching
    <3>3. j \in Job
      BY <2>2, <3>1, <3>2, <2>5, OneJob DEF DispatchJobSubmitted, Dispatching
    <3>4. state[j] = "NONE" /\ job_state[j] \in {"NONE", "SUBMITTED"}
      BY <1>1, <2>3, <3>1, <3>2, <3>3 DEF Told
    <3>5. state'[j] = "NONE" /\ job_state'[j] = "SUBMITTED"
          /\ \A k \in Job \ {j} : state'[k] = state[k] /\ job_state'[k] = job_state[k]
      BY <2>4, <3>1, <3>3
    <3>6. \A k \in Job : Status(k)' = Status(k)
      BY <1>2, <3>4, <3>5 DEF Status, Completed
    <3> QED
      BY <1>2, <3>6, Unseen
  <2>6. CASE DispatchJobCompleted
    <3>1. PICK j \in Head(events).jobs :
            job_state' = [job_state EXCEPT ![j] = StateNamed(Head(events).state)]
      BY <2>6 DEF DispatchJobCompleted
    <3>2. events # <<>> /\ Head(events).type = "JOB_COMPLETED" /\ UNCHANGED state
      BY <2>6 DEF DispatchJobCompleted, Dispatching, api_vars
    <3>3. j \in Job
      BY <2>2, <3>1, <3>2, <2>6, OneJob DEF DispatchJobCompleted, Dispatching
    <3>4. j \in running_jobs
      BY <1>1, <2>3, <3>1, <3>2, <3>3 DEF WayInv, Incoming
    <3>5. j \in Held /\ j \notin pending_jobs
      BY <1>1, <3>4 DEF WayInv, InScheduler, Held
    <3>6. \A k \in Job \ {j} : job_state'[k] = job_state[k]
      BY <2>4, <3>1, <3>3
    <3>7. \A k \in Job : Status(k)' = Status(k)
      BY <1>2, <3>2, <3>5, <3>6 DEF Status
    <3> QED
      BY <1>2, <3>7, Unseen
  <2>7. CASE ~DispatchJobSubmitted /\ ~DispatchJobCompleted
    <3>1. UNCHANGED <<state, job_state>>
      BY <1>5, <2>7 DEF Dispatch, DispatchSimulationBegins, DispatchSimulationEnds,
         DispatchJobKilled, DispatchRequestedCall, DispatchNotify, DispatchNoMoreEvents, api_vars, job_vars
    <3> QED
      BY <1>2, <3>1, StillUnseen
  <2> QED
    BY <2>5, <2>6, <2>7
<1> QED
  BY <1>3, <1>4, <1>5 DEF LibraryStep, Library

\* Of the callbacks, three say nothing to Cluster.
LEMMA CallbackUnseen ==
  ASSUME ClusterInv, OnAfterBatsimInit \/ ScheduleEnd \/ OtherCallback
  PROVE  UNCHANGED ClusterOf!cluster_vars
<1>1. CASE OnAfterBatsimInit
  BY <1>1, StillUnseen DEF OnAfterBatsimInit, api_vars, job_vars, queue_vars, schedule_vars
<1>2. CASE OtherCallback
  BY <1>2, StillUnseen DEF OtherCallback, api_vars, job_vars, slurm_vars, queue_vars, schedule_vars
<1>3. CASE ScheduleEnd
  <2>1. TypeInv /\ WayInv /\ Tracked /\ Told
    BY DEF ClusterInv, WorkInv, SafetyInv
  <2>2. /\ UNCHANGED <<workload, allocation, pending_jobs, job_state>>
        /\ \A j \in Job \ ToSet(scheduled_jobs) : state'[j] = state[j]
    BY <1>3 DEF ScheduleEnd, ExecuteJobs
  <2>3. Held' = Held /\ ToSet(scheduled_jobs) \subseteq Held
    BY <1>3, <2>1, HandedOverWay DEF Held
  <2>4. \A j \in Job : Status(j)' = Status(j)
    BY <2>2, <2>3 DEF Status
  <2> QED
    BY <2>2, <2>3, <2>4, Unseen
<1> QED
  BY <1>1, <1>2, <1>3

\* A submission the scheduler keeps is Cluster's Accept ...
LEMMA AcceptMaps ==
  ASSUME ClusterInv, NEW j \in Job, OnJobSubmission(j)
  PROVE  ClusterOf!Accept(j)
<1>1. TypeInv /\ WayInv /\ Tracked /\ Told
  BY DEF ClusterInv, WorkInv, SafetyInv
<1>2. /\ Handling("JOB_SUBMITTED") /\ ~scheduling /\ j \in Head(events).jobs /\ ~TooLarge(j)
      /\ pending_jobs' = pending_jobs \cup {j} /\ ScheduleBegin
      /\ UNCHANGED <<workload, allocation, running_jobs, state, job_state>>
  BY DEF OnJobSubmission, api_vars, job_vars
<1>3. /\ j \in Named(Inbox, "JOB_SUBMITTED") /\ total_resources = N
      /\ scheduled_jobs = <<>> /\ Held = running_jobs
  BY <1>1, <1>2, HandledWay
<1>4. j \notin pending_jobs \cup Held
  BY <1>1, <1>3 DEF WayInv, Incoming
<1>5. Status(j) = "new"
  BY <1>1, <1>3, <1>4 DEF Told, Status, Completed
<1>6. Held' = Held
  BY <1>2, <1>3 DEF ScheduleBegin, schedule_vars, Held
<1>7. Status(j)' = "waiting" /\ \A k \in Job \ {j} : Status(k)' = Status(k)
  BY <1>2, <1>6 DEF Status
<1>8. workload[j].res <= Cardinality(Machine)
  BY <1>1, <1>2, <1>3, RequestType, MachineCount DEF TooLarge
<1>9. UNCHANGED [k \in Job |-> workload[k].res]
  BY <1>2
<1>10. [k \in Job |-> Status(k)]' = [[k \in Job |-> Status(k)] EXCEPT ![j] = "waiting"]
  BY <1>7, StatusMoves
<1> QED
  BY <1>2, <1>5, <1>6, <1>8, <1>9, <1>10, SameHeld, SameCount DEF ClusterOf!Accept

\* ... and one it rejects is Cluster's Refuse.
LEMMA RefuseMaps ==
  ASSUME ClusterInv, NEW j \in Job, OnJobSubmissionRefused(j)
  PROVE  ClusterOf!Refuse(j)
<1>1. TypeInv /\ WayInv /\ Tracked /\ Told
  BY DEF ClusterInv, WorkInv, SafetyInv
<1>2. /\ Handling("JOB_SUBMITTED") /\ ~scheduling /\ j \in Head(events).jobs /\ TooLarge(j)
      /\ RejectJobs(<<j>>)
      /\ UNCHANGED <<workload, allocation, pending_jobs, running_jobs, scheduled_jobs, job_state>>
  BY DEF OnJobSubmissionRefused, RejectJobs, slurm_vars, queue_vars, schedule_vars
<1>3. j \in Named(Inbox, "JOB_SUBMITTED") /\ total_resources = N
  BY <1>1, <1>2, HandledWay
<1>4. j \notin pending_jobs \cup Held
  BY <1>1, <1>3 DEF WayInv, Incoming
<1>5. Status(j) = "new" /\ job_state[j] \in {"NONE", "SUBMITTED"}
  BY <1>1, <1>3, <1>4 DEF Told, Status, Completed
<1>6. Held' = Held
  BY <1>2 DEF Held
<1>7. state'[j] = "REJECTED" /\ \A k \in Job \ {j} : state'[k] = state[k]
  BY <1>2 DEF RejectJobs, ToSet
<1>8. Status(j)' = "refused" /\ \A k \in Job \ {j} : Status(k)' = Status(k)
  BY <1>2, <1>4, <1>6, <1>7 DEF Status
<1>9. workload[j].res > Cardinality(Machine)
  BY <1>1, <1>2, <1>3, RequestType, MachineCount DEF TooLarge
<1>10. UNCHANGED [k \in Job |-> workload[k].res]
  BY <1>2
<1>11. [k \in Job |-> Status(k)]' = [[k \in Job |-> Status(k)] EXCEPT ![j] = "refused"]
  BY <1>8, StatusMoves
<1> QED
  BY <1>2, <1>5, <1>6, <1>9, <1>10, <1>11, SameHeld, SameCount DEF ClusterOf!Refuse

\* An allocation is a Start of Cluster.
LEMMA StartMaps ==
  ASSUME ClusterInv, NEW j \in Job, ScheduleNext(j), CanStart(j)
  PROVE  ClusterOf!ClusterNext
<1>0. PICK M : M = FirstOf(FreeFor(j), workload[j].res)
  OBVIOUS
<1>1. TypeInv /\ WayInv /\ MachinesPartitioned
  BY DEF ClusterInv, WorkInv, SafetyInv
<1>2. /\ allocation' = [allocation EXCEPT ![j] = M] /\ pending_jobs' = pending_jobs \ {j}
      /\ UNCHANGED <<workload, state, job_state>>
  BY <1>0 DEF ScheduleNext, batsim_vars, api_vars, job_vars
<1>3. total_resources = N /\ j \in pending_jobs /\ j \notin Held /\ Held' = Held \cup {j}
  BY <1>1, IterationWay
<1>4. Status(j) = "waiting"
  BY <1>3 DEF Status
<1>5. Status(j)' = "running" /\ \A k \in Job \ {j} : Status(k)' = Status(k)
  BY <1>2, <1>3 DEF Status
<1>6. /\ FreeFor(j) \in SUBSET Machine /\ FreeFor(j) \subseteq available_resources
      /\ workload[j].res \in Nat /\ workload[j].res <= Cardinality(FreeFor(j))
  BY <1>1, RequestType DEF FreeFor, CanStart, TypeInv, MachineTypeOK
<1>7. M \subseteq FreeFor(j) /\ Cardinality(M) = workload[j].res
  BY <1>0, <1>6, FirstOfSize
<1>8. M \subseteq ClusterOf!Free
  <2>1. \A k \in Held : allocation[k] \cap available_resources = {}
    BY <1>1, <1>3 DEF MachinesPartitioned
  <2>2. \A k \in Job : (IF k \in Held THEN allocation[k] ELSE {}) \cap available_resources = {}
    BY <2>1
  <2>3. available_resources \subseteq ClusterOf!Free
    BY <1>1, <2>2 DEF ClusterOf!Free, TypeInv, MachineTypeOK
  <2> QED
    BY <1>6, <1>7, <2>3
<1>9. allocation'[j] = M /\ \A k \in Job \ {j} : allocation'[k] = allocation[k]
  BY <1>1, <1>2 DEF TypeInv, MachineTypeOK
<1>10. [k \in Job |-> IF k \in Held THEN allocation[k] ELSE {}]'
         = [[k \in Job |-> IF k \in Held THEN allocation[k] ELSE {}] EXCEPT ![j] = M]
  BY <1>3, <1>9, HeldMoves
<1>11. [k \in Job |-> Status(k)]' = [[k \in Job |-> Status(k)] EXCEPT ![j] = "running"]
  BY <1>5, StatusMoves
<1>12. UNCHANGED [k \in Job |-> workload[k].res]
  BY <1>2
<1>13. ClusterOf!Start(j, M)
  BY <1>4, <1>7, <1>8, <1>10, <1>11, <1>12, SameCount DEF ClusterOf!Start
<1>14. M \in SUBSET Machine
  BY <1>6, <1>7
<1> QED
  BY <1>13, <1>14 DEF ClusterOf!ClusterNext

\* A completion gives the machines back: Cluster's Finish.
LEMMA FinishMaps ==
  ASSUME ClusterInv, NEW j \in Job, OnJobCompletion(j)
  PROVE  ClusterOf!Finish(j)
<1>1. TypeInv /\ WayInv /\ Tracked /\ Told
  BY DEF ClusterInv, WorkInv, SafetyInv
<1>2. /\ Handling("JOB_COMPLETED") /\ ~scheduling /\ j \in Head(events).jobs
      /\ pending_jobs' = pending_jobs \ {j} /\ running_jobs' = running_jobs \ {j} /\ ScheduleBegin
      /\ UNCHANGED <<workload, allocation, state, job_state>>
  BY DEF OnJobCompletion, api_vars, job_vars
<1>3. /\ j \in Named(Inbox, "JOB_COMPLETED") /\ scheduled_jobs = <<>> /\ Held = running_jobs
  BY <1>1, <1>2, HandledWay
<1>4. j \in Held /\ j \notin pending_jobs
  BY <1>1, <1>3 DEF WayInv, Incoming, InScheduler
<1>5. Held' = Held \ {j}
  <2>1. scheduled_jobs' = <<>>
    BY <1>2, <1>3 DEF ScheduleBegin, schedule_vars
  <2> QED
    BY <1>2, <1>3, <2>1 DEF Held, ToSet
<1>6. state[j] # "REJECTED" /\ job_state[j] \in Ended
  BY <1>1, <1>2, <1>4 DEF Told
<1>7. Status(j) = "running"
  BY <1>4 DEF Status
<1>8. Status(j)' = "finished" /\ \A k \in Job \ {j} : Status(k)' = Status(k)
  BY <1>2, <1>4, <1>5, <1>6 DEF Status, Ended
<1>9. UNCHANGED [k \in Job |-> workload[k].res]
  BY <1>2
<1>10. [k \in Job |-> Status(k)]' = [[k \in Job |-> Status(k)] EXCEPT ![j] = "finished"]
  BY <1>8, StatusMoves
<1>11. [k \in Job |-> IF k \in Held THEN allocation[k] ELSE {}]'
         = [[k \in Job |-> IF k \in Held THEN allocation[k] ELSE {}] EXCEPT ![j] = {}]
  BY <1>2, <1>5, HeldMoves
<1> QED
  BY <1>7, <1>9, <1>10, <1>11 DEF ClusterOf!Finish

\* Initial states map to initial states.
LEMMA InitMaps == Init => ClusterOf!ClusterInit
<1> SUFFICES ASSUME Init PROVE ClusterOf!ClusterInit
  OBVIOUS
<1>1. TypeInv
  BY InitType
<1>2. /\ Held = {} /\ pending_jobs = {} /\ state = [j \in Job |-> "NONE"]
      /\ job_state = [j \in Job |-> "NONE"]
  BY DEF Init, BatsimInit, Held, ToSet
<1>3. \A j \in Job : Status(j) = "new"
  BY <1>2 DEF Status, Completed
<1> QED
  BY <1>1, <1>2, <1>3, DemandType DEF ClusterOf!ClusterInit

\* Every step maps to a step of Cluster or to none.
LEMMA ClusterStep == ClusterInv /\ [Next]_vars => [ClusterOf!ClusterNext]_(ClusterOf!cluster_vars)
<1> SUFFICES ASSUME ClusterInv, [Next]_vars
             PROVE  ClusterOf!ClusterNext \/ UNCHANGED ClusterOf!cluster_vars
  OBVIOUS
<1>1. CASE LibraryStep
  BY <1>1, LoopUnseen
<1>2. CASE OnAfterBatsimInit \/ ScheduleEnd \/ OtherCallback
  BY <1>2, CallbackUnseen
<1>3. ASSUME NEW j \in Job, OnJobSubmission(j) PROVE ClusterOf!ClusterNext
  BY <1>3, AcceptMaps DEF ClusterOf!ClusterNext
<1>4. ASSUME NEW j \in Job, OnJobSubmissionRefused(j) PROVE ClusterOf!ClusterNext
  BY <1>4, RefuseMaps DEF ClusterOf!ClusterNext
<1>5. ASSUME NEW j \in Job, OnJobCompletion(j) PROVE ClusterOf!ClusterNext
  BY <1>5, FinishMaps DEF ClusterOf!ClusterNext
<1>6. ASSUME NEW j \in Job, ScheduleNext(j)
      PROVE  ClusterOf!ClusterNext \/ UNCHANGED ClusterOf!cluster_vars
  <2>1. CASE CanStart(j)
    BY <1>6, <2>1, StartMaps
  <2>2. CASE ~CanStart(j)
    <3>1. UNCHANGED <<workload, allocation, pending_jobs, running_jobs, scheduled_jobs, state, job_state>>
      BY <1>6, <2>2 DEF ScheduleNext, batsim_vars, api_vars, job_vars
    <3> QED
      BY <3>1, StillUnseen
  <2> QED
    BY <2>1, <2>2
<1>7. CASE UNCHANGED vars
  BY <1>7, StillUnseen DEF vars, batsim_vars, api_vars, job_vars, slurm_vars, queue_vars, schedule_vars
<1> QED
  BY <1>1, <1>2, <1>3, <1>4, <1>5, <1>6, <1>7 DEF Next, Callback

\* The scheduler, with the message loop, the partitions and the priorities it
\* works with, does nothing that the allocation without sharing does not: a job
\* is refused exactly if it is too large, starts once, on as many machines as it
\* asks for, and keeps them until it completes.
THEOREM ImplementsAllocation == Spec => ImplementsCluster
BY InitMaps, ClusterStep, ClusterInvariant, PTL DEF Spec, ImplementsCluster, ClusterOf!ClusterSpec

-----------------------------------------------------------------------------
\* What the scheduler has from Cluster

SafeAllocation(d, s, h) ==
  /\ d \in [Job -> Nat \ {0}]
  /\ s \in [Job -> {"new", "waiting", "refused", "running", "finished"}]
  /\ h \in [Job -> SUBSET Machine]
  /\ \A j, k \in Job : j # k => h[j] \cap h[k] = {}
  /\ \A j \in Job : IF s[j] = "running" THEN ClusterOf!Cardinality(h[j]) = d[j] ELSE h[j] = {}

\* In the abstract allocation no machine ever works for two jobs, and a job
\* holds machines, as many as it asked for, exactly while it runs.
THEOREM ClusterSafe == ClusterOf!ClusterSpec => [](ClusterOf!Exclusive /\ ClusterOf!HeldWhileRunning)
<1> DEFINE d == [j \in Job |-> workload[j].res]
           s == [j \in Job |-> Status(j)]
           h == [j \in Job |-> IF j \in Held THEN allocation[j] ELSE {}]
           Safe == SafeAllocation(d, s, h)
<1>1. Safe => ClusterOf!Exclusive /\ ClusterOf!HeldWhileRunning
  BY DEF SafeAllocation, ClusterOf!Exclusive, ClusterOf!HeldWhileRunning
<1>2. ClusterOf!ClusterInit => Safe
  <2>1. ClusterOf!ClusterInit => d \in [Job -> Nat \ {0}] /\ s = [j \in Job |-> "new"] /\ h = [j \in Job |-> {}]
    BY DEF ClusterOf!ClusterInit
  <2> HIDE DEF d, s, h
  <2> QED
    BY <2>1 DEF SafeAllocation
<1>3. Safe /\ [ClusterOf!ClusterNext]_(ClusterOf!cluster_vars) => Safe'
  <2> SUFFICES ASSUME SafeAllocation(d, s, h), [ClusterOf!ClusterNext]_(ClusterOf!cluster_vars)
               PROVE  SafeAllocation(d', s', h')
    BY DEF SafeAllocation
  <2>1. CASE UNCHANGED ClusterOf!cluster_vars
    <3>1. d' = d /\ s' = s /\ h' = h
      BY <2>1 DEF ClusterOf!cluster_vars
    <3> HIDE DEF d, s, h
    <3> QED
      BY <3>1
  <2>2. ASSUME NEW j \in Job, ClusterOf!Accept(j) PROVE SafeAllocation(d', s', h')
    <3>1. s[j] = "new" /\ s' = [s EXCEPT ![j] = "waiting"] /\ d' = d /\ h' = h
      BY <2>2 DEF ClusterOf!Accept
    <3> HIDE DEF d, s, h
    <3> QED
      BY <3>1 DEF SafeAllocation
  <2>3. ASSUME NEW j \in Job, ClusterOf!Refuse(j) PROVE SafeAllocation(d', s', h')
    <3>1. s[j] = "new" /\ s' = [s EXCEPT ![j] = "refused"] /\ d' = d /\ h' = h
      BY <2>3 DEF ClusterOf!Refuse
    <3> HIDE DEF d, s, h
    <3> QED
      BY <3>1 DEF SafeAllocation
  <2>4. ASSUME NEW j \in Job, NEW M \in SUBSET Machine, ClusterOf!Start(j, M)
        PROVE  SafeAllocation(d', s', h')
    <3>1. /\ s[j] = "waiting" /\ \A m \in M, k \in Job : m \notin h[k]
          /\ ClusterOf!Cardinality(M) = d[j]
          /\ s' = [s EXCEPT ![j] = "running"] /\ h' = [h EXCEPT ![j] = M] /\ d' = d
      BY <2>4 DEF ClusterOf!Start, ClusterOf!Free
    <3> HIDE DEF d, s, h
    <3> QED
      BY <3>1 DEF SafeAllocation
  <2>5. ASSUME NEW j \in Job, ClusterOf!Finish(j) PROVE SafeAllocation(d', s', h')
    <3>1. s[j] = "running" /\ s' = [s EXCEPT ![j] = "finished"] /\ h' = [h EXCEPT ![j] = {}] /\ d' = d
      BY <2>5 DEF ClusterOf!Finish
    <3> HIDE DEF d, s, h
    <3> QED
      BY <3>1 DEF SafeAllocation
  <2> QED
    BY <2>1, <2>2, <2>3, <2>4, <2>5 DEF ClusterOf!ClusterNext
<1> QED
  <2> HIDE DEF Safe
  <2> QED
    BY <1>1, <1>2, <1>3, PTL DEF ClusterOf!ClusterSpec

\* So the scheduler keeps what the allocation promises: no two jobs share a
\* machine, and a job holds as many as it asked for, exactly while it runs.
THEOREM AllocationIsSafe == Spec => [](ClusterOf!Exclusive /\ ClusterOf!HeldWhileRunning)
BY ImplementsAllocation, ClusterSafe, PTL DEF ImplementsCluster
=============================================================================

------------------------------- MODULE Batsim -------------------------------
(***************************************************************************)
(* The low-level API of pybatsim (src/batsim/batsim.py): the message loop  *)
(* of class Batsim, its job table, its counters and the calls a scheduler  *)
(* makes, together with the Batsim simulator at the other end of the       *)
(* REQ/REP socket (external, modelled from the messages the code reads and *)
(* writes).                                                                *)
(*                                                                         *)
(* The two ends alternate.  While pybatsim waits in network.recv           *)
(* (phase = "recv") the simulator injects the commands of the last reply   *)
(* one by one, advances its clock, submits and completes jobs, and queues  *)
(* the resulting events in its mailbox; it then sends the whole mailbox as *)
(* one message.  pybatsim dispatches the events of the message one by one, *)
(* each to a callback of the scheduler, and sends one reply.               *)
(*                                                                         *)
(* The scheduler of this module is the most general one that respects the  *)
(* API.  A real scheduler EXTENDS this module, keeps Library and replaces  *)
(* the calls of ClientCall by its own callbacks (see SchedSlurm).          *)
(***************************************************************************)
EXTENDS Naturals, FiniteSets, Sequences, SequencesExt

CONSTANTS
  Static,       \* jobs of the workload, submitted by the simulator
  Dynamic,      \* jobs the scheduler may register
  AckModes,     \* values batconf["dynamic-jobs-acknowledged"] may have
  Outcomes,     \* job_state values a JOB_COMPLETED event may carry by itself
  MaxTime,      \* bound: the simulator's clock does not advance beyond it
  MaxCalls,     \* bound: outstanding wake-ups
  KillSize,     \* bound: jobs in one call of kill_jobs
  InitCalls     \* does the scheduler use the API in onAfterBatsimInit?

Job == Static \cup Dynamic

\* The members of Job.State a completed job can have.
Completed == {"COMPLETED_SUCCESSFULLY", "COMPLETED_FAILED",
              "COMPLETED_WALLTIME_REACHED", "COMPLETED_KILLED"}

JobState == {"UNKNOWN", "IN_SUBMISSON", "SUBMITTED", "RUNNING", "REJECTED",
             "IN_KILLING"} \cup Completed

ASSUME ConstantsAssumption ==
  /\ IsFiniteSet(Static) /\ IsFiniteSet(Dynamic)
  /\ Static # {} /\ Static \cap Dynamic = {}
  /\ AckModes \subseteq BOOLEAN /\ AckModes # {} /\ InitCalls \in BOOLEAN
  /\ Outcomes \subseteq STRING /\ Outcomes # {}
  /\ Outcomes \cap JobState \subseteq (Completed \ {"COMPLETED_KILLED"}) \cup {"UNKNOWN"}
  /\ MaxTime \in Nat /\ MaxCalls \in Nat /\ KillSize \in Nat \ {0}

VARIABLES
  \* the simulator
  truth,               \* what really happened to each job
  batsim,              \* "running", "ending", "ended" or "aborted"
  registration,        \* may jobs still be registered?
  wakes,               \* CALL_ME_LATER requests not answered yet
  commands,            \* commands of the last reply, not injected yet
  mailbox,             \* events of the next message
  now,                 \* the clock: the simulator's in "recv", _current_time otherwise
  \* the message loop of pybatsim
  phase,               \* where _read_bat_msg is
  events,              \* events of the current message, the head being dispatched
  initialised,         \* has the constructor received its message?
  running_simulation,
  no_more_static_jobs,
  ack_of_dynamic_jobs, \* FALSE until SIMULATION_BEGINS gives its value
  \* what the scheduler reads and writes through the API
  events_to_send,      \* self._events_to_send
  job_state,           \* Job.job_state, "NONE" for a job that is not in self.jobs
  state,               \* Job.state, which the API writes instead of job_state
  submit_time,
  nb,                  \* the counters nb_jobs_*
  jobs_manually_changed

sim_vars  == <<truth, batsim, registration, wakes, commands, mailbox>>
loop_vars == <<phase, events, initialised, running_simulation, no_more_static_jobs,
               ack_of_dynamic_jobs>>
api_vars  == <<events_to_send, state, jobs_manually_changed>>
job_vars  == <<job_state, submit_time, nb>>
batsim_vars == <<sim_vars, now, loop_vars, api_vars, job_vars>>

-----------------------------------------------------------------------------
\* Messages

Event(type, jobs, progress, outcome) ==
  [type |-> type, jobs |-> jobs, progress |-> progress, state |-> outcome]
Signal(type)        == Event(type, {}, {}, "")
Submitted(j)        == Event("JOB_SUBMITTED", {j}, {}, "")
JobCompleted(j, o)  == Event("JOB_COMPLETED", {j}, {}, o)
Killed(jobs, progress) == Event("JOB_KILLED", jobs, progress, "")

EventType == {"SIMULATION_BEGINS", "SIMULATION_ENDS", "JOB_SUBMITTED",
              "JOB_COMPLETED", "JOB_KILLED", "REQUESTED_CALL", "NOTIFY"}
EventSet == [type : EventType, jobs : SUBSET Job, progress : SUBSET Job,
             state : Outcomes \cup {"COMPLETED_KILLED", ""}]

Command(type, jobs, value) == [type |-> type, jobs |-> jobs, value |-> value]

CommandType == {"EXECUTE_JOB", "REJECT_JOB", "KILL_JOB", "REGISTER_JOB",
                "CHANGE_JOB_STATE", "NOTIFY", "CALL_ME_LATER"}
CommandSet == [type : CommandType, jobs : SUBSET Job,
               value : {"", "RUNNING", "COMPLETED_SUCCESSFULLY"}]

Counter == {"submitted", "from_batsim", "from_scheduler", "in_submission",
            "scheduled", "rejected", "completed",
            "successful", "failed", "timeout", "killed"}

-----------------------------------------------------------------------------
\* The simulator (external).  It acts while pybatsim waits for a message.

Waiting == phase = "recv" /\ batsim = "running" /\ initialised

SimTick ==
  /\ Waiting /\ now < MaxTime
  /\ now' = now + 1
  /\ UNCHANGED <<sim_vars, loop_vars, api_vars, job_vars>>

\* A static job reaches its submission time; the last one is followed by the
\* notification that the workloads are exhausted.
SimSubmit(j) ==
  /\ Waiting
  /\ j \in Static /\ truth[j] = "absent"
  /\ truth' = [truth EXCEPT ![j] = "queued"]
  /\ submit_time' = [submit_time EXCEPT ![j] = now]
  /\ mailbox' = mailbox \o
       IF \A k \in Static \ {j} : truth[k] # "absent"
       THEN <<Submitted(j), Signal("NOTIFY")>>
       ELSE <<Submitted(j)>>
  /\ UNCHANGED <<batsim, registration, wakes, commands, now, loop_vars,
                 api_vars, job_state, nb>>

SimComplete(j, outcome) ==
  /\ Waiting /\ truth[j] = "running"
  /\ truth' = [truth EXCEPT ![j] = "done"]
  /\ mailbox' = Append(mailbox, JobCompleted(j, outcome))
  /\ UNCHANGED <<batsim, registration, wakes, commands, now, loop_vars,
                 api_vars, job_vars>>

SimCall ==
  /\ Waiting /\ wakes > 0
  /\ wakes' = wakes - 1
  /\ mailbox' = Append(mailbox, Signal("REQUESTED_CALL"))
  /\ UNCHANGED <<truth, batsim, registration, commands, now, loop_vars,
                 api_vars, job_vars>>

\* One command of the reply takes effect.  A command the simulator cannot
\* obey makes it abort.
Injecting(type) == Waiting /\ commands # <<>> /\ Head(commands).type = type

Injected(c) ==
  /\ commands' = Tail(commands)
  /\ UNCHANGED <<registration, wakes, now, loop_vars, api_vars, job_state, nb>>

\* Every job of c leaves the status `from` for `to`.
Move(c, from, to) ==
  IF \A j \in c.jobs : truth[j] = from
  THEN /\ truth' = [j \in Job |-> IF j \in c.jobs THEN to ELSE truth[j]]
       /\ UNCHANGED batsim
  ELSE /\ batsim' = "aborted"
       /\ UNCHANGED truth

InjectExecute ==
  /\ Injecting("EXECUTE_JOB")
  /\ Injected(Head(commands))
  /\ Move(Head(commands), "queued", "running")
  /\ UNCHANGED <<mailbox, submit_time>>

InjectReject ==
  /\ Injecting("REJECT_JOB")
  /\ Injected(Head(commands))
  /\ Move(Head(commands), "queued", "rejected")
  /\ UNCHANGED <<mailbox, submit_time>>

\* The job is marked as run, and later as completed, by the scheduler itself.
InjectChange ==
  /\ Injecting("CHANGE_JOB_STATE")
  /\ Injected(Head(commands))
  /\ IF Head(commands).value = "RUNNING"
     THEN Move(Head(commands), "queued", "changed")
     ELSE Move(Head(commands), "changed", "done")
  /\ UNCHANGED <<mailbox, submit_time>>

\* Only the jobs still running are killed: each completes, then the kill is
\* acknowledged with the progress of those jobs.
InjectKill ==
  LET c == Head(commands)
      hit == {j \in c.jobs : truth[j] = "running"}
  IN  /\ Injecting("KILL_JOB")
      /\ Injected(c)
      /\ truth' = [j \in Job |-> IF j \in hit THEN "done" ELSE truth[j]]
      /\ \E order \in SetToSeqs(hit) :
           mailbox' = mailbox
             \o [i \in DOMAIN order |-> JobCompleted(order[i], "COMPLETED_KILLED")]
             \o <<Killed(c.jobs, hit)>>
      /\ UNCHANGED <<batsim, submit_time>>

InjectRegister ==
  LET c == Head(commands)
  IN  /\ Injecting("REGISTER_JOB")
      /\ Injected(c)
      /\ IF registration
         THEN Move(c, "absent", "queued")
         ELSE batsim' = "aborted" /\ UNCHANGED truth
      /\ UNCHANGED submit_time
      /\ mailbox' = IF ack_of_dynamic_jobs
                    THEN Append(mailbox, Event("JOB_SUBMITTED", c.jobs, {}, ""))
                    ELSE mailbox

InjectNotify ==
  /\ Injecting("NOTIFY")
  /\ commands' = Tail(commands)
  /\ registration' = FALSE
  /\ UNCHANGED <<truth, batsim, wakes, mailbox, now, loop_vars, api_vars, job_vars>>

InjectCallMeLater ==
  /\ Injecting("CALL_ME_LATER")
  /\ commands' = Tail(commands)
  /\ wakes' = wakes + 1
  /\ UNCHANGED <<truth, batsim, registration, mailbox, now, loop_vars, api_vars, job_vars>>

Inject == \/ InjectExecute \/ InjectReject \/ InjectChange \/ InjectKill
          \/ InjectRegister \/ InjectNotify \/ InjectCallMeLater

\* Every job is finished, nothing is under way and none can still be
\* registered: the last message is SIMULATION_ENDS alone.
Finished ==
  /\ commands = <<>> /\ mailbox = <<>> /\ wakes = 0
  /\ \A j \in Job : truth[j] \in {"done", "rejected"} \/ (j \in Dynamic /\ truth[j] = "absent")
  /\ Dynamic # {} => ~registration

SimEnd ==
  /\ Waiting /\ Finished
  /\ batsim' = "ending"
  /\ mailbox' = <<Signal("SIMULATION_ENDS")>>
  /\ UNCHANGED <<truth, registration, wakes, commands, now, loop_vars, api_vars, job_vars>>

\* Nothing will ever be sent again unless the scheduler acts.
Silent ==
  /\ commands = <<>> /\ mailbox = <<>> /\ wakes = 0 /\ ~Finished
  /\ \A j \in Job : truth[j] # "running" /\ (j \in Static => truth[j] # "absent")

Sim == \/ SimTick
       \/ \E j \in Job : SimSubmit(j)
       \/ \E j \in Job, o \in Outcomes : SimComplete(j, o)
       \/ SimCall
       \/ Inject
       \/ SimEnd

-----------------------------------------------------------------------------
\* The message loop: Batsim._read_bat_msg

\* The simulator sends its mailbox and network.recv returns it.
Receive ==
  /\ phase = "recv" /\ commands = <<>> /\ mailbox # <<>>
  /\ batsim' = IF batsim = "ending" THEN "ended" ELSE batsim
  /\ events' = mailbox
  /\ mailbox' = <<>>
  /\ events_to_send' = <<>>
  /\ phase' = "events"
  /\ UNCHANGED <<truth, registration, wakes, commands, now, initialised,
                 running_simulation, no_more_static_jobs, ack_of_dynamic_jobs,
                 state, jobs_manually_changed, job_vars>>

\* recv gives up, because nothing will come any more (a simulator that is only
\* slower than the timeout is not modelled): onDeadlock raises ValueError.
\* Outside the simulation the call blocks for ever.
Timeout ==
  /\ phase = "recv" /\ running_simulation
  /\ batsim = "aborted" \/ (batsim = "running" /\ Silent)
  /\ phase' = "deadlock"
  /\ UNCHANGED <<sim_vars, now, events, initialised, running_simulation,
                 no_more_static_jobs, ack_of_dynamic_jobs, api_vars, job_vars>>

Dispatching(type) == phase = "events" /\ events # <<>> /\ Head(events).type = type

DispatchSimulationBegins ==
  /\ Dispatching("SIMULATION_BEGINS")
  /\ running_simulation' = TRUE
  /\ ack_of_dynamic_jobs' \in AckModes
  /\ phase' = "handler"
  /\ UNCHANGED <<sim_vars, now, events, initialised, no_more_static_jobs,
                 api_vars, job_vars>>

DispatchSimulationEnds ==
  /\ Dispatching("SIMULATION_ENDS")
  /\ running_simulation' = FALSE
  /\ phase' = "handler"
  /\ UNCHANGED <<sim_vars, now, events, initialised, no_more_static_jobs,
                 ack_of_dynamic_jobs, api_vars, job_vars>>

\* The counters with those of S one higher.
Count(S) == [c \in Counter |-> IF c \in S THEN nb[c] + 1 ELSE nb[c]]

\* The counters with one of them n higher.
CountMany(counter, n) == [c \in Counter |-> IF c = counter THEN nb[c] + n ELSE nb[c]]

\* Mutant of CountSubmission: the acknowledged job stays "in submission".
CountSubmissionKeptInSubmission(known, acked) ==
  Count({"submitted", IF known THEN "from_scheduler" ELSE "from_batsim"})

CountSubmission(known, acked) ==
  LET counted == Count({"submitted", IF known THEN "from_scheduler" ELSE "from_batsim"})
  IN  IF acked THEN [counted EXCEPT !["in_submission"] = @ - 1] ELSE counted

\* A job that is already in the table is replaced by a fresh object, which
\* has no `state` and no allocation.
DispatchJobSubmitted ==
  /\ Dispatching("JOB_SUBMITTED")
  /\ \E j \in Head(events).jobs :
           /\ nb' = CountSubmission(job_state[j] # "NONE", job_state[j] = "IN_SUBMISSON")
           /\ job_state' = [job_state EXCEPT ![j] = "SUBMITTED"]
           /\ state' = [state EXCEPT ![j] = "NONE"]
  /\ phase' = "handler"
  /\ UNCHANGED <<sim_vars, now, events, initialised, running_simulation,
                 no_more_static_jobs, ack_of_dynamic_jobs, events_to_send, jobs_manually_changed,
                 submit_time>>

\* Mutant of StateNamed: the name is taken as it comes.
StateNamedUnchecked(name) == name

\* Job.State[...] of the event, UNKNOWN for a name the enumeration lacks.
StateNamed(name) == IF name \in JobState THEN name ELSE "UNKNOWN"

CountCompletion(s) ==
  Count({"completed"} \cup
        CASE s = "COMPLETED_WALLTIME_REACHED" -> {"timeout"}
          [] s = "COMPLETED_FAILED"           -> {"failed"}
          [] s = "COMPLETED_SUCCESSFULLY"     -> {"successful"}
          [] s = "COMPLETED_KILLED"           -> {"killed"}
          [] OTHER                            -> {})

DispatchJobCompleted ==
  /\ Dispatching("JOB_COMPLETED")
  /\ \E j \in Head(events).jobs :
       /\ job_state' = [job_state EXCEPT ![j] = StateNamed(Head(events).state)]
       /\ nb' = CountCompletion(StateNamed(Head(events).state))
  /\ phase' = "handler"
  /\ UNCHANGED <<sim_vars, now, events, initialised, running_simulation,
                 no_more_static_jobs, ack_of_dynamic_jobs, api_vars, submit_time>>

\* Mutant of DispatchJobKilled: the callback is made whatever the progress.
DispatchJobKilledUnfiltered ==
  /\ Dispatching("JOB_KILLED")
  /\ phase' = "handler"
  /\ UNCHANGED <<sim_vars, now, events, initialised, running_simulation,
                 no_more_static_jobs, ack_of_dynamic_jobs, api_vars, job_vars>>

\* Mutant of DispatchJobKilled: every job of the request is marked as killed.
DispatchJobKilledMarking ==
  /\ Dispatching("JOB_KILLED")
  /\ job_state' = [j \in Job |-> IF j \in Head(events).jobs
                                 THEN "COMPLETED_KILLED" ELSE job_state[j]]
  /\ phase' = "handler"
  /\ UNCHANGED <<sim_vars, now, events, initialised, running_simulation,
                 no_more_static_jobs, ack_of_dynamic_jobs, api_vars, submit_time, nb>>

\* No progress at all: the event is dropped.  Otherwise the progress of every
\* job of the request is looked up, and a missing one raises KeyError.
DispatchJobKilled ==
  LET e == Head(events)
  IN  /\ Dispatching("JOB_KILLED")
      /\ \/ /\ e.progress = {}
            /\ events' = Tail(events)
            /\ UNCHANGED phase
         \/ /\ e.progress # {} /\ e.jobs \subseteq e.progress
            /\ phase' = "handler"
            /\ UNCHANGED events
         \/ /\ e.progress # {} /\ ~(e.jobs \subseteq e.progress)
            /\ phase' = "exception"
            /\ UNCHANGED events
      /\ UNCHANGED <<sim_vars, now, initialised, running_simulation,
                     no_more_static_jobs, ack_of_dynamic_jobs, api_vars, job_vars>>

DispatchRequestedCall ==
  /\ Dispatching("REQUESTED_CALL")
  /\ phase' = "handler"
  /\ UNCHANGED <<sim_vars, now, events, initialised, running_simulation,
                 no_more_static_jobs, ack_of_dynamic_jobs, api_vars, job_vars>>

DispatchNotify ==
  /\ Dispatching("NOTIFY")
  /\ no_more_static_jobs' = TRUE
  /\ phase' = "handler"
  /\ UNCHANGED <<sim_vars, now, events, initialised, running_simulation,
                 ack_of_dynamic_jobs, api_vars, job_vars>>

\* After the last event the scheduler's onNoMoreEvents is called.
DispatchNoMoreEvents ==
  /\ phase = "events" /\ events = <<>>
  /\ phase' = "handler"
  /\ UNCHANGED <<sim_vars, now, events, initialised, running_simulation,
                 no_more_static_jobs, ack_of_dynamic_jobs, api_vars, job_vars>>

Dispatch == \/ DispatchSimulationBegins \/ DispatchSimulationEnds
            \/ DispatchJobSubmitted \/ DispatchJobCompleted \/ DispatchJobKilled
            \/ DispatchRequestedCall \/ DispatchNotify \/ DispatchNoMoreEvents

\* A callback of the scheduler returns; for an event the loop goes on ...
Handling(type) == phase = "handler" /\ events # <<>> /\ Head(events).type = type

CallbackReturns ==
  /\ phase' = "events"
  /\ events' = Tail(events)

\* Mutants of Reply: the last command is cut off; the commands are sorted the
\* wrong way round; nothing is sent when there is nothing to command.
ReplyCut      == commands' = IF events_to_send = <<>> THEN <<>> ELSE Front(events_to_send)
ReplyReversed == commands' = Reverse(events_to_send)
ReplyIfAny    == events_to_send # <<>> /\ commands' = events_to_send

Reply == commands' = events_to_send

\* ... and after onNoMoreEvents the reply leaves.  The commands are in the
\* order they were issued: the clock only advances in between, so the sort by
\* timestamp is the identity.  The list itself stays in _events_to_send until
\* the next message replaces it, hence "nothing unsent" from here on.
SendReply ==
  /\ phase = "handler" /\ events = <<>>
  /\ Reply
  /\ events_to_send' = <<>>
  /\ initialised' = TRUE
  /\ phase' = CASE ~initialised -> "init"
                [] initialised /\ ~running_simulation -> "ended"
                [] OTHER -> "recv"
  /\ UNCHANGED <<truth, batsim, registration, wakes, mailbox, now, events,
                 running_simulation, no_more_static_jobs, ack_of_dynamic_jobs,
                 state, jobs_manually_changed, job_vars>>

\* onAfterBatsimInit returns and start() begins its loop.
InitReturns == phase = "init" /\ phase' = "recv"

Library == Sim \/ Receive \/ Timeout \/ Dispatch \/ SendReply

-----------------------------------------------------------------------------
\* The API.  None of these operators checks that the call makes sense: the
\* code does not either.

OnePerJob(type, jobs) == [i \in 1 .. Len(jobs) |-> Command(type, {jobs[i]}, "")]

ExecuteJobs(jobs) ==      \* a sequence of jobs
  /\ events_to_send' = events_to_send \o OnePerJob("EXECUTE_JOB", jobs)
  /\ state' = [j \in Job |-> IF j \in ToSet(jobs) THEN "RUNNING" ELSE state[j]]
  /\ nb' = CountMany("scheduled", Len(jobs))
  /\ UNCHANGED <<jobs_manually_changed, job_state, submit_time>>

CountRejection(jobs) == CountMany("rejected", Len(jobs))

RejectJobs(jobs) ==       \* a sequence of jobs
  /\ events_to_send' = events_to_send \o OnePerJob("REJECT_JOB", jobs)
  /\ state' = [j \in Job |-> IF j \in ToSet(jobs) THEN "REJECTED" ELSE state[j]]
  /\ nb' = CountRejection(jobs)
  /\ UNCHANGED <<jobs_manually_changed, job_state, submit_time>>

KillJobs(jobs) ==         \* a set of jobs
  /\ job_state' = [j \in Job |-> IF j \in jobs THEN "IN_KILLING" ELSE job_state[j]]
  /\ events_to_send' = Append(events_to_send, Command("KILL_JOB", jobs, ""))
  /\ UNCHANGED <<state, nb, jobs_manually_changed, submit_time>>

ChangeJobState(j, value) ==
  /\ events_to_send' = Append(events_to_send, Command("CHANGE_JOB_STATE", {j}, value))
  /\ jobs_manually_changed' = jobs_manually_changed \cup {j}
  /\ UNCHANGED <<state, job_vars>>

\* Mutant of CountRegistration: counted as submitted at once, ack or not.
CountRegistrationAtOnce ==
  Count({"submitted", "from_scheduler"} \cup IF ack_of_dynamic_jobs THEN {"in_submission"} ELSE {})

CountRegistration ==
  Count(IF ack_of_dynamic_jobs THEN {"in_submission"} ELSE {"submitted", "from_scheduler"})

RegisterJob(j) ==
  /\ events_to_send' = Append(events_to_send, Command("REGISTER_JOB", {j}, ""))
  /\ job_state' = [job_state EXCEPT ![j] = "IN_SUBMISSON"]
  /\ state' = [state EXCEPT ![j] = "NONE"]
  /\ submit_time' = [submit_time EXCEPT ![j] = now]
  /\ nb' = CountRegistration
  /\ UNCHANGED jobs_manually_changed

Call(command) ==
  /\ events_to_send' = Append(events_to_send, command)
  /\ UNCHANGED <<state, jobs_manually_changed, job_vars>>

NotifyRegistrationFinished == Call(Command("NOTIFY", {}, ""))
WakeMeUpAt                 == Call(Command("CALL_ME_LATER", {}, ""))

ConsumeTime(t) == now' = now + t

-----------------------------------------------------------------------------
\* The most general scheduler that respects the API: it executes, rejects or
\* changes each job it knows at most once, kills what it has executed and not
\* seen completed, registers no job after it has closed the registration,
\* and asks to be woken up at a later time.

Listening == \/ phase = "handler" /\ running_simulation /\ initialised
             \/ phase = "init" /\ InitCalls

Untouched(j) ==
  /\ job_state[j] = "SUBMITTED" \/ (job_state[j] = "IN_SUBMISSON" /\ ~ack_of_dynamic_jobs)
  /\ state[j] = "NONE" /\ j \notin jobs_manually_changed

Alive(j) == state[j] = "RUNNING" /\ job_state[j] \notin Completed \cup {"UNKNOWN", "IN_KILLING"}

Closing(queue) == \E i \in DOMAIN queue : queue[i].type = "NOTIFY"
Open == registration /\ ~Closing(commands) /\ ~Closing(events_to_send)

Pending(type, value, j) == \E i \in DOMAIN events_to_send :
  events_to_send[i] = Command(type, {j}, value)

ClientCall ==
  /\ Listening
  /\ \/ \E j \in Job : Untouched(j) /\
          (ExecuteJobs(<<j>>) \/ RejectJobs(<<j>>) \/ ChangeJobState(j, "RUNNING"))
     \/ \E j \in jobs_manually_changed :
          /\ Pending("CHANGE_JOB_STATE", "RUNNING", j) \/ truth[j] = "changed"
          /\ ~Pending("CHANGE_JOB_STATE", "COMPLETED_SUCCESSFULLY", j)
          /\ ChangeJobState(j, "COMPLETED_SUCCESSFULLY")
     \/ \E K \in SUBSET Job : K # {} /\ Cardinality(K) <= KillSize
          /\ (\A j \in K : Alive(j)) /\ KillJobs(K)
     \/ \E j \in Dynamic : job_state[j] = "NONE" /\ Open /\ RegisterJob(j)
     \/ Dynamic # {} /\ Open /\ NotifyRegistrationFinished
     \/ wakes < MaxCalls /\ now < MaxTime /\ ~(\E i \in DOMAIN events_to_send :
             events_to_send[i].type = "CALL_ME_LATER") /\ WakeMeUpAt
  /\ UNCHANGED <<sim_vars, now, loop_vars>>

ClientConsume ==
  /\ Listening /\ now < MaxTime
  /\ ConsumeTime(1)
  /\ UNCHANGED <<sim_vars, loop_vars, api_vars, job_vars>>

ClientReturn ==
  /\ \/ phase = "handler" /\ events # <<>> /\ CallbackReturns
     \/ InitReturns /\ UNCHANGED events
  /\ UNCHANGED <<sim_vars, now, initialised, running_simulation,
                 no_more_static_jobs, ack_of_dynamic_jobs, api_vars, job_vars>>

\* The process has ended, normally or with an exception.
Over == phase \in {"ended", "deadlock", "exception"}
Terminated == Over /\ UNCHANGED batsim_vars

BatsimInit ==
  /\ truth = [j \in Job |-> "absent"]
  /\ batsim = "running" /\ registration = TRUE /\ wakes = 0
  /\ commands = <<>> /\ mailbox = <<Signal("SIMULATION_BEGINS")>>
  /\ now = 0
  /\ phase = "recv" /\ events = <<>> /\ initialised = FALSE
  /\ running_simulation = FALSE /\ no_more_static_jobs = FALSE
  /\ ack_of_dynamic_jobs = FALSE
  /\ events_to_send = <<>>
  /\ job_state = [j \in Job |-> "NONE"]
  /\ state = [j \in Job |-> "NONE"]
  /\ submit_time = [j \in Job |-> 0]
  /\ nb = [c \in Counter |-> 0]
  /\ jobs_manually_changed = {}

ClientNext == ClientCall \/ ClientConsume \/ ClientReturn

BatsimNext == Library \/ ClientNext \/ Terminated

BatsimSpec == BatsimInit /\ [][BatsimNext]_batsim_vars

-----------------------------------------------------------------------------
\* Properties

SimTypeOK ==
  /\ truth \in [Job -> {"absent", "queued", "running", "changed", "done", "rejected"}]
  /\ batsim \in {"running", "ending", "ended", "aborted"}
  /\ registration \in BOOLEAN /\ wakes \in Nat
  /\ commands \in Seq(CommandSet) /\ mailbox \in Seq(EventSet)

LoopTypeOK ==
  /\ phase \in {"recv", "events", "handler", "init", "ended", "deadlock", "exception"}
  /\ events \in Seq(EventSet)
  /\ initialised \in BOOLEAN /\ running_simulation \in BOOLEAN
  /\ no_more_static_jobs \in BOOLEAN /\ ack_of_dynamic_jobs \in BOOLEAN

ApiTypeOK ==
  /\ events_to_send \in Seq(CommandSet)
  /\ state \in [Job -> {"NONE", "RUNNING", "REJECTED"}]
  /\ jobs_manually_changed \subseteq Job

JobTypeOK ==
  /\ job_state \in [Job -> JobState \cup {"NONE"}]
  /\ submit_time \in [Job -> Nat]
  /\ nb \in [Counter -> Nat]

\* Every variable keeps its type.
TypeOK == SimTypeOK /\ now \in Nat /\ LoopTypeOK /\ ApiTypeOK /\ JobTypeOK

InState(S) == Cardinality({j \in Job : job_state[j] \in S})

\* The counters of Batsim are redundant with its job table: each is what one
\* would get by counting the jobs, whichever order submissions,
\* acknowledgements, kills and completions came in.
Accounting ==
  /\ nb["submitted"] = nb["from_batsim"] + nb["from_scheduler"]
  /\ nb["submitted"] + nb["in_submission"] = InState(JobState)
  /\ ack_of_dynamic_jobs => nb["in_submission"] = InState({"IN_SUBMISSON"})
  /\ nb["completed"] = InState(Completed \cup {"UNKNOWN"})
  /\ nb["successful"] = InState({"COMPLETED_SUCCESSFULLY"})
  /\ nb["failed"] = InState({"COMPLETED_FAILED"})
  /\ nb["timeout"] = InState({"COMPLETED_WALLTIME_REACHED"})
  /\ nb["killed"] = InState({"COMPLETED_KILLED"})
  /\ nb["rejected"] = Cardinality({j \in Job : state[j] = "REJECTED"})
  /\ nb["scheduled"] = Cardinality({j \in Job : state[j] = "RUNNING"})

Mentions(queue, j) == \E i \in DOMAIN queue : j \in queue[i].jobs

\* When pybatsim waits and nothing about a job is under way, its job table says
\* what really happened to that job.
MirrorAgrees ==
  phase = "recv" => \A j \in Job :
    \/ Mentions(mailbox, j) \/ Mentions(commands, j)
    \/ CASE truth[j] = "absent"   -> job_state[j] = "NONE"
         [] truth[j] = "queued"   -> Untouched(j)
         [] truth[j] = "running"  -> Alive(j)
         [] truth[j] = "changed"  -> j \in jobs_manually_changed
         [] truth[j] = "rejected" -> state[j] = "REJECTED"
         [] truth[j] = "done"     -> \/ job_state[j] \in Completed \cup {"UNKNOWN"}
                                     \/ j \in jobs_manually_changed

\* onJobsKilled is only told of jobs that were really killed, never of one that
\* completed by itself while the order to kill it was under way.
KilledCallbackOnlyForKilled ==
  Handling("JOB_KILLED") =>
    \A j \in Head(events).jobs : job_state[j] = "COMPLETED_KILLED"

\* A scheduler that respects the API never makes the simulator abort: no
\* command reaches it twice, too early or in the wrong order.
NeverAborted == batsim # "aborted"

\* launch_scheduler exits with 0: at the end every submitted job has been
\* scheduled, rejected or changed, and none counted twice.
CleanExit ==
  phase = "ended" =>
    nb["submitted"] = nb["scheduled"] + nb["rejected"] + Cardinality(jobs_manually_changed)

\* A job seen completed stays completed the way it did.
CompletedIsFinal ==
  [][\A j \in Job : job_state[j] \in Completed => job_state'[j] = job_state[j]]_batsim_vars

\* Every message of the simulator gets its reply, unless the dispatch raises.
EveryMessageAnswered ==
  phase \in {"events", "handler"} ~> phase \in {"recv", "init", "ended", "exception"}

\* What the comment "You now have access to self.bs and all other functions" of
\* onAfterBatsimInit promises: no command a scheduler issues is thrown away.
NoCommandLost == phase = "recv" => events_to_send = <<>>

\* What the comment in the JOB_KILLED branch promises: a job that completed
\* before the kill is left out of the killed jobs.
NoKeyError == phase # "exception"

\* pybatsim is an ordinary process: it goes on as long as it can take a step.
\* A callback makes finitely many calls, so it returns.
LoopFairness == WF_batsim_vars(Dispatch \/ SendReply \/ ClientNext)

BatsimFairSpec == BatsimSpec /\ LoopFairness
=============================================================================

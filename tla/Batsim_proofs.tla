---------------------------- MODULE Batsim_proofs ----------------------------
(***************************************************************************)
(* The message loop and the API of Batsim, under the most general          *)
(* scheduler that respects the API: the counters agree with the job table, *)
(* a completed job stays as it is, onJobsKilled is told the truth; and, if *)
(* nothing is called in onAfterBatsimInit, the simulator never aborts, the *)
(* job table says what really happened to each job, and the process exits  *)
(* with 0.                                                                 *)
(*                                                                         *)
(* The invariant is in two layers.  The first says what a message under    *)
(* way, in either direction, implies for its jobs; it holds even if        *)
(* commands are lost.  The second says which message must be under way if  *)
(* the two processes disagree, and that the commands about a job are in    *)
(* an order in which the simulator can obey them.                          *)
(***************************************************************************)
EXTENDS Batsim, Integers, FiniteSetTheorems, FunctionTheorems, SequenceTheorems, TLAPS

-----------------------------------------------------------------------------
\* Messages under way

Registering(j) == Command("REGISTER_JOB", {j}, "")
Executing(j)   == Command("EXECUTE_JOB", {j}, "")
Rejecting(j)   == Command("REJECT_JOB", {j}, "")
Marking(j)     == Command("CHANGE_JOB_STATE", {j}, "RUNNING")
Completing(j)  == Command("CHANGE_JOB_STATE", {j}, "COMPLETED_SUCCESSFULLY")
Killing(K)     == Command("KILL_JOB", K, "")
Notice         == Command("NOTIFY", {}, "")
WakeUp         == Command("CALL_ME_LATER", {}, "")

\* The commands that settle what becomes of a job.
Deciding(j) == {Executing(j), Rejecting(j), Marking(j)}

\* The commands the API can issue, and the events the simulator can send.
ApiCommand ==
  {Registering(j) : j \in Job} \cup {Executing(j) : j \in Job} \cup {Rejecting(j) : j \in Job}
  \cup {Marking(j) : j \in Job} \cup {Completing(j) : j \in Job}
  \cup {Killing(K) : K \in SUBSET Job} \cup {Notice, WakeUp}

Completions(j) == {JobCompleted(j, o) : o \in Outcomes \cup {"COMPLETED_KILLED"}}

Begins == Signal("SIMULATION_BEGINS")
Ends   == Signal("SIMULATION_ENDS")

SimEvent ==
  {Submitted(j) : j \in Job} \cup {JobCompleted(j, o) : j \in Job, o \in Outcomes \cup {"COMPLETED_KILLED"}}
  \cup {Killed(K, P) : K \in SUBSET Job, P \in SUBSET Job}
  \cup {Begins, Ends, Signal("REQUESTED_CALL"), Signal("NOTIFY")}

\* The events whose effect on the job table is still to come.
Undealt == IF phase = "handler" /\ events # <<>> THEN Tail(events) ELSE events

Inbox  == IF phase \in {"events", "handler", "exception"} THEN Undealt ELSE mailbox
Outbox == IF phase \in {"events", "handler", "exception", "init"} THEN events_to_send ELSE commands

\* At most one message of q is one of E.
AtMostOne(q, E) == \A i, k \in 1 .. Len(q) : q[i] \in E /\ q[k] \in E => i = k

\* Whenever e is in q, f is before it; every e in q is before every f.
Preceded(q, e, f) == \A i \in 1 .. Len(q) : q[i] = e => \E k \in 1 .. Len(q) : k < i /\ q[k] = f
AllBefore(q, e, f) == \A i, k \in 1 .. Len(q) : q[i] = e /\ q[k] = f => i < k

-----------------------------------------------------------------------------
\* The first layer

Ended == Completed \cup {"UNKNOWN"}

Touched(j) == state[j] # "NONE" \/ j \in jobs_manually_changed

\* Not heard of, or registered and not acknowledged.
Fresh(j) ==
  /\ ~Touched(j)
  /\ job_state[j] = IF j \in Static THEN "NONE" ELSE "IN_SUBMISSON"
  /\ j \in Dynamic => ack_of_dynamic_jobs

TypeInv ==
  /\ TypeOK
  /\ commands \in Seq(ApiCommand) /\ events_to_send \in Seq(ApiCommand)
  /\ mailbox \in Seq(SimEvent) /\ events \in Seq(SimEvent)

Alternating ==
  /\ phase \in {"events", "handler", "exception"} => mailbox = <<>>
  /\ phase \in {"events", "handler", "exception", "init"} => commands = <<>>
  /\ phase \notin {"events", "handler", "exception"} => events = <<>>
  /\ phase = "init" => initialised /\ mailbox = <<>>

\* Until the first reply nothing has happened.
Starting ==
  /\ initialised => Begins \notin ToSet(Inbox)
  /\ ~initialised =>
       /\ \A j \in Job : truth[j] = "absent" /\ job_state[j] = "NONE" /\ state[j] = "NONE"
       /\ jobs_manually_changed = {} /\ registration /\ batsim = "running"
       /\ commands = <<>> /\ events_to_send = <<>>
       /\ IF running_simulation
          THEN Inbox = <<>> /\ phase \in {"events", "handler"}
          ELSE Inbox = <<Begins>> /\ phase \in {"recv", "events"}

Incoming(j) ==
  /\ AtMostOne(Inbox, {Submitted(j)}) /\ AtMostOne(Inbox, Completions(j))
  /\ Submitted(j) \in ToSet(Inbox) => truth[j] = "queued" /\ Fresh(j)
  /\ ToSet(Inbox) \cap Completions(j) # {} =>
       truth[j] = "done" /\ state[j] = "RUNNING" /\ job_state[j] \notin Ended

\* A kill is acknowledged after the completions it caused.
Explained(q, table) == \A e \in ToSet(q) : \A j \in Job :
  e.type = "JOB_KILLED" /\ j \in e.progress =>
    \/ table[j] = "COMPLETED_KILLED"
    \/ Preceded(q, e, JobCompleted(j, "COMPLETED_KILLED"))

KillsTold == Explained(Inbox, job_state)

Outgoing(j) ==
  /\ AtMostOne(Outbox, {Registering(j)}) /\ AllBefore(Outbox, Registering(j), Notice)
  /\ Registering(j) \in ToSet(Outbox) =>
       /\ registration /\ j \in Dynamic /\ truth[j] = "absent" /\ job_state[j] # "NONE"
       /\ ack_of_dynamic_jobs => Fresh(j)
  /\ Executing(j) \in ToSet(Outbox) => state[j] = "RUNNING"
  /\ Rejecting(j) \in ToSet(Outbox) => state[j] = "REJECTED"
  /\ {Marking(j), Completing(j)} \cap ToSet(Outbox) # {} => j \in jobs_manually_changed

\* What the job table says of one job.
Table(j) ==
  /\ Touched(j) => job_state[j] # "NONE" /\ (ack_of_dynamic_jobs => job_state[j] # "IN_SUBMISSON")
  /\ state[j] # "NONE" => j \notin jobs_manually_changed
  /\ job_state[j] \in Ended => truth[j] = "done" /\ state[j] = "RUNNING"
  /\ job_state[j] = "IN_KILLING" => state[j] = "RUNNING"
  /\ job_state[j] \notin {"RUNNING", "REJECTED"}
  /\ j \in Static => job_state[j] # "IN_SUBMISSON"
  /\ j \in Static /\ truth[j] = "absent" => job_state[j] = "NONE"
  /\ j \in Dynamic /\ job_state[j] = "NONE" => truth[j] = "absent"

\* What the simulator did with a job was the scheduler's wish.
Wished(j) ==
  /\ truth[j] = "running"  => state[j] = "RUNNING"
  /\ truth[j] = "rejected" => state[j] = "REJECTED"
  /\ truth[j] = "changed"  => j \in jobs_manually_changed
  /\ truth[j] = "done" => \/ job_state[j] \in Ended \/ j \in jobs_manually_changed
                          \/ ToSet(Inbox) \cap Completions(j) # {}
  /\ truth[j] = "queued" /\ ~Touched(j) => Untouched(j) \/ Submitted(j) \in ToSet(Inbox)

JobInv(j) == Incoming(j) /\ Outgoing(j) /\ Table(j) /\ Wished(j)

WayInv == Alternating /\ Starting /\ \A j \in Job : JobInv(j)

CountInv == Accounting /\ (~ack_of_dynamic_jobs => nb["in_submission"] = 0)

LoopInv == TypeInv /\ WayInv /\ CountInv

-----------------------------------------------------------------------------
\* The second layer

\* The commands about a job are in an order the simulator can obey.
Ordered(j) ==
  /\ AtMostOne(Outbox, Deciding(j)) /\ AtMostOne(Outbox, {Completing(j)})
  /\ \A c \in ToSet(Outbox) \cap Deciding(j) :
       \/ truth[j] = "queued"
       \/ truth[j] = "absent" /\ Preceded(Outbox, c, Registering(j))
  /\ Completing(j) \in ToSet(Outbox) =>
       truth[j] = "changed" \/ Preceded(Outbox, Completing(j), Marking(j))
  /\ \A K \in SUBSET Job : Killing(K) \in ToSet(Outbox) /\ j \in K =>
       truth[j] \in {"running", "done"} \/ Preceded(Outbox, Killing(K), Executing(j))

\* What the scheduler wished and has not happened is under way.
UnderWay(j) ==
  /\ truth[j] = "absent" /\ job_state[j] # "NONE" => Registering(j) \in ToSet(Outbox)
  /\ truth[j] \in {"absent", "queued"} /\ Touched(j) => ToSet(Outbox) \cap Deciding(j) # {}
  /\ job_state[j] = "IN_KILLING" =>
       truth[j] = "done" \/ \E K \in SUBSET Job : j \in K /\ Killing(K) \in ToSet(Outbox)

NothingLost == phase \notin {"events", "handler", "exception"} => events_to_send = <<>>

ObeyInv == NeverAborted /\ NothingLost /\ \A j \in Job : Ordered(j) /\ UnderWay(j)

\* Every job has come to its end, or was never registered.
Settled == \A j \in Job : truth[j] \in {"done", "rejected"} \/ (j \in Dynamic /\ truth[j] = "absent")

\* The simulation ends when every job is settled and nothing is under way, and
\* the process ends when it has been told so.
Ending ==
  /\ batsim \in {"ending", "ended"} => Settled
  /\ batsim = "ending" => phase = "recv" /\ mailbox = <<Ends>> /\ commands = <<>>
  /\ batsim = "ended" =>
       /\ events_to_send = <<>> /\ mailbox = <<>> /\ commands = <<>>
       /\ \/ phase = "events" /\ events = <<Ends>>
          \/ ~running_simulation /\ Inbox = <<>>
  /\ Ends \in ToSet(Inbox) => batsim \in {"ending", "ended"}
  /\ initialised /\ ~running_simulation => batsim = "ended"
  /\ phase = "ended" => initialised /\ ~running_simulation

-----------------------------------------------------------------------------
\* Queues

\* A queue loses its head.
LEMMA HeadGone ==
  ASSUME NEW S, NEW q \in Seq(S), q # <<>>
  PROVE  /\ Head(q) \in S /\ Tail(q) \in Seq(S)
         /\ ToSet(q) = {Head(q)} \cup ToSet(Tail(q))
         /\ \A E : AtMostOne(q, E) => /\ AtMostOne(Tail(q), E)
                                      /\ Head(q) \in E => ToSet(Tail(q)) \cap E = {}
         /\ \A e, f : Preceded(q, e, f) => /\ Head(q) # e
                                           /\ Head(q) # f => Preceded(Tail(q), e, f)
         /\ \A e, f : AllBefore(q, e, f) => /\ AllBefore(Tail(q), e, f)
                                            /\ Head(q) = f => e \notin ToSet(Tail(q))
<1>1. /\ Len(q) \in Nat /\ Len(q) > 0 /\ Head(q) = q[1] /\ Head(q) \in S
      /\ Tail(q) \in Seq(S) /\ Len(Tail(q)) = Len(q) - 1
      /\ \A i \in 1 .. Len(Tail(q)) : Tail(q)[i] = q[i + 1]
      /\ DOMAIN q = 1 .. Len(q) /\ DOMAIN Tail(q) = 1 .. Len(Tail(q))
  BY LenProperties, HeadTailProperties
<1> DEFINE n == Len(q)
           t == Tail(q)
<1>2. Len(t) = n - 1 /\ n \in Nat /\ n > 0
  BY <1>1
<1>3. \A i \in 1 .. Len(t) : i + 1 \in 1 .. n /\ t[i] = q[i + 1]
  BY <1>1, <1>2
<1>4. \A i \in 1 .. n : i = 1 \/ (i - 1 \in 1 .. Len(t) /\ q[i] = t[i - 1])
  <2> SUFFICES ASSUME NEW i \in 1 .. n, i # 1
               PROVE  i - 1 \in 1 .. Len(t) /\ q[i] = t[i - 1]
    OBVIOUS
  <2>1. i - 1 \in 1 .. Len(t) /\ (i - 1) + 1 = i
    BY <1>2
  <2> QED
    BY <1>3, <2>1
<1>5. ToSet(q) = {q[i] : i \in 1 .. n} /\ ToSet(t) = {t[i] : i \in 1 .. Len(t)}
  BY <1>1 DEF ToSet
<1>6. 1 \in 1 .. n /\ Head(q) = q[1]
  BY <1>1, <1>2
<1> HIDE DEF n, t
<1>7. ToSet(q) = {Head(q)} \cup ToSet(t)
  <2>1. ToSet(q) \subseteq {Head(q)} \cup ToSet(t)
    BY <1>4, <1>5, <1>6
  <2>2. {Head(q)} \cup ToSet(t) \subseteq ToSet(q)
    BY <1>3, <1>5, <1>6
  <2> QED
    BY <2>1, <2>2
<1>8. ASSUME NEW E, AtMostOne(q, E)
      PROVE  AtMostOne(t, E) /\ (Head(q) \in E => ToSet(t) \cap E = {})
  <2>1. \A i, k \in 1 .. n : q[i] \in E /\ q[k] \in E => i = k
    BY <1>8 DEF AtMostOne, n
  <2>2. AtMostOne(t, E)
    <3> SUFFICES ASSUME NEW i \in 1 .. Len(t), NEW k \in 1 .. Len(t), t[i] \in E, t[k] \in E
                 PROVE  i = k
      BY DEF AtMostOne
    <3>1. i + 1 = k + 1
      BY <1>3, <2>1
    <3> QED
      BY <3>1
  <2>3. ASSUME Head(q) \in E, NEW i \in 1 .. Len(t), t[i] \in E PROVE FALSE
    <3>1. i + 1 = 1
      BY <1>3, <1>6, <2>1, <2>3
    <3> QED
      BY <3>1
  <2> QED
    BY <1>5, <2>2, <2>3
<1>9. ASSUME NEW e, NEW f, Preceded(q, e, f)
      PROVE  Head(q) # e /\ (Head(q) # f => Preceded(t, e, f))
  <2>1. \A i \in 1 .. n : q[i] = e => \E k \in 1 .. n : k < i /\ q[k] = f
    BY <1>9 DEF Preceded, n
  <2>2. Head(q) # e
    <3> SUFFICES ASSUME q[1] = e PROVE FALSE
      BY <1>6
    <3>1. PICK k \in 1 .. n : k < 1
      BY <1>6, <2>1
    <3> QED
      BY <1>2, <3>1
  <2>3. ASSUME Head(q) # f, NEW i \in 1 .. Len(t), t[i] = e
        PROVE  \E k \in 1 .. Len(t) : k < i /\ t[k] = f
    <3>1. i + 1 \in 1 .. n /\ q[i + 1] = e
      BY <1>3, <2>3
    <3>2. PICK k \in 1 .. n : k < i + 1 /\ q[k] = f
      BY <2>1, <3>1
    <3>3. k # 1
      BY <1>6, <2>3, <3>2
    <3>4. k - 1 \in 1 .. Len(t) /\ t[k - 1] = f
      BY <1>4, <3>2, <3>3
    <3>5. k - 1 < i
      BY <1>2, <3>2
    <3> QED
      BY <3>4, <3>5
  <2> QED
    BY <2>2, <2>3 DEF Preceded
<1>10. ASSUME NEW e, NEW f, AllBefore(q, e, f)
       PROVE  AllBefore(t, e, f) /\ (Head(q) = f => e \notin ToSet(t))
  <2>1. \A i, k \in 1 .. n : q[i] = e /\ q[k] = f => i < k
    BY <1>10 DEF AllBefore, n
  <2>2. AllBefore(t, e, f)
    <3> SUFFICES ASSUME NEW i \in 1 .. Len(t), NEW k \in 1 .. Len(t), t[i] = e, t[k] = f
                 PROVE  i < k
      BY DEF AllBefore
    <3>1. i + 1 < k + 1
      BY <1>3, <2>1
    <3> QED
      BY <1>2, <3>1
  <2>3. ASSUME Head(q) = f, NEW i \in 1 .. Len(t), t[i] = e PROVE FALSE
    <3>1. i + 1 < 1
      BY <1>3, <1>6, <2>1, <2>3
    <3> QED
      BY <1>2, <3>1
  <2> QED
    BY <1>5, <2>2, <2>3
<1> QED
  BY <1>1, <1>7, <1>8, <1>9, <1>10 DEF t

\* A queue gets one more message.
LEMMA OneMore ==
  ASSUME NEW S, NEW q \in Seq(S), NEW x \in S
  PROVE  /\ Append(q, x) \in Seq(S)
         /\ ToSet(Append(q, x)) = ToSet(q) \cup {x}
         /\ \A E : AtMostOne(q, E) /\ (x \in E => ToSet(q) \cap E = {}) => AtMostOne(Append(q, x), E)
         /\ \A e, f : Preceded(q, e, f) /\ (x = e => f \in ToSet(q)) => Preceded(Append(q, x), e, f)
         /\ \A e, f : AllBefore(q, e, f) /\ (x = e => f # e /\ f \notin ToSet(q)) => AllBefore(Append(q, x), e, f)
<1> DEFINE n == Len(q)
           a == Append(q, x)
<1>1. n \in Nat /\ a \in Seq(S) /\ Len(a) = n + 1 /\ DOMAIN q = 1 .. n /\ DOMAIN a = 1 .. Len(a)
  BY LenProperties, AppendProperties
<1>2. (\A i \in 1 .. n : a[i] = q[i]) /\ a[n + 1] = x
  BY AppendProperties
<1>3. \A i \in 1 .. Len(a) : \/ i \in 1 .. n /\ a[i] = q[i]
                             \/ i = n + 1 /\ a[i] = x
  BY <1>1, <1>2
<1>4. 1 .. n \subseteq 1 .. Len(a) /\ n + 1 \in 1 .. Len(a)
  BY <1>1
<1>5. ToSet(q) = {q[i] : i \in 1 .. n} /\ ToSet(a) = {a[i] : i \in 1 .. Len(a)}
  BY <1>1 DEF ToSet
<1> HIDE DEF a
<1>6. ToSet(a) = ToSet(q) \cup {x}
  <2>1. ToSet(a) \subseteq ToSet(q) \cup {x}
    BY <1>3, <1>5
  <2>2. ToSet(q) \subseteq ToSet(a)
    BY <1>2, <1>4, <1>5
  <2>3. x \in ToSet(a)
    BY <1>2, <1>4, <1>5
  <2> QED
    BY <2>1, <2>2, <2>3
<1>7. ASSUME NEW E, AtMostOne(q, E), x \in E => ToSet(q) \cap E = {} PROVE AtMostOne(a, E)
  <2> SUFFICES ASSUME NEW i \in 1 .. Len(a), NEW k \in 1 .. Len(a), a[i] \in E, a[k] \in E
               PROVE  i = k
    BY DEF AtMostOne
  <2>1. \A m \in 1 .. n : x \in E => q[m] \notin E
    BY <1>5, <1>7
  <2> QED
    BY <1>3, <1>7, <2>1 DEF AtMostOne
<1>8. ASSUME NEW e, NEW f, Preceded(q, e, f), x = e => f \in ToSet(q) PROVE Preceded(a, e, f)
  <2> SUFFICES ASSUME NEW i \in 1 .. Len(a), a[i] = e
               PROVE  \E k \in 1 .. Len(a) : k < i /\ a[k] = f
    BY DEF Preceded
  <2>1. CASE i \in 1 .. n
    <3>1. PICK k \in 1 .. n : k < i /\ q[k] = f
      BY <1>2, <1>8, <2>1 DEF Preceded
    <3> QED
      BY <1>2, <1>4, <3>1
  <2>2. CASE i = n + 1 /\ x = e
    <3>1. PICK k \in 1 .. n : q[k] = f
      BY <1>5, <1>8, <2>2
    <3>2. k < i
      BY <1>1, <2>2
    <3> QED
      BY <1>2, <1>4, <3>1, <3>2
  <2> QED
    BY <1>3, <2>1, <2>2
<1>9. ASSUME NEW e, NEW f, AllBefore(q, e, f), x = e => f # e /\ f \notin ToSet(q) PROVE AllBefore(a, e, f)
  <2> SUFFICES ASSUME NEW i \in 1 .. Len(a), NEW k \in 1 .. Len(a), a[i] = e, a[k] = f
               PROVE  i < k
    BY DEF AllBefore
  <2>1. CASE i \in 1 .. n /\ k \in 1 .. n
    BY <1>2, <1>9, <2>1 DEF AllBefore
  <2>2. CASE i \in 1 .. n /\ k = n + 1
    BY <1>1, <2>2
  <2>3. CASE i = n + 1
    <3>1. x = e /\ f # e /\ f \notin ToSet(q)
      BY <1>2, <1>9, <2>3
    <3>2. CASE k \in 1 .. n /\ a[k] = q[k]
      BY <1>5, <3>1, <3>2
    <3>3. CASE k = n + 1 /\ a[k] = x
      BY <3>1, <3>3
    <3> QED
      BY <1>3, <3>2, <3>3
  <2> QED
    BY <1>3, <2>1, <2>2, <2>3
<1> QED
  BY <1>1, <1>6, <1>7, <1>8, <1>9 DEF a

\* A queue gets several more.
LEMMA SeveralMore ==
  ASSUME NEW S, NEW q \in Seq(S), NEW b \in Seq(S)
  PROVE  /\ q \o b \in Seq(S)
         /\ ToSet(q \o b) = ToSet(q) \cup ToSet(b)
         /\ \A E : /\ AtMostOne(q, E) /\ AtMostOne(b, E)
                   /\ ToSet(q) \cap E = {} \/ ToSet(b) \cap E = {}
                   => AtMostOne(q \o b, E)
         /\ \A e, f : Preceded(q, e, f) /\ e \notin ToSet(b) => Preceded(q \o b, e, f)
<1> DEFINE n == Len(q)
           m == Len(b)
           a == q \o b
<1>1. /\ n \in Nat /\ m \in Nat /\ a \in Seq(S) /\ Len(a) = n + m
      /\ DOMAIN q = 1 .. n /\ DOMAIN b = 1 .. m /\ DOMAIN a = 1 .. Len(a)
  BY LenProperties, ConcatProperties
<1>2. \A i \in 1 .. n + m : a[i] = IF i <= n THEN q[i] ELSE b[i - n]
  BY ConcatProperties
<1> HIDE DEF a
<1>3. \A i \in 1 .. Len(a) : \/ i \in 1 .. n /\ a[i] = q[i]
                             \/ i - n \in 1 .. m /\ a[i] = b[i - n]
  <2> SUFFICES ASSUME NEW i \in 1 .. Len(a)
               PROVE  (i \in 1 .. n /\ a[i] = q[i]) \/ (i - n \in 1 .. m /\ a[i] = b[i - n])
    OBVIOUS
  <2>1. i \in 1 .. n + m
    BY <1>1
  <2>2. CASE i <= n
    BY <1>1, <1>2, <2>1, <2>2
  <2>3. CASE ~(i <= n)
    BY <1>1, <1>2, <2>1, <2>3
  <2> QED
    BY <2>2, <2>3
<1>4. /\ \A i \in 1 .. n : i \in 1 .. Len(a) /\ a[i] = q[i]
      /\ \A i \in 1 .. m : i + n \in 1 .. Len(a) /\ a[i + n] = b[i]
  <2>1. \A i \in 1 .. n : i \in 1 .. n + m /\ i <= n
    BY <1>1
  <2>2. ASSUME NEW i \in 1 .. m PROVE i + n \in 1 .. Len(a) /\ a[i + n] = b[i]
    <3>1. i + n \in 1 .. n + m /\ ~(i + n <= n) /\ (i + n) - n = i
      BY <1>1
    <3>2. a[i + n] = b[(i + n) - n]
      BY <1>2, <3>1
    <3> QED
      BY <1>1, <3>1, <3>2
  <2> QED
    BY <1>1, <1>2, <2>1, <2>2
<1>5. ToSet(q) = {q[i] : i \in 1 .. n} /\ ToSet(b) = {b[i] : i \in 1 .. m} /\ ToSet(a) = {a[i] : i \in 1 .. Len(a)}
  BY <1>1 DEF ToSet
<1>6. ToSet(a) = ToSet(q) \cup ToSet(b)
  <2>1. ToSet(a) \subseteq ToSet(q) \cup ToSet(b)
    BY <1>3, <1>5
  <2>2. ToSet(q) \subseteq ToSet(a)
    BY <1>4, <1>5
  <2>3. ToSet(b) \subseteq ToSet(a)
    BY <1>4, <1>5
  <2> QED
    BY <2>1, <2>2, <2>3
<1>7. ASSUME NEW E, AtMostOne(q, E), AtMostOne(b, E), ToSet(q) \cap E = {} \/ ToSet(b) \cap E = {}
      PROVE  AtMostOne(a, E)
  <2> SUFFICES ASSUME NEW i \in 1 .. Len(a), NEW k \in 1 .. Len(a), a[i] \in E, a[k] \in E
               PROVE  i = k
    BY DEF AtMostOne
  <2>1. CASE ToSet(q) \cap E = {}
    <3>1. i - n \in 1 .. m /\ a[i] = b[i - n] /\ k - n \in 1 .. m /\ a[k] = b[k - n]
      BY <1>3, <1>5, <2>1
    <3>2. i - n = k - n
      BY <1>7, <3>1 DEF AtMostOne
    <3> QED
      BY <1>1, <3>2
  <2>2. CASE ToSet(b) \cap E = {}
    <3>1. i \in 1 .. n /\ a[i] = q[i] /\ k \in 1 .. n /\ a[k] = q[k]
      BY <1>3, <1>5, <2>2
    <3> QED
      BY <1>7, <3>1 DEF AtMostOne
  <2> QED
    BY <1>7, <2>1, <2>2
<1>8. ASSUME NEW e, NEW f, Preceded(q, e, f), e \notin ToSet(b) PROVE Preceded(a, e, f)
  <2> SUFFICES ASSUME NEW i \in 1 .. Len(a), a[i] = e
               PROVE  \E k \in 1 .. Len(a) : k < i /\ a[k] = f
    BY DEF Preceded
  <2>1. i \in 1 .. n /\ q[i] = e
    BY <1>3, <1>5, <1>8
  <2>2. PICK k \in 1 .. n : k < i /\ q[k] = f
    BY <1>8, <2>1 DEF Preceded
  <2> QED
    BY <1>4, <2>2
<1> QED
  BY <1>1, <1>6, <1>7, <1>8 DEF a

\* What the order of a queue says of its members.
LEMMA Members ==
  ASSUME NEW S, NEW q \in Seq(S)
  PROVE  /\ ToSet(q) \subseteq S
         /\ \A e, f : Preceded(q, e, f) /\ e \in ToSet(q) => f \in ToSet(q)
         /\ \A e, f : e \notin ToSet(q) => Preceded(q, e, f) /\ AllBefore(q, e, f)
         /\ \A E, e, f : AtMostOne(q, E) /\ {e, f} \subseteq ToSet(q) \cap E => e = f
         /\ \A E : ToSet(q) \cap E = {} => AtMostOne(q, E)
<1>1. DOMAIN q = 1 .. Len(q) /\ \A i \in 1 .. Len(q) : q[i] \in S
  BY LenProperties, ElementOfSeq
<1>2. ToSet(q) = {q[i] : i \in 1 .. Len(q)}
  BY <1>1 DEF ToSet
<1> QED
  BY <1>1, <1>2 DEF Preceded, AllBefore, AtMostOne

-----------------------------------------------------------------------------
\* Messages

\* The fields of a command, which tell it from the others.
LEMMA CommandFields ==
  /\ \A j : /\ Registering(j).type = "REGISTER_JOB" /\ Registering(j).jobs = {j}
            /\ Executing(j).type = "EXECUTE_JOB" /\ Executing(j).jobs = {j}
            /\ Rejecting(j).type = "REJECT_JOB" /\ Rejecting(j).jobs = {j}
            /\ Marking(j).type = "CHANGE_JOB_STATE" /\ Marking(j).jobs = {j}
            /\ Marking(j).value = "RUNNING"
            /\ Completing(j).type = "CHANGE_JOB_STATE" /\ Completing(j).jobs = {j}
            /\ Completing(j).value = "COMPLETED_SUCCESSFULLY"
  /\ \A K : Killing(K).type = "KILL_JOB" /\ Killing(K).jobs = K
  /\ Notice.type = "NOTIFY" /\ WakeUp.type = "CALL_ME_LATER"
  BY DEF Registering, Executing, Rejecting, Marking, Completing, Killing, Notice, WakeUp, Command

\* A command is known by its type, and one that changes a job by its value.
LEMMA CommandKinds ==
  ASSUME NEW c \in ApiCommand
  PROVE  /\ c.type = "EXECUTE_JOB" => \E j \in Job : c = Executing(j)
         /\ c.type = "REJECT_JOB" => \E j \in Job : c = Rejecting(j)
         /\ c.type = "CHANGE_JOB_STATE" =>
              \E j \in Job : \/ c = Marking(j) /\ c.value = "RUNNING"
                             \/ c = Completing(j) /\ c.value # "RUNNING"
         /\ c.type = "KILL_JOB" => \E K \in SUBSET Job : c = Killing(K)
         /\ c.type = "REGISTER_JOB" => \E j \in Job : c = Registering(j)
         /\ c.type = "NOTIFY" => c = Notice
         /\ c.type = "CALL_ME_LATER" => c = WakeUp
<1>1. \/ \E j \in Job : c \in {Executing(j), Rejecting(j), Marking(j), Registering(j), Completing(j)}
      \/ \E K \in SUBSET Job : c = Killing(K)
      \/ c = Notice \/ c = WakeUp
  BY DEF ApiCommand
<1> QED
  BY <1>1, CommandFields

\* Every command the API can issue.
LEMMA CommandsExist ==
  /\ \A j \in Job : {Executing(j), Rejecting(j), Marking(j), Registering(j), Completing(j)} \subseteq ApiCommand
  /\ \A K \in SUBSET Job : Killing(K) \in ApiCommand
  /\ Notice \in ApiCommand /\ WakeUp \in ApiCommand
  /\ ApiCommand \subseteq CommandSet
<1>1. ApiCommand \subseteq CommandSet
  <2> SUFFICES ASSUME NEW c \in ApiCommand PROVE c \in CommandSet
    OBVIOUS
  <2>1. \/ \E j \in Job : c \in {Executing(j), Rejecting(j), Marking(j), Registering(j), Completing(j)}
        \/ \E K \in SUBSET Job : c = Killing(K)
        \/ c = Notice \/ c = WakeUp
    BY DEF ApiCommand
  <2>5. /\ \A J \in SUBSET Job : \A t \in {"EXECUTE_JOB", "REJECT_JOB", "KILL_JOB", "REGISTER_JOB", "NOTIFY", "CALL_ME_LATER"} :
             Command(t, J, "") \in CommandSet
        /\ \A J \in SUBSET Job : \A v \in {"RUNNING", "COMPLETED_SUCCESSFULLY"} :
             Command("CHANGE_JOB_STATE", J, v) \in CommandSet
        /\ {} \in SUBSET Job
    BY DEF Command, CommandSet, CommandType
  <2>2. ASSUME NEW j \in Job, c \in {Executing(j), Rejecting(j), Marking(j), Registering(j), Completing(j)}
        PROVE  c \in CommandSet
    <3>1. {j} \in SUBSET Job
      OBVIOUS
    <3> QED
      BY <2>2, <2>5, <3>1 DEF Registering, Executing, Rejecting, Marking, Completing
  <2>3. ASSUME NEW K \in SUBSET Job, c = Killing(K) PROVE c \in CommandSet
    BY <2>3, <2>5 DEF Killing
  <2>4. ASSUME c = Notice \/ c = WakeUp PROVE c \in CommandSet
    BY <2>4, <2>5 DEF Notice, WakeUp
  <2> QED
    BY <2>1, <2>2, <2>3, <2>4
<1>2. \A j \in Job : {Executing(j), Rejecting(j), Marking(j), Registering(j), Completing(j)} \subseteq ApiCommand
  BY DEF ApiCommand
<1>3. (\A K \in SUBSET Job : Killing(K) \in ApiCommand) /\ Notice \in ApiCommand /\ WakeUp \in ApiCommand
  BY DEF ApiCommand
<1> QED
  BY <1>1, <1>2, <1>3

\* The fields of an event.
LEMMA EventFields ==
  /\ \A j : Submitted(j).type = "JOB_SUBMITTED" /\ Submitted(j).jobs = {j}
  /\ \A j, o : /\ JobCompleted(j, o).type = "JOB_COMPLETED" /\ JobCompleted(j, o).jobs = {j}
               /\ JobCompleted(j, o).state = o
  /\ \A K, P : /\ Killed(K, P).type = "JOB_KILLED" /\ Killed(K, P).jobs = K
               /\ Killed(K, P).progress = P
  /\ \A t : Signal(t).type = t
  BY DEF Submitted, JobCompleted, Killed, Signal, Event

\* An event is known by its type.
LEMMA EventKinds ==
  ASSUME NEW e \in SimEvent
  PROVE  /\ e.type = "JOB_SUBMITTED" => \E j \in Job : e = Submitted(j)
         /\ e.type = "JOB_COMPLETED" =>
              \E j \in Job, o \in Outcomes \cup {"COMPLETED_KILLED"} : e = JobCompleted(j, o)
         /\ e.type = "JOB_KILLED" => \E K \in SUBSET Job, P \in SUBSET Job : e = Killed(K, P)
         /\ e.type = "SIMULATION_BEGINS" => e = Begins
         /\ e.type = "SIMULATION_ENDS" => e = Ends
<1>1. \/ \E j \in Job : e = Submitted(j)
      \/ \E j \in Job, o \in Outcomes \cup {"COMPLETED_KILLED"} : e = JobCompleted(j, o)
      \/ \E K \in SUBSET Job, P \in SUBSET Job : e = Killed(K, P)
      \/ e \in {Begins, Ends, Signal("REQUESTED_CALL"), Signal("NOTIFY")}
  BY DEF SimEvent
<1> QED
  BY <1>1, EventFields DEF Begins, Ends

\* Every event the simulator can send.
LEMMA EventsExist ==
  /\ \A j \in Job : Submitted(j) \in SimEvent
  /\ \A j \in Job, o \in Outcomes \cup {"COMPLETED_KILLED"} :
       JobCompleted(j, o) \in SimEvent /\ JobCompleted(j, o) \in Completions(j)
  /\ \A K, P \in SUBSET Job : Killed(K, P) \in SimEvent
  /\ {Begins, Ends, Signal("REQUESTED_CALL"), Signal("NOTIFY")} \subseteq SimEvent
  /\ SimEvent \subseteq EventSet
<1>1. SimEvent \subseteq EventSet
  <2> SUFFICES ASSUME NEW e \in SimEvent PROVE e \in EventSet
    OBVIOUS
  <2>1. \/ \E j \in Job : e = Submitted(j)
        \/ \E j \in Job, o \in Outcomes \cup {"COMPLETED_KILLED"} : e = JobCompleted(j, o)
        \/ \E K \in SUBSET Job, P \in SUBSET Job : e = Killed(K, P)
        \/ e \in {Begins, Ends, Signal("REQUESTED_CALL"), Signal("NOTIFY")}
    BY DEF SimEvent
  <2>2. ASSUME NEW j \in Job, e = Submitted(j) PROVE e \in EventSet
    BY <2>2 DEF Submitted, Event, EventSet, EventType
  <2>3. ASSUME NEW j \in Job, NEW o \in Outcomes \cup {"COMPLETED_KILLED"}, e = JobCompleted(j, o)
        PROVE  e \in EventSet
    BY <2>3 DEF JobCompleted, Event, EventSet, EventType
  <2>4. ASSUME NEW K \in SUBSET Job, NEW P \in SUBSET Job, e = Killed(K, P) PROVE e \in EventSet
    BY <2>4 DEF Killed, Event, EventSet, EventType
  <2>5. ASSUME e \in {Begins, Ends, Signal("REQUESTED_CALL"), Signal("NOTIFY")} PROVE e \in EventSet
    <3>1. \A t \in EventType : Signal(t) \in EventSet
      BY DEF Signal, Event, EventSet
    <3> QED
      BY <2>5, <3>1 DEF Begins, Ends, EventType
  <2> QED
    BY <2>1, <2>2, <2>3, <2>4, <2>5
<1>2. \A j \in Job : Submitted(j) \in SimEvent
  BY DEF SimEvent
<1>3. \A j \in Job, o \in Outcomes \cup {"COMPLETED_KILLED"} :
        JobCompleted(j, o) \in SimEvent /\ JobCompleted(j, o) \in Completions(j)
  BY DEF SimEvent, Completions
<1>4. /\ \A K, P \in SUBSET Job : Killed(K, P) \in SimEvent
      /\ {Begins, Ends, Signal("REQUESTED_CALL"), Signal("NOTIFY")} \subseteq SimEvent
  BY DEF SimEvent
<1> QED
  BY <1>1, <1>2, <1>3, <1>4

\* The messages about a job.
EventsOf(k)   == Completions(k) \cup {Submitted(k)}
CommandsOf(k) == Deciding(k) \cup {Registering(k), Completing(k)}
                 \cup {Killing(K) : K \in {L \in SUBSET Job : k \in L}}

\* The messages that are about other jobs or about none.
LEMMA AboutOthers ==
  ASSUME NEW k \in Job
  PROVE  /\ \A j : j # k => /\ Submitted(j) \notin EventsOf(k)
                            /\ \A o : JobCompleted(j, o) \notin EventsOf(k)
                            /\ {Executing(j), Rejecting(j), Marking(j), Registering(j), Completing(j)}
                                 \cap CommandsOf(k) = {}
         /\ \A K, P : Killed(K, P) \notin EventsOf(k)
         /\ \A t : t \notin {"JOB_SUBMITTED", "JOB_COMPLETED"} => Signal(t) \notin EventsOf(k)
         /\ \A K : k \notin K => Killing(K) \notin CommandsOf(k)
         /\ Notice \notin CommandsOf(k) /\ WakeUp \notin CommandsOf(k)
<1>1. ASSUME NEW e \in EventsOf(k) PROVE e.type \in {"JOB_SUBMITTED", "JOB_COMPLETED"} /\ \A j \in e.jobs : j = k
  BY EventFields DEF EventsOf, Completions
<1>2. ASSUME NEW c \in CommandsOf(k)
      PROVE  /\ k \in c.jobs /\ c.type \notin {"NOTIFY", "CALL_ME_LATER"}
             /\ c.type # "KILL_JOB" => c.jobs = {k}
  BY CommandFields DEF CommandsOf, Deciding
<1>3. \A j : j # k => /\ Submitted(j) \notin EventsOf(k)
                      /\ \A o : JobCompleted(j, o) \notin EventsOf(k)
  <2>1. ASSUME NEW j, j # k, NEW e, e.jobs = {j} PROVE e \notin EventsOf(k)
    BY <1>1, <2>1
  <2>2. \A j, o : JobCompleted(j, o).jobs = {j}
    BY EventFields
  <2>3. \A j : Submitted(j).jobs = {j}
    BY EventFields
  <2> QED
    BY <2>1, <2>2, <2>3
<1>4. \A j : j # k => {Executing(j), Rejecting(j), Marking(j), Registering(j), Completing(j)} \cap CommandsOf(k) = {}
  BY <1>2, CommandFields
<1>5. /\ \A K, P : Killed(K, P) \notin EventsOf(k)
      /\ \A t : t \notin {"JOB_SUBMITTED", "JOB_COMPLETED"} => Signal(t) \notin EventsOf(k)
  BY <1>1, EventFields
<1>6. \A K : k \notin K => Killing(K) \notin CommandsOf(k)
  BY <1>2, CommandFields
<1>7. Notice \notin CommandsOf(k) /\ WakeUp \notin CommandsOf(k)
  BY <1>2, CommandFields
<1> QED
  BY <1>3, <1>4, <1>5, <1>6, <1>7

-----------------------------------------------------------------------------
\* Queues with the same messages about k

SameIn(q, r, k) ==
  /\ \A e \in EventsOf(k) : e \in ToSet(r) <=> e \in ToSet(q)
  /\ \A E \in SUBSET EventsOf(k) : AtMostOne(q, E) => AtMostOne(r, E)

SameOut(q, r, k) ==
  /\ \A c \in CommandsOf(k) : c \in ToSet(r) <=> c \in ToSet(q)
  /\ \A E \in SUBSET CommandsOf(k) : AtMostOne(q, E) => AtMostOne(r, E)
  /\ \A c, d \in CommandsOf(k) : Preceded(q, c, d) => Preceded(r, c, d)
  /\ \A c \in CommandsOf(k) : AllBefore(q, c, Notice) => AllBefore(r, c, Notice)

\* A message that is not about k comes or goes.
LEMMA SameInStep ==
  ASSUME NEW k \in Job, NEW q \in Seq(SimEvent)
  PROVE  /\ SameIn(q, q, k)
         /\ q # <<>> /\ Head(q) \notin EventsOf(k) => SameIn(q, Tail(q), k)
         /\ \A x \in SimEvent : x \notin EventsOf(k) => SameIn(q, Append(q, x), k)
<1>1. SameIn(q, q, k)
  BY DEF SameIn
<1>2. ASSUME q # <<>>, Head(q) \notin EventsOf(k) PROVE SameIn(q, Tail(q), k)
  BY <1>2, HeadGone DEF SameIn
<1>3. ASSUME NEW x \in SimEvent, x \notin EventsOf(k) PROVE SameIn(q, Append(q, x), k)
  <2> DEFINE a == Append(q, x)
  <2>1. ToSet(a) = ToSet(q) \cup {x}
    BY OneMore
  <2>2. \A E \in SUBSET EventsOf(k) : AtMostOne(q, E) => AtMostOne(a, E)
    BY OneMore, <1>3
  <2> QED
    BY <1>3, <2>1, <2>2 DEF SameIn
<1> QED
  BY <1>1, <1>2, <1>3

\* A command that is not about k joins or leaves the outbox: nothing changes
\* for k.
LEMMA SameOutStep ==
  ASSUME NEW k \in Job, NEW q \in Seq(ApiCommand)
  PROVE  /\ SameOut(q, q, k)
         /\ q # <<>> /\ Head(q) \notin CommandsOf(k) => SameOut(q, Tail(q), k)
         /\ \A x \in ApiCommand : x \notin CommandsOf(k) => SameOut(q, Append(q, x), k)
<1>1. SameOut(q, q, k)
  BY DEF SameOut
<1>2. ASSUME q # <<>>, Head(q) \notin CommandsOf(k) PROVE SameOut(q, Tail(q), k)
  BY <1>2, HeadGone DEF SameOut
<1>3. ASSUME NEW x \in ApiCommand, x \notin CommandsOf(k) PROVE SameOut(q, Append(q, x), k)
  <2> DEFINE a == Append(q, x)
  <2>1. ToSet(a) = ToSet(q) \cup {x}
    BY OneMore
  <2>2. \A E \in SUBSET CommandsOf(k) : AtMostOne(q, E) => AtMostOne(a, E)
    BY OneMore, <1>3
  <2>3. \A c, d \in CommandsOf(k) : Preceded(q, c, d) => Preceded(a, c, d)
    BY OneMore, <1>3
  <2>4. \A c \in CommandsOf(k) : AllBefore(q, c, Notice) => AllBefore(a, c, Notice)
    BY OneMore, <1>3
  <2> QED
    BY <1>3, <2>1, <2>2, <2>3, <2>4 DEF SameOut
<1> QED
  BY <1>1, <1>2, <1>3

\* The invariant of the next state in terms of the next queues.
LEMMA Primed ==
  ASSUME NEW k \in Job
  PROVE  /\ Incoming(k)' <=>
              /\ AtMostOne(Inbox', {Submitted(k)}) /\ AtMostOne(Inbox', Completions(k))
              /\ Submitted(k) \in ToSet(Inbox') => truth'[k] = "queued" /\ Fresh(k)'
              /\ ToSet(Inbox') \cap Completions(k) # {} =>
                   truth'[k] = "done" /\ state'[k] = "RUNNING" /\ job_state'[k] \notin Ended
         /\ Outgoing(k)' <=>
              /\ AtMostOne(Outbox', {Registering(k)}) /\ AllBefore(Outbox', Registering(k), Notice)
              /\ Registering(k) \in ToSet(Outbox') =>
                   /\ registration' /\ k \in Dynamic /\ truth'[k] = "absent" /\ job_state'[k] # "NONE"
                   /\ ack_of_dynamic_jobs' => Fresh(k)'
              /\ Executing(k) \in ToSet(Outbox') => state'[k] = "RUNNING"
              /\ Rejecting(k) \in ToSet(Outbox') => state'[k] = "REJECTED"
              /\ {Marking(k), Completing(k)} \cap ToSet(Outbox') # {} => k \in jobs_manually_changed'
         /\ Wished(k)' <=>
              /\ truth'[k] = "running"  => state'[k] = "RUNNING"
              /\ truth'[k] = "rejected" => state'[k] = "REJECTED"
              /\ truth'[k] = "changed"  => k \in jobs_manually_changed'
              /\ truth'[k] = "done" => \/ job_state'[k] \in Ended \/ k \in jobs_manually_changed'
                                       \/ ToSet(Inbox') \cap Completions(k) # {}
              /\ truth'[k] = "queued" /\ ~Touched(k)' => Untouched(k)' \/ Submitted(k) \in ToSet(Inbox')
<1>1. /\ \A E : AtMostOne(Inbox, E)' <=> AtMostOne(Inbox', E)
      /\ \A E : AtMostOne(Outbox, E)' <=> AtMostOne(Outbox', E)
      /\ \A e, f : AllBefore(Outbox, e, f)' <=> AllBefore(Outbox', e, f)
      /\ ToSet(Inbox)' = ToSet(Inbox') /\ ToSet(Outbox)' = ToSet(Outbox')
  BY DEF AtMostOne, AllBefore, ToSet
<1>2. /\ Submitted(k)' = Submitted(k) /\ Completions(k)' = Completions(k)
      /\ Registering(k)' = Registering(k) /\ Executing(k)' = Executing(k) /\ Rejecting(k)' = Rejecting(k)
      /\ Marking(k)' = Marking(k) /\ Completing(k)' = Completing(k) /\ Notice' = Notice
  OBVIOUS
<1> QED
  BY <1>1, <1>2 DEF Incoming, Outgoing, Wished

\* Where the messages under way are, in each phase of the loop.
LEMMA Boxes ==
  /\ phase \notin {"events", "handler", "exception"} => Inbox = mailbox
  /\ phase \in {"events", "exception"} => Inbox = events
  /\ phase = "handler" => Inbox = IF events = <<>> THEN events ELSE Tail(events)
  /\ phase \notin {"events", "handler", "exception", "init"} => Outbox = commands
  /\ phase \in {"events", "handler", "exception", "init"} => Outbox = events_to_send
  /\ phase' \notin {"events", "handler", "exception"} => Inbox' = mailbox'
  /\ phase' \in {"events", "exception"} => Inbox' = events'
  /\ phase' = "handler" => Inbox' = IF events' = <<>> THEN events' ELSE Tail(events')
  /\ phase' \notin {"events", "handler", "exception", "init"} => Outbox' = commands'
  /\ phase' \in {"events", "handler", "exception", "init"} => Outbox' = events_to_send'
  BY DEF Inbox, Outbox, Undealt

\* The messages under way are messages.
LEMMA BoxTypes ==
  ASSUME TypeInv
  PROVE  Inbox \in Seq(SimEvent) /\ Outbox \in Seq(ApiCommand)
<1>1. events # <<>> => Tail(events) \in Seq(SimEvent)
  BY HeadTailProperties DEF TypeInv
<1> QED
  BY <1>1 DEF TypeInv, Inbox, Outbox, Undealt

\* What is known of job k does not change.
StatusKept(k) ==
  /\ truth'[k] = truth[k] /\ job_state'[k] = job_state[k] /\ state'[k] = state[k]
  /\ k \in jobs_manually_changed' <=> k \in jobs_manually_changed

\* A step that brings no event about k and keeps its status keeps what the
\* first layer says of its events.
LEMMA FrameIn ==
  ASSUME NEW k \in Job, JobInv(k), SameIn(Inbox, Inbox', k), StatusKept(k),
         ack_of_dynamic_jobs' = ack_of_dynamic_jobs
  PROVE  Incoming(k)' /\ Table(k)' /\ Wished(k)'
<1>1. /\ Touched(k)' <=> Touched(k)
      /\ Fresh(k)' <=> Fresh(k)
      /\ Untouched(k)' <=> Untouched(k)
  BY DEF StatusKept, Touched, Fresh, Untouched
<1>2. /\ Completions(k) \subseteq EventsOf(k) /\ Submitted(k) \in EventsOf(k)
      /\ {Submitted(k)} \in SUBSET EventsOf(k) /\ Completions(k) \in SUBSET EventsOf(k)
  BY DEF EventsOf
<1>3. /\ Submitted(k) \in ToSet(Inbox') <=> Submitted(k) \in ToSet(Inbox)
      /\ ToSet(Inbox') \cap Completions(k) = ToSet(Inbox) \cap Completions(k)
      /\ AtMostOne(Inbox, {Submitted(k)}) => AtMostOne(Inbox', {Submitted(k)})
      /\ AtMostOne(Inbox, Completions(k)) => AtMostOne(Inbox', Completions(k))
  BY <1>2 DEF SameIn
<1>4. Incoming(k)'
  BY <1>1, <1>3, Primed DEF JobInv, Incoming, StatusKept
<1>5. Table(k)'
  BY <1>1 DEF JobInv, Table, StatusKept
<1>6. Wished(k)'
  BY <1>1, <1>3, Primed DEF JobInv, Wished, StatusKept
<1> QED
  BY <1>4, <1>5, <1>6

\* A step that brings no command about k and keeps its status keeps what the
\* first layer says of its commands.  The registration may have been closed,
\* and then no registration is under way.
LEMMA FrameOut ==
  ASSUME NEW k \in Job, JobInv(k), SameOut(Outbox, Outbox', k), StatusKept(k),
         ack_of_dynamic_jobs' = ack_of_dynamic_jobs,
         registration' = registration \/ Registering(k) \notin ToSet(Outbox')
  PROVE  Outgoing(k)'
<1>1. Fresh(k)' <=> Fresh(k)
  BY DEF StatusKept, Touched, Fresh
<1>2. /\ {Registering(k), Executing(k), Rejecting(k), Marking(k), Completing(k)} \subseteq CommandsOf(k)
      /\ {Registering(k)} \in SUBSET CommandsOf(k)
  BY DEF CommandsOf, Deciding
<1>3. /\ Registering(k) \in ToSet(Outbox') <=> Registering(k) \in ToSet(Outbox)
      /\ Executing(k) \in ToSet(Outbox') <=> Executing(k) \in ToSet(Outbox)
      /\ Rejecting(k) \in ToSet(Outbox') <=> Rejecting(k) \in ToSet(Outbox)
      /\ Marking(k) \in ToSet(Outbox') <=> Marking(k) \in ToSet(Outbox)
      /\ Completing(k) \in ToSet(Outbox') <=> Completing(k) \in ToSet(Outbox)
      /\ AtMostOne(Outbox, {Registering(k)}) => AtMostOne(Outbox', {Registering(k)})
      /\ AllBefore(Outbox, Registering(k), Notice) => AllBefore(Outbox', Registering(k), Notice)
  BY <1>2 DEF SameOut
<1> QED
  BY <1>1, <1>3, Primed DEF JobInv, Outgoing, StatusKept

\* A command leaves, and if k is registered later nothing of k changes.
LEMMA FrameTail ==
  ASSUME TypeInv, NEW k \in Job, JobInv(k), Outbox # <<>>, Outbox' = Tail(Outbox),
         job_state'[k] = job_state[k], state'[k] = state[k],
         k \in jobs_manually_changed' <=> k \in jobs_manually_changed,
         ack_of_dynamic_jobs' = ack_of_dynamic_jobs,
         Registering(k) \in ToSet(Outbox') => truth'[k] = truth[k] /\ registration' = registration
  PROVE  Outgoing(k)'
<1>1. Fresh(k)' <=> Fresh(k)
  BY DEF Touched, Fresh
<1>2. Outbox \in Seq(ApiCommand)
  BY BoxTypes
<1>3. /\ ToSet(Outbox') \subseteq ToSet(Outbox)
      /\ AtMostOne(Outbox, {Registering(k)}) => AtMostOne(Outbox', {Registering(k)})
      /\ AllBefore(Outbox, Registering(k), Notice) => AllBefore(Outbox', Registering(k), Notice)
  BY <1>2, HeadGone
<1> QED
  BY <1>1, <1>3, Primed DEF JobInv, Outgoing

\* The second layer of the next state in terms of the next queues.
LEMMA PrimedObey ==
  ASSUME NEW k \in Job
  PROVE  /\ Ordered(k)' <=>
              /\ AtMostOne(Outbox', Deciding(k)) /\ AtMostOne(Outbox', {Completing(k)})
              /\ \A c \in ToSet(Outbox') \cap Deciding(k) :
                   \/ truth'[k] = "queued"
                   \/ truth'[k] = "absent" /\ Preceded(Outbox', c, Registering(k))
              /\ Completing(k) \in ToSet(Outbox') =>
                   truth'[k] = "changed" \/ Preceded(Outbox', Completing(k), Marking(k))
              /\ \A K \in SUBSET Job : Killing(K) \in ToSet(Outbox') /\ k \in K =>
                   truth'[k] \in {"running", "done"} \/ Preceded(Outbox', Killing(K), Executing(k))
         /\ UnderWay(k)' <=>
              /\ truth'[k] = "absent" /\ job_state'[k] # "NONE" => Registering(k) \in ToSet(Outbox')
              /\ truth'[k] \in {"absent", "queued"} /\ Touched(k)' => ToSet(Outbox') \cap Deciding(k) # {}
              /\ job_state'[k] = "IN_KILLING" =>
                   truth'[k] = "done" \/ \E K \in SUBSET Job : k \in K /\ Killing(K) \in ToSet(Outbox')
<1>1. /\ \A E : AtMostOne(Outbox, E)' <=> AtMostOne(Outbox', E)
      /\ \A e, f : Preceded(Outbox, e, f)' <=> Preceded(Outbox', e, f)
      /\ ToSet(Outbox)' = ToSet(Outbox')
  BY DEF AtMostOne, Preceded, ToSet
<1>2. /\ Registering(k)' = Registering(k) /\ Executing(k)' = Executing(k) /\ Deciding(k)' = Deciding(k)
      /\ Marking(k)' = Marking(k) /\ Completing(k)' = Completing(k) /\ \A K : Killing(K)' = Killing(K)
  OBVIOUS
<1>3. Ordered(k)' <=>
        /\ AtMostOne(Outbox', Deciding(k)) /\ AtMostOne(Outbox', {Completing(k)})
        /\ \A c \in ToSet(Outbox') \cap Deciding(k) :
             \/ truth'[k] = "queued"
             \/ truth'[k] = "absent" /\ Preceded(Outbox', c, Registering(k))
        /\ Completing(k) \in ToSet(Outbox') =>
             truth'[k] = "changed" \/ Preceded(Outbox', Completing(k), Marking(k))
        /\ \A K \in SUBSET Job : Killing(K) \in ToSet(Outbox') /\ k \in K =>
             truth'[k] \in {"running", "done"} \/ Preceded(Outbox', Killing(K), Executing(k))
  BY <1>1, <1>2 DEF Ordered
<1>4. UnderWay(k)' <=>
        /\ truth'[k] = "absent" /\ job_state'[k] # "NONE" => Registering(k) \in ToSet(Outbox')
        /\ truth'[k] \in {"absent", "queued"} /\ Touched(k)' => ToSet(Outbox') \cap Deciding(k) # {}
        /\ job_state'[k] = "IN_KILLING" =>
             truth'[k] = "done" \/ \E K \in SUBSET Job : k \in K /\ Killing(K) \in ToSet(Outbox')
  BY <1>1, <1>2 DEF UnderWay
<1> QED
  BY <1>3, <1>4

\* The same for the second layer.
LEMMA FrameObey ==
  ASSUME NEW k \in Job, Ordered(k), UnderWay(k), SameOut(Outbox, Outbox', k), StatusKept(k)
  PROVE  Ordered(k)' /\ UnderWay(k)'
<1>1. Touched(k)' <=> Touched(k)
  BY DEF StatusKept, Touched
<1>2. /\ {Registering(k), Executing(k), Rejecting(k), Marking(k), Completing(k)} \subseteq CommandsOf(k)
      /\ {Completing(k)} \in SUBSET CommandsOf(k) /\ Deciding(k) \in SUBSET CommandsOf(k)
      /\ \A K \in SUBSET Job : k \in K => Killing(K) \in CommandsOf(k)
  BY DEF CommandsOf, Deciding
<1>3. /\ Registering(k) \in ToSet(Outbox') <=> Registering(k) \in ToSet(Outbox)
      /\ Completing(k) \in ToSet(Outbox') <=> Completing(k) \in ToSet(Outbox)
      /\ ToSet(Outbox') \cap Deciding(k) = ToSet(Outbox) \cap Deciding(k)
      /\ \A K \in SUBSET Job : k \in K => (Killing(K) \in ToSet(Outbox') <=> Killing(K) \in ToSet(Outbox))
  BY <1>2 DEF SameOut
<1>4. /\ AtMostOne(Outbox, Deciding(k)) => AtMostOne(Outbox', Deciding(k))
      /\ AtMostOne(Outbox, {Completing(k)}) => AtMostOne(Outbox', {Completing(k)})
      /\ \A c \in Deciding(k) : Preceded(Outbox, c, Registering(k)) => Preceded(Outbox', c, Registering(k))
      /\ Preceded(Outbox, Completing(k), Marking(k)) => Preceded(Outbox', Completing(k), Marking(k))
      /\ \A K \in SUBSET Job : k \in K /\ Preceded(Outbox, Killing(K), Executing(k))
           => Preceded(Outbox', Killing(K), Executing(k))
  BY <1>2 DEF SameOut
<1>5. Ordered(k)'
  <2>1. AtMostOne(Outbox', Deciding(k)) /\ AtMostOne(Outbox', {Completing(k)})
    BY <1>4 DEF Ordered
  <2>2. \A c \in ToSet(Outbox') \cap Deciding(k) :
          truth'[k] = "queued" \/ (truth'[k] = "absent" /\ Preceded(Outbox', c, Registering(k)))
    BY <1>3, <1>4 DEF Ordered, StatusKept
  <2>3. Completing(k) \in ToSet(Outbox') =>
          truth'[k] = "changed" \/ Preceded(Outbox', Completing(k), Marking(k))
    BY <1>3, <1>4 DEF Ordered, StatusKept
  <2>4. \A K \in SUBSET Job : Killing(K) \in ToSet(Outbox') /\ k \in K =>
          truth'[k] \in {"running", "done"} \/ Preceded(Outbox', Killing(K), Executing(k))
    BY <1>3, <1>4 DEF Ordered, StatusKept
  <2> QED
    BY <2>1, <2>2, <2>3, <2>4, PrimedObey
<1>6. UnderWay(k)'
  BY <1>1, <1>3, PrimedObey DEF UnderWay, StatusKept
<1> QED
  BY <1>5, <1>6

-----------------------------------------------------------------------------
\* Types

\* The commands of a call that is made for one job.
LEMMA OneJob ==
  ASSUME NEW j \in Job, NEW q \in Seq(ApiCommand)
  PROVE  /\ q \o OnePerJob("EXECUTE_JOB", <<j>>) = Append(q, Executing(j))
         /\ q \o OnePerJob("REJECT_JOB", <<j>>) = Append(q, Rejecting(j))
         /\ Len(<<j>>) = 1 /\ ToSet(<<j>>) = {j}
<1>1. Len(<<j>>) = 1 /\ ToSet(<<j>>) = {j}
  BY DEF ToSet
<1>2. ASSUME NEW t, Command(t, {j}, "") \in ApiCommand
      PROVE  q \o OnePerJob(t, <<j>>) = Append(q, Command(t, {j}, ""))
  <2> DEFINE b == OnePerJob(t, <<j>>)
             c == Command(t, {j}, "")
  <2>1. b = <<c>>
    <3> DEFINE s == <<j>>
    <3>1. Len(s) = 1 /\ s[1] = j
      OBVIOUS
    <3> HIDE DEF s
    <3>2. \A i \in 1 .. 1 : i = 1
      OBVIOUS
    <3>3. OnePerJob(t, s) = [i \in 1 .. 1 |-> c]
      BY <3>1, <3>2 DEF OnePerJob
    <3> HIDE DEF c
    <3>4. <<c>> = [i \in 1 .. 1 |-> c]
      OBVIOUS
    <3> QED
      BY <3>3, <3>4 DEF s
  <2>2. Append(q, c) = q \o <<c>>
    BY <1>2, AppendIsConcat
  <2> QED
    BY <2>1, <2>2
<1> QED
  BY <1>1, <1>2, CommandsExist DEF Executing, Rejecting

\* The events that follow a kill: each job hit is reported once.
LEMMA KillReports ==
  ASSUME NEW hit \in SUBSET Job, IsFiniteSet(Job), NEW order \in SetToSeqs(hit),
         NEW b, b = [i \in DOMAIN order |-> JobCompleted(order[i], "COMPLETED_KILLED")]
  PROVE  /\ b \in Seq(SimEvent)
         /\ ToSet(b) = {JobCompleted(j, "COMPLETED_KILLED") : j \in hit}
         /\ \A j \in Job : AtMostOne(b, Completions(j))
<1>0. IsFiniteSet(hit) /\ Cardinality(hit) \in Nat
  BY FS_Subset, FS_CardinalityType
<1> DEFINE n == Cardinality(hit)
<1>1. /\ order \in [1 .. n -> hit] /\ \A i, k \in 1 .. n : i # k => order[i] # order[k]
      /\ DOMAIN order = 1 .. n
  BY DEF SetToSeqs
<1> HIDE DEF n
<1>2. order \in Surjection(1 .. n, hit)
  <2>1. order \in Injection(1 .. n, hit)
    BY <1>1, Fun_IsInj
  <2>2. Cardinality(1 .. n) = Cardinality(hit)
    BY <1>0, FS_Interval DEF n
  <2> QED
    BY <1>0, <2>1, <2>2, FS_Injection
<1>3. \A j \in hit : \E i \in 1 .. n : order[i] = j
  <2> DEFINE D == 1 .. n
  <2>1. order \in Surjection(D, hit)
    BY <1>2
  <2> HIDE DEF D
  <2>2. \A t \in hit : \E i \in D : order[i] = t
    BY <2>1, Fun_SurjectionProperties
  <2> QED
    BY <2>2 DEF D
<1>4. \A i \in 1 .. n : b[i] = JobCompleted(order[i], "COMPLETED_KILLED") /\ order[i] \in hit
  BY <1>1
<1>5. /\ b \in Seq(SimEvent) /\ Len(b) = n /\ DOMAIN b = 1 .. n
  <2>1. b \in [1 .. n -> SimEvent]
    BY <1>1, <1>4, EventsExist
  <2> QED
    BY <1>0, <2>1, SeqDef DEF n
<1>6. ToSet(b) = {JobCompleted(j, "COMPLETED_KILLED") : j \in hit}
  <2>1. ToSet(b) = {b[i] : i \in 1 .. n}
    BY <1>5 DEF ToSet
  <2> QED
    BY <1>3, <1>4, <2>1
<1>7. ASSUME NEW j \in Job PROVE AtMostOne(b, Completions(j))
  <2> SUFFICES ASSUME NEW i \in 1 .. n, NEW k \in 1 .. n, b[i] \in Completions(j), b[k] \in Completions(j)
               PROVE  i = k
    BY <1>5 DEF AtMostOne
  <2>1. \A e \in Completions(j) : e.jobs = {j}
    BY EventFields DEF Completions
  <2>2. b[i].jobs = {order[i]} /\ b[k].jobs = {order[k]}
    BY <1>4, EventFields
  <2>3. order[i] = j /\ order[k] = j
    BY <2>1, <2>2
  <2> QED
    BY <1>1, <2>3
<1> QED
  BY <1>5, <1>6, <1>7

\* The queues hold messages, hence messages of the format.
LEMMA Formats ==
  /\ \A q \in Seq(ApiCommand) : q \in Seq(CommandSet)
  /\ \A q \in Seq(SimEvent) : q \in Seq(EventSet)
  BY CommandsExist, EventsExist, SeqMonotonic

\* A count stays a number.
LEMMA CountType ==
  ASSUME nb \in [Counter -> Nat]
  PROVE  /\ \A C : Count(C) \in [Counter -> Nat]
         /\ \A c : \A n \in Nat : CountMany(c, n) \in [Counter -> Nat]
  BY DEF Count, CountMany

\* A job acknowledged was in submission, so that counter can be lowered.
LEMMA Acknowledged ==
  ASSUME ConstantsAssumption, LoopInv, NEW j \in Job, Submitted(j) \in ToSet(Inbox),
         job_state[j] = "IN_SUBMISSON"
  PROVE  nb["in_submission"] > 0
<1>1. ack_of_dynamic_jobs
  BY DEF LoopInv, WayInv, JobInv, Incoming, Fresh, Job, TypeInv
<1>2. nb["in_submission"] = Cardinality({k \in Job : job_state[k] \in {"IN_SUBMISSON"}})
  BY <1>1 DEF LoopInv, CountInv, Accounting, InState
<1> DEFINE S == {k \in Job : job_state[k] \in {"IN_SUBMISSON"}}
<1>3. IsFiniteSet(Job)
  BY FS_Union DEF ConstantsAssumption, Job
<1>4. IsFiniteSet(S) /\ S # {}
  BY <1>3, FS_Subset
<1>5. Cardinality(S) \in Nat /\ Cardinality(S) # 0
  BY <1>4, FS_CardinalityType, FS_EmptySet
<1> QED
  BY <1>2, <1>5

\* The calls of the API keep the types; every command issued is one of
\* ApiCommand.
LEMMA CallTypes ==
  ASSUME ConstantsAssumption, TypeInv, ClientCall
  PROVE  TypeInv'
<1> USE DEF TypeInv, TypeOK, SimTypeOK, LoopTypeOK, ApiTypeOK, JobTypeOK
<1>1. UNCHANGED <<sim_vars, now, loop_vars>>
  BY DEF ClientCall
<1>2. SUFFICES /\ events_to_send' \in Seq(ApiCommand) /\ state' \in [Job -> {"NONE", "RUNNING", "REJECTED"}]
               /\ jobs_manually_changed' \subseteq Job /\ job_state' \in [Job -> JobState \cup {"NONE"}]
               /\ submit_time' \in [Job -> Nat] /\ nb' \in [Counter -> Nat]
  BY <1>1, Formats DEF sim_vars, loop_vars
<1>3. \A x \in ApiCommand : Append(events_to_send, x) \in Seq(ApiCommand)
  BY OneMore
<1>4. ASSUME NEW j \in Job, ExecuteJobs(<<j>>) \/ RejectJobs(<<j>>)
      PROVE  /\ events_to_send' \in Seq(ApiCommand) /\ state' \in [Job -> {"NONE", "RUNNING", "REJECTED"}]
             /\ nb' \in [Counter -> Nat] /\ UNCHANGED <<jobs_manually_changed, job_state, submit_time>>
  <2>1. events_to_send' \in Seq(ApiCommand)
    <3>1. events_to_send \in Seq(ApiCommand)
      OBVIOUS
    <3>2. \/ events_to_send' = Append(events_to_send, Executing(j))
          \/ events_to_send' = Append(events_to_send, Rejecting(j))
      BY <1>4, <3>1, OneJob DEF ExecuteJobs, RejectJobs
    <3>3. Executing(j) \in ApiCommand /\ Rejecting(j) \in ApiCommand
      BY CommandsExist
    <3> QED
      BY <1>3, <3>2, <3>3
  <2>2. state' \in [Job -> {"NONE", "RUNNING", "REJECTED"}]
    BY <1>4 DEF ExecuteJobs, RejectJobs
  <2>3. nb' = CountMany("scheduled", 1) \/ nb' = CountMany("rejected", 1)
    BY <1>4, OneJob DEF ExecuteJobs, RejectJobs, CountRejection
  <2>4. nb' \in [Counter -> Nat]
    BY <2>3, CountType
  <2> QED
    BY <1>4, <2>1, <2>2, <2>4 DEF ExecuteJobs, RejectJobs
<1>5. ASSUME NEW j \in Job, ChangeJobState(j, "RUNNING") \/ ChangeJobState(j, "COMPLETED_SUCCESSFULLY")
      PROVE  /\ events_to_send' \in Seq(ApiCommand) /\ jobs_manually_changed' \subseteq Job
             /\ UNCHANGED <<state, job_vars>>
  BY <1>3, <1>5, CommandsExist DEF ChangeJobState, Marking, Completing
<1>6. ASSUME NEW K \in SUBSET Job, KillJobs(K)
      PROVE  /\ events_to_send' \in Seq(ApiCommand) /\ job_state' \in [Job -> JobState \cup {"NONE"}]
             /\ UNCHANGED <<state, nb, jobs_manually_changed, submit_time>>
  BY <1>3, <1>6, CommandsExist DEF KillJobs, Killing, JobState
<1>7. ASSUME NEW j \in Dynamic, RegisterJob(j)
      PROVE  /\ events_to_send' \in Seq(ApiCommand) /\ job_state' \in [Job -> JobState \cup {"NONE"}]
             /\ state' \in [Job -> {"NONE", "RUNNING", "REJECTED"}] /\ submit_time' \in [Job -> Nat]
             /\ nb' \in [Counter -> Nat] /\ UNCHANGED jobs_manually_changed
  BY <1>3, <1>7, CommandsExist, CountType DEF RegisterJob, Registering, JobState, Job, CountRegistration
<1>8. ASSUME NotifyRegistrationFinished \/ WakeMeUpAt
      PROVE  events_to_send' \in Seq(ApiCommand) /\ UNCHANGED <<state, jobs_manually_changed, job_vars>>
  BY <1>3, <1>8, CommandsExist DEF NotifyRegistrationFinished, WakeMeUpAt, Call, Notice, WakeUp
<1> QED
  BY <1>4, <1>5, <1>6, <1>7, <1>8 DEF ClientCall, job_vars

\* The event of a job that is submitted or completed names it alone.
LEMMA AboutOneJob ==
  ASSUME NEW e \in SimEvent, e.type \in {"JOB_SUBMITTED", "JOB_COMPLETED"}
  PROVE  \E j \in Job : e.jobs = {j} /\ (e.type = "JOB_SUBMITTED" => e = Submitted(j))
<1>1. CASE e.type = "JOB_SUBMITTED"
  <2>1. PICK j \in Job : e = Submitted(j)
    BY <1>1, EventKinds
  <2> QED
    BY <2>1, EventFields
<1>2. CASE e.type = "JOB_COMPLETED"
  <2>1. PICK j \in Job, o \in Outcomes \cup {"COMPLETED_KILLED"} : e = JobCompleted(j, o)
    BY <1>2, EventKinds
  <2> QED
    BY <1>2, <2>1, EventFields
<1> QED
  BY <1>1, <1>2

\* A job whose acknowledgement comes was counted when it was registered.
AckCounted ==
  \A j \in Job : Submitted(j) \in ToSet(events) /\ job_state[j] = "IN_SUBMISSON" => nb["in_submission"] > 0

\* So does the dispatch of an event ...
LEMMA DispatchTypes ==
  ASSUME ConstantsAssumption, TypeInv, Dispatch, AckCounted
  PROVE  TypeInv'
<1> USE DEF TypeInv, TypeOK, SimTypeOK, LoopTypeOK, ApiTypeOK, JobTypeOK
<1>1. TypeInv /\ events \in Seq(SimEvent)
  OBVIOUS
<1>2. CASE \/ DispatchSimulationBegins \/ DispatchSimulationEnds \/ DispatchRequestedCall
           \/ DispatchNotify \/ DispatchNoMoreEvents
  <2>1. DispatchSimulationBegins => TypeInv'
    BY <1>1, Formats DEF ConstantsAssumption, DispatchSimulationBegins, sim_vars, api_vars, job_vars
  <2>2. DispatchSimulationEnds => TypeInv'
    BY <1>1, Formats DEF ConstantsAssumption, DispatchSimulationEnds, sim_vars, api_vars, job_vars
  <2>3. DispatchRequestedCall => TypeInv'
    BY <1>1, Formats DEF ConstantsAssumption, DispatchRequestedCall, sim_vars, api_vars, job_vars
  <2>4. DispatchNotify => TypeInv'
    BY <1>1, Formats DEF ConstantsAssumption, DispatchNotify, sim_vars, api_vars, job_vars
  <2>5. DispatchNoMoreEvents => TypeInv'
    BY <1>1, Formats DEF ConstantsAssumption, DispatchNoMoreEvents, sim_vars, api_vars, job_vars
  <2> QED
    BY <1>2, <2>1, <2>2, <2>3, <2>4, <2>5
<1>3. CASE DispatchJobKilled
  <2>1. events # <<>> /\ Tail(events) \in Seq(SimEvent)
    BY <1>1, <1>3, HeadTailProperties DEF DispatchJobKilled, Dispatching
  <2>2. events' \in Seq(SimEvent) /\ phase' \in {"events", "handler", "exception"}
    BY <1>1, <1>3, <2>1 DEF DispatchJobKilled, Dispatching
  <2> QED
    BY <1>1, <1>3, <2>2, Formats DEF DispatchJobKilled, sim_vars, api_vars, job_vars
<1>4. CASE DispatchJobSubmitted
  <2>1. Dispatching("JOB_SUBMITTED") /\ Head(events) \in SimEvent /\ Head(events) \in ToSet(events)
    BY <1>1, <1>4, HeadGone DEF DispatchJobSubmitted, Dispatching
  <2>2. PICK j \in Job : Head(events) = Submitted(j)
    BY <2>1, EventKinds DEF Dispatching
  <2>3. /\ nb' = CountSubmission(job_state[j] # "NONE", job_state[j] = "IN_SUBMISSON")
        /\ job_state' = [job_state EXCEPT ![j] = "SUBMITTED"]
        /\ state' = [state EXCEPT ![j] = "NONE"]
    <3>1. Head(events).jobs = {j}
      BY <2>2, EventFields
    <3> QED
      BY <1>4, <3>1 DEF DispatchJobSubmitted
  <2>4. Submitted(j) \in ToSet(events)
    BY <2>1, <2>2
  <2>5. nb' \in [Counter -> Nat]
    <3> DEFINE n == Count({"submitted", IF job_state[j] # "NONE" THEN "from_scheduler" ELSE "from_batsim"})
    <3>1. n \in [Counter -> Nat] /\ n["in_submission"] = nb["in_submission"]
      <4>1. n \in [Counter -> Nat]
        BY <1>1, CountType
      <4>2. "in_submission" \notin {"submitted", IF job_state[j] # "NONE" THEN "from_scheduler" ELSE "from_batsim"}
        OBVIOUS
      <4>3. "in_submission" \in Counter
        BY DEF Counter
      <4> QED
        BY <4>1, <4>2, <4>3 DEF Count
    <3>2. job_state[j] = "IN_SUBMISSON" => nb["in_submission"] > 0
      BY <2>4 DEF AckCounted
    <3>3. nb' = IF job_state[j] = "IN_SUBMISSON" THEN [n EXCEPT !["in_submission"] = @ - 1] ELSE n
      BY <2>3 DEF CountSubmission
    <3> HIDE DEF n
    <3>4. CASE job_state[j] = "IN_SUBMISSON"
      <4>1. n["in_submission"] - 1 \in Nat
        <5>1. n["in_submission"] \in Nat /\ n["in_submission"] > 0
          BY <3>1, <3>2, <3>4 DEF Counter
        <5> QED
          BY <5>1
      <4> QED
        BY <3>1, <3>3, <3>4, <4>1
    <3>5. CASE job_state[j] # "IN_SUBMISSON"
      BY <3>1, <3>3, <3>5
    <3> QED
      BY <3>4, <3>5
  <2> QED
    BY <1>1, <1>4, <2>3, <2>5, Formats DEF DispatchJobSubmitted, sim_vars, JobState
<1>5. CASE DispatchJobCompleted
  <2>1. Dispatching("JOB_COMPLETED") /\ Head(events) \in SimEvent
    BY <1>1, <1>5, HeadGone DEF DispatchJobCompleted, Dispatching
  <2>2. PICK j \in Job : Head(events).jobs = {j}
    <3>1. PICK e \in SimEvent : e = Head(events)
      BY <2>1
    <3>2. e.type = "JOB_COMPLETED"
      BY <2>1, <3>1 DEF Dispatching
    <3> QED
      BY <3>1, <3>2, AboutOneJob
  <2>3. /\ job_state' = [job_state EXCEPT ![j] = StateNamed(Head(events).state)]
        /\ nb' = CountCompletion(StateNamed(Head(events).state))
    BY <1>5, <2>2 DEF DispatchJobCompleted
  <2>4. StateNamed(Head(events).state) \in JobState
    BY DEF StateNamed, JobState
  <2>5. nb' \in [Counter -> Nat]
    BY <1>1, <2>3, CountType DEF CountCompletion
  <2> QED
    BY <1>1, <1>5, <2>3, <2>4, <2>5, Formats DEF DispatchJobCompleted, sim_vars, api_vars
<1> QED
  BY <1>2, <1>3, <1>4, <1>5 DEF Dispatch

\* ... and what the simulator does: every event it queues is one of SimEvent.
LEMMA SimTypes ==
  ASSUME ConstantsAssumption, TypeInv, Sim
  PROVE  TypeInv'
<1> DEFINE Status == {"absent", "queued", "running", "changed", "done", "rejected"}
<1>0. /\ truth \in [Job -> Status] /\ batsim \in {"running", "ending", "ended", "aborted"}
      /\ registration \in BOOLEAN /\ wakes \in Nat /\ now \in Nat
      /\ commands \in Seq(ApiCommand) /\ mailbox \in Seq(SimEvent)
      /\ submit_time \in [Job -> Nat]
  BY DEF TypeInv, TypeOK, SimTypeOK, JobTypeOK
<1> DEFINE Typed == /\ truth' \in [Job -> Status] /\ batsim' \in {"running", "ending", "ended", "aborted"}
                    /\ registration' \in BOOLEAN /\ wakes' \in Nat /\ now' \in Nat
                    /\ commands' \in Seq(ApiCommand) /\ mailbox' \in Seq(SimEvent)
                    /\ submit_time' \in [Job -> Nat]
                    /\ UNCHANGED <<loop_vars, api_vars, job_state, nb>>
<1>1. SUFFICES Typed
  BY Formats DEF loop_vars, api_vars, TypeInv, TypeOK, SimTypeOK, LoopTypeOK, ApiTypeOK, JobTypeOK
<1>2. \A x \in SimEvent : Append(mailbox, x) \in Seq(SimEvent)
  BY <1>0, OneMore
<1>3. commands # <<>> => Tail(commands) \in Seq(ApiCommand) /\ Head(commands) \in ApiCommand
  BY <1>0, HeadGone
<1>4. CASE SimTick
  BY <1>0, <1>4 DEF SimTick, sim_vars, job_vars
<1>5. ASSUME NEW j \in Job, SimSubmit(j)
      PROVE  /\ truth' \in [Job -> Status] /\ submit_time' \in [Job -> Nat] /\ mailbox' \in Seq(SimEvent)
             /\ UNCHANGED <<batsim, registration, wakes, commands, now, loop_vars, api_vars, job_state, nb>>
  <2>1. Submitted(j) \in SimEvent /\ Signal("NOTIFY") \in SimEvent
    BY EventsExist
  <2> DEFINE one == <<Submitted(j)>>
             two == <<Submitted(j), Signal("NOTIFY")>>
  <2>2. one \in Seq(SimEvent) /\ two \in Seq(SimEvent)
    BY <2>1
  <2>3. mailbox' = mailbox \o one \/ mailbox' = mailbox \o two
    BY <1>5 DEF SimSubmit
  <2> HIDE DEF one, two
  <2>4. mailbox' \in Seq(SimEvent)
    <3>1. mailbox \o one \in Seq(SimEvent) /\ mailbox \o two \in Seq(SimEvent)
      BY <1>0, <2>2, ConcatProperties
    <3> QED
      BY <2>3, <3>1
  <2> QED
    BY <1>0, <1>5, <2>4 DEF SimSubmit
<1>6. ASSUME NEW j \in Job, NEW o \in Outcomes, SimComplete(j, o)
      PROVE  /\ truth' \in [Job -> Status] /\ mailbox' \in Seq(SimEvent)
             /\ UNCHANGED <<batsim, registration, wakes, commands, now, loop_vars, api_vars, job_vars>>
  <2>1. JobCompleted(j, o) \in SimEvent
    BY EventsExist
  <2> QED
    BY <1>0, <1>2, <1>6, <2>1 DEF SimComplete
<1>7. CASE SimCall
  <2>1. Signal("REQUESTED_CALL") \in SimEvent
    BY EventsExist
  <2> QED
    BY <1>0, <1>2, <1>7, <2>1 DEF SimCall, job_vars
<1>8. CASE InjectExecute \/ InjectReject \/ InjectChange
  BY <1>0, <1>3, <1>8 DEF InjectExecute, InjectReject, InjectChange, Injecting, Injected, Move
<1>9. CASE InjectKill
  <2> DEFINE hit == {j \in Head(commands).jobs : truth[j] = "running"}
  <2>1. PICK K \in SUBSET Job : Head(commands) = Killing(K)
    BY <1>3, <1>9, CommandKinds DEF InjectKill, Injecting
  <2>2. Head(commands).jobs = K
    BY <2>1, CommandFields
  <2>3. PICK order \in SetToSeqs(hit) :
          mailbox' = mailbox
             \o [i \in DOMAIN order |-> JobCompleted(order[i], "COMPLETED_KILLED")]
             \o <<Killed(K, hit)>>
    BY <1>9, <2>2 DEF InjectKill
  <2> DEFINE b == [i \in DOMAIN order |-> JobCompleted(order[i], "COMPLETED_KILLED")]
             c == <<Killed(K, hit)>>
  <2>4. IsFiniteSet(Job)
    BY FS_Union DEF ConstantsAssumption, Job
  <2>5. hit \in SUBSET Job
    BY <2>2
  <2>6. b \in Seq(SimEvent)
    BY <2>4, <2>5, KillReports
  <2>7. c \in Seq(SimEvent)
    <3>1. Killed(K, hit) \in SimEvent
      BY <2>5, EventsExist
    <3> QED
      BY <3>1
  <2>8. mailbox' = (mailbox \o b) \o c
    BY <2>3
  <2> HIDE DEF b, c, hit
  <2>9. mailbox' \in Seq(SimEvent)
    BY <1>0, <2>6, <2>7, <2>8, ConcatProperties
  <2> QED
    BY <1>0, <1>3, <1>9, <2>9 DEF InjectKill, Injecting, Injected
<1>10. CASE InjectRegister
  <2>1. PICK j \in Job : Head(commands) = Registering(j)
    BY <1>3, <1>10, CommandKinds DEF InjectRegister, Injecting
  <2>2. Event("JOB_SUBMITTED", Head(commands).jobs, {}, "") = Submitted(j)
    <3>1. Head(commands).jobs = {j}
      BY <2>1, CommandFields
    <3> QED
      BY <3>1 DEF Submitted
  <2>3. mailbox' \in Seq(SimEvent)
    BY <1>0, <1>2, <1>10, <2>2, EventsExist DEF InjectRegister
  <2> QED
    BY <1>0, <1>3, <1>10, <2>3 DEF InjectRegister, Injecting, Injected, Move
<1>11. CASE InjectNotify \/ InjectCallMeLater
  <2>1. CASE InjectNotify
    BY <1>0, <1>3, <2>1 DEF InjectNotify, Injecting, job_vars
  <2>2. CASE InjectCallMeLater
    BY <1>0, <1>3, <2>2 DEF InjectCallMeLater, Injecting, job_vars
  <2> QED
    BY <1>11, <2>1, <2>2
<1>12. CASE SimEnd
  <2>1. mailbox' \in Seq(SimEvent)
    <3>1. Ends \in SimEvent /\ mailbox' = <<Ends>>
      BY <1>12, EventsExist DEF SimEnd, Ends
    <3> QED
      BY <3>1
  <2> QED
    BY <1>0, <1>12, <2>1 DEF SimEnd, job_vars
<1>13. CASE Inject
  BY <1>8, <1>9, <1>10, <1>11, <1>13 DEF Inject
<1>14. ASSUME NEW j \in Job, SimSubmit(j) PROVE Typed
  BY <1>0, <1>5, <1>14
<1>15. ASSUME NEW j \in Job, NEW o \in Outcomes, SimComplete(j, o) PROVE Typed
  BY <1>0, <1>6, <1>15 DEF job_vars
<1> QED
  BY <1>4, <1>7, <1>12, <1>13, <1>14, <1>15 DEF Sim

\* Every step keeps the types.
LEMMA TypeStep ==
  ASSUME ConstantsAssumption, LoopInv, [BatsimNext]_batsim_vars
  PROVE  TypeInv'
<1>1. TypeInv
  BY DEF LoopInv
<1> USE DEF TypeInv, TypeOK, SimTypeOK, LoopTypeOK, ApiTypeOK, JobTypeOK
<1>2. CASE Sim
  BY <1>1, <1>2, SimTypes
<1>3. CASE Receive
  BY <1>1, <1>3, Formats DEF Receive, job_vars
<1>4. CASE Timeout
  BY <1>1, <1>4, Formats DEF Timeout, sim_vars, api_vars, job_vars
<1>5. CASE Dispatch
  <2>1. Inbox = events
    BY <1>5, Boxes DEF Dispatch, DispatchSimulationBegins, DispatchSimulationEnds, DispatchJobSubmitted,
                       DispatchJobCompleted, DispatchJobKilled, DispatchRequestedCall, DispatchNotify,
                       DispatchNoMoreEvents, Dispatching
  <2>2. AckCounted
    BY <2>1, Acknowledged DEF AckCounted
  <2> QED
    BY <1>1, <1>5, <2>2, DispatchTypes
<1>6. CASE SendReply
  BY <1>1, <1>6, Formats DEF SendReply, Reply, job_vars
<1>7. CASE ClientCall
  BY <1>1, <1>7, CallTypes
<1>8. CASE ClientConsume
  BY <1>1, <1>8, Formats DEF ClientConsume, ConsumeTime, sim_vars, loop_vars, api_vars, job_vars
<1>9. CASE ClientReturn
  <2>1. events' \in Seq(SimEvent) /\ phase' \in {"recv", "events"}
    <3>1. CASE phase = "handler" /\ events # <<>> /\ CallbackReturns
      <4>1. Tail(events) \in Seq(SimEvent)
        BY <1>1, <3>1, HeadTailProperties
      <4> QED
        BY <3>1, <4>1 DEF CallbackReturns
    <3>2. CASE InitReturns /\ UNCHANGED events
      BY <1>1, <3>2 DEF InitReturns
    <3> QED
      BY <1>9, <3>1, <3>2 DEF ClientReturn
  <2> QED
    BY <1>1, <1>9, <2>1, Formats DEF ClientReturn, sim_vars, api_vars, job_vars
<1>10. CASE UNCHANGED batsim_vars
  BY <1>1, <1>10 DEF batsim_vars, sim_vars, loop_vars, api_vars, job_vars
<1> QED
  BY <1>2, <1>3, <1>4, <1>5, <1>6, <1>7, <1>8, <1>9, <1>10
     DEF BatsimNext, Library, ClientNext, Terminated

-----------------------------------------------------------------------------
\* The first layer is kept

\* While the simulator acts, the queues are its mailbox and its commands.
LEMMA SimBoxes ==
  ASSUME Sim
  PROVE  /\ phase = "recv" /\ phase' = "recv" /\ initialised /\ batsim = "running"
         /\ Inbox = mailbox /\ Inbox' = mailbox' /\ Outbox = commands /\ Outbox' = commands'
         /\ UNCHANGED <<loop_vars, api_vars, job_state, nb>>
<1>1. phase = "recv" /\ initialised /\ batsim = "running" /\ UNCHANGED <<loop_vars, api_vars, job_state, nb>>
  BY DEF Sim, SimTick, SimSubmit, SimComplete, SimCall, Inject, InjectExecute, InjectReject, InjectChange,
         InjectKill, InjectRegister, InjectNotify, InjectCallMeLater, SimEnd, Waiting, Injecting, Injected,
         job_vars
<1>2. phase' = "recv"
  BY <1>1 DEF loop_vars
<1> QED
  BY <1>1, <1>2, Boxes

\* A call only adds commands.
LEMMA CallBoxes ==
  ASSUME ClientCall
  PROVE  /\ Inbox' = Inbox /\ Outbox = events_to_send /\ Outbox' = events_to_send'
         /\ phase \in {"handler", "init"} /\ UNCHANGED <<sim_vars, now, loop_vars>>
<1>1. phase \in {"handler", "init"} /\ UNCHANGED <<sim_vars, now, loop_vars>>
  BY DEF ClientCall, Listening
<1>2. phase' = phase /\ events' = events /\ mailbox' = mailbox
  BY <1>1 DEF sim_vars, loop_vars
<1> QED
  BY <1>1, <1>2, Boxes

\* A dispatch takes the head of the events.
LEMMA DispatchBoxes ==
  ASSUME NEW t, Dispatching(t), phase' = "handler", events' = events, events_to_send' = events_to_send
  PROVE  /\ Inbox = events /\ Inbox # <<>> /\ Head(Inbox).type = t /\ Inbox' = Tail(Inbox)
         /\ Outbox = events_to_send /\ Outbox' = Outbox
  BY Boxes DEF Dispatching

\* Before the first reply there is nothing but the first message.
LEMMA FirstMessage ==
  ASSUME LoopInv
  PROVE  /\ Dispatching("SIMULATION_BEGINS") => ~initialised
         /\ ~initialised => \A t : Dispatching(t) => t = "SIMULATION_BEGINS"
<1>1. ASSUME Dispatching("SIMULATION_BEGINS") PROVE ~initialised
  <2>1. events \in Seq(SimEvent) /\ events # <<>> /\ Inbox = events /\ Head(events).type = "SIMULATION_BEGINS"
    BY <1>1, Boxes DEF Dispatching, LoopInv, TypeInv
  <2>2. Head(events) \in SimEvent /\ Head(events) \in ToSet(events)
    BY <2>1, HeadGone
  <2>3. Begins \in ToSet(Inbox)
    BY <2>1, <2>2, EventKinds
  <2> QED
    BY <2>3 DEF LoopInv, WayInv, Starting
<1>2. ASSUME ~initialised, NEW t, Dispatching(t) PROVE t = "SIMULATION_BEGINS"
  <2>1. events # <<>> /\ Inbox = events /\ Head(events).type = t
    BY <1>2, Boxes DEF Dispatching
  <2>2. Inbox = <<Begins>>
    BY <1>2, <2>1 DEF LoopInv, WayInv, Starting
  <2> QED
    BY <2>1, <2>2, EventFields DEF Begins
<1> QED
  BY <1>1, <1>2

\* While one of the two processes works, the other's queue is empty.
LEMMA AlternatingStep ==
  ASSUME LoopInv, [BatsimNext]_batsim_vars
  PROVE  Alternating'
<1>1. Alternating
  BY DEF LoopInv, WayInv
<1>2. CASE Sim
  BY <1>1, <1>2, SimBoxes DEF Alternating, loop_vars
<1>3. CASE Receive
  BY <1>1, <1>3 DEF Receive, Alternating
<1>4. CASE Timeout
  BY <1>1, <1>4 DEF Timeout, Alternating, sim_vars, api_vars
<1>5. CASE Dispatch
  BY <1>1, <1>5
     DEF Dispatch, DispatchSimulationBegins, DispatchSimulationEnds, DispatchJobSubmitted, DispatchJobCompleted,
         DispatchJobKilled, DispatchRequestedCall, DispatchNotify, DispatchNoMoreEvents, Dispatching,
         Alternating, sim_vars
<1>6. CASE SendReply
  <2>1. /\ phase = "handler" /\ events = <<>> /\ mailbox = <<>> /\ events' = events /\ mailbox' = mailbox
        /\ commands' = events_to_send /\ initialised' = TRUE
        /\ phase' = CASE ~initialised -> "init"
                       [] initialised /\ ~running_simulation -> "ended"
                       [] OTHER -> "recv"
    BY <1>1, <1>6 DEF SendReply, Reply, Alternating
  <2>2. phase' \in {"init", "ended", "recv"} /\ (phase' = "init" => ~initialised)
    BY <2>1
  <2>3. ~initialised => events_to_send = <<>>
    BY DEF LoopInv, WayInv, Starting
  <2> QED
    BY <2>1, <2>2, <2>3 DEF Alternating
<1>7. CASE ClientCall
  BY <1>1, <1>7, CallBoxes DEF Alternating, sim_vars, loop_vars
<1>8. CASE ClientConsume
  BY <1>1, <1>8 DEF ClientConsume, Alternating, sim_vars, loop_vars
<1>9. CASE ClientReturn
  BY <1>1, <1>9 DEF ClientReturn, CallbackReturns, InitReturns, Alternating, sim_vars
<1>10. CASE UNCHANGED batsim_vars
  BY <1>1, <1>10 DEF batsim_vars, sim_vars, loop_vars, Alternating
<1> QED
  BY <1>2, <1>3, <1>4, <1>5, <1>6, <1>7, <1>8, <1>9, <1>10
     DEF BatsimNext, Library, ClientNext, Terminated

\* What a command for one job does.
LEMMA MoveOne ==
  ASSUME TypeInv, NEW j \in Job, NEW c, c.jobs = {j}, NEW from, NEW to, Move(c, from, to)
  PROVE  IF truth[j] = from
         THEN truth' = [truth EXCEPT ![j] = to] /\ batsim' = batsim
         ELSE truth' = truth /\ batsim' = "aborted"
  BY DEF Move, TypeInv, TypeOK, SimTypeOK

\* A submission is one event, or two.
LEMMA SubmitEffect ==
  ASSUME TypeInv, NEW j \in Job, SimSubmit(j)
  PROVE  \/ mailbox' = Append(mailbox, Submitted(j))
         \/ mailbox' = Append(Append(mailbox, Submitted(j)), Signal("NOTIFY"))
<1>1. mailbox \in Seq(SimEvent) /\ Submitted(j) \in SimEvent /\ Signal("NOTIFY") \in SimEvent
  BY EventsExist DEF TypeInv
<1> DEFINE a == Submitted(j)
           b == Signal("NOTIFY")
           one == <<a>>
           two == <<a, b>>
<1>2. mailbox' = mailbox \o one \/ mailbox' = mailbox \o two
  BY DEF SimSubmit
<1>3. two = one \o <<b>>
  OBVIOUS
<1>4. one \in Seq(SimEvent) /\ <<b>> \in Seq(SimEvent)
  BY <1>1
<1> HIDE DEF a, b
<1>5. mailbox \o one = Append(mailbox, a)
  BY <1>1, AppendIsConcat DEF a
<1> DEFINE last == <<b>>
<1> HIDE DEF one, two, last
<1>6. mailbox \o two = (mailbox \o one) \o last
  BY <1>1, <1>3, <1>4, ConcatAssociative DEF last
<1>7. Append(mailbox, a) \in Seq(SimEvent)
  BY <1>1, OneMore DEF a
<1>8. Append(mailbox, a) \o last = Append(Append(mailbox, a), b)
  BY <1>1, <1>7, AppendIsConcat DEF b, last
<1> QED
  BY <1>2, <1>5, <1>6, <1>8 DEF a, b

\* A kill completes the jobs that run, and is then acknowledged.
LEMMA KillEffect ==
  ASSUME ConstantsAssumption, TypeInv, InjectKill
  PROVE  \E K, hit \in SUBSET Job : \E b \in Seq(SimEvent) :
           /\ commands # <<>> /\ Head(commands) = Killing(K) /\ commands' = Tail(commands)
           /\ hit = {j \in K : truth[j] = "running"}
           /\ truth' = [j \in Job |-> IF j \in hit THEN "done" ELSE truth[j]] /\ batsim' = batsim
           /\ ToSet(b) = {JobCompleted(j, "COMPLETED_KILLED") : j \in hit}
           /\ \A j \in Job : AtMostOne(b, Completions(j))
           /\ mailbox' = Append(mailbox \o b, Killed(K, hit))
<1>1. /\ commands # <<>> /\ Head(commands) \in ApiCommand /\ commands' = Tail(commands)
      /\ Head(commands).type = "KILL_JOB" /\ mailbox \in Seq(SimEvent)
  BY HeadGone DEF InjectKill, Injecting, Injected, TypeInv
<1>2. PICK K \in SUBSET Job : Head(commands) = Killing(K)
  BY <1>1, CommandKinds
<1>3. Head(commands).jobs = K
  BY <1>2, CommandFields
<1> DEFINE hit == {j \in K : truth[j] = "running"}
<1>4. PICK order \in SetToSeqs(hit) :
        mailbox' = mailbox
           \o [i \in DOMAIN order |-> JobCompleted(order[i], "COMPLETED_KILLED")]
           \o <<Killed(K, hit)>>
  BY <1>3 DEF InjectKill
<1> DEFINE b == [i \in DOMAIN order |-> JobCompleted(order[i], "COMPLETED_KILLED")]
           e == Killed(K, hit)
           c == <<e>>
<1>5. IsFiniteSet(Job) /\ hit \in SUBSET Job
  BY FS_Union DEF ConstantsAssumption, Job
<1>6. /\ b \in Seq(SimEvent)
      /\ ToSet(b) = {JobCompleted(j, "COMPLETED_KILLED") : j \in hit}
      /\ \A j \in Job : AtMostOne(b, Completions(j))
  BY <1>5, KillReports
<1>7. e \in SimEvent
  BY <1>5, EventsExist
<1>8. truth' = [j \in Job |-> IF j \in hit THEN "done" ELSE truth[j]] /\ batsim' = batsim
  BY <1>3 DEF InjectKill
<1>9. mailbox' = (mailbox \o b) \o c
  BY <1>4
<1> HIDE DEF b, e, hit
<1>10. mailbox \o b \in Seq(SimEvent)
  BY <1>1, <1>6, ConcatProperties
<1>11. mailbox' = Append(mailbox \o b, e)
  BY <1>7, <1>9, <1>10, AppendIsConcat
<1>12. hit = {j \in K : truth[j] = "running"}
  BY DEF hit
<1>13. mailbox' = Append(mailbox \o b, Killed(K, hit))
  BY <1>11 DEF e
<1> QED
  BY <1>1, <1>2, <1>5, <1>6, <1>8, <1>12, <1>13

\* A registration is obeyed: it was made while it was open, of a new job.
LEMMA RegisterEffect ==
  ASSUME LoopInv, InjectRegister
  PROVE  \E j \in Dynamic :
           /\ commands # <<>> /\ Head(commands) = Registering(j) /\ commands' = Tail(commands)
           /\ Registering(j) \in ToSet(Outbox) /\ truth[j] = "absent"
           /\ truth' = [truth EXCEPT ![j] = "queued"] /\ batsim' = batsim
           /\ mailbox' = IF ack_of_dynamic_jobs THEN Append(mailbox, Submitted(j)) ELSE mailbox
<1>1. /\ commands # <<>> /\ Head(commands) \in ApiCommand /\ commands' = Tail(commands)
      /\ Head(commands).type = "REGISTER_JOB" /\ Outbox = commands /\ Head(commands) \in ToSet(commands)
  <2>1. /\ commands \in Seq(ApiCommand) /\ commands # <<>> /\ commands' = Tail(commands)
        /\ Head(commands).type = "REGISTER_JOB" /\ phase = "recv"
    BY DEF InjectRegister, Injecting, Injected, Waiting, LoopInv, TypeInv
  <2>2. Head(commands) \in ApiCommand /\ Head(commands) \in ToSet(commands)
    BY <2>1, HeadGone
  <2> QED
    BY <2>1, <2>2, Boxes
<1>2. PICK j \in Job : Head(commands) = Registering(j)
  BY <1>1, CommandKinds
<1>3. j \in Dynamic /\ truth[j] = "absent" /\ registration
  BY <1>1, <1>2 DEF LoopInv, WayInv, JobInv, Outgoing
<1>4. Head(commands).jobs = {j} /\ Event("JOB_SUBMITTED", Head(commands).jobs, {}, "") = Submitted(j)
  <2>1. Head(commands).jobs = {j}
    BY <1>2, CommandFields
  <2> QED
    BY <2>1 DEF Submitted
<1>5. Move(Head(commands), "absent", "queued")
  BY <1>3 DEF InjectRegister
<1>6. truth' = [truth EXCEPT ![j] = "queued"] /\ batsim' = batsim
  BY <1>3, <1>4, <1>5, MoveOne DEF LoopInv
<1>7. mailbox' = IF ack_of_dynamic_jobs THEN Append(mailbox, Submitted(j)) ELSE mailbox
  BY <1>4 DEF InjectRegister
<1> QED
  BY <1>1, <1>2, <1>3, <1>6, <1>7

\* The events the simulator adds come after the first message.
LEMMA SimEvents ==
  ASSUME ConstantsAssumption, LoopInv, Sim
  PROVE  /\ Begins \in ToSet(mailbox') => Begins \in ToSet(mailbox)
         /\ Ends \in ToSet(mailbox') => Ends \in ToSet(mailbox) \/ batsim' = "ending"
<1> DEFINE Other(e) == e # Begins /\ e # Ends
<1>1. /\ \A j, o : Other(Submitted(j)) /\ Other(JobCompleted(j, o))
      /\ \A K, P : Other(Killed(K, P))
      /\ Other(Signal("NOTIFY")) /\ Other(Signal("REQUESTED_CALL")) /\ Begins # Ends
  BY EventFields DEF Begins, Ends
<1>2. mailbox \in Seq(SimEvent) /\ TypeInv
  BY DEF LoopInv, TypeInv
<1>3. \A e \in SimEvent : ToSet(Append(mailbox, e)) = ToSet(mailbox) \cup {e} /\ Append(mailbox, e) \in Seq(SimEvent)
  BY <1>2, OneMore
<1>4. ASSUME NEW j \in Job, SimSubmit(j)
      PROVE  \A e \in ToSet(mailbox') : e \in ToSet(mailbox) \/ Other(e)
  <2>1. Submitted(j) \in SimEvent /\ Signal("NOTIFY") \in SimEvent
    BY EventsExist
  <2> DEFINE q == Append(mailbox, Submitted(j))
  <2>2. q \in Seq(SimEvent) /\ ToSet(q) = ToSet(mailbox) \cup {Submitted(j)}
    BY <1>3, <2>1
  <2>3. mailbox' = q \/ mailbox' = Append(q, Signal("NOTIFY"))
    BY <1>2, <1>4, SubmitEffect
  <2> HIDE DEF q
  <2>4. ToSet(Append(q, Signal("NOTIFY"))) = ToSet(q) \cup {Signal("NOTIFY")}
    BY <2>1, <2>2, OneMore
  <2> QED
    BY <1>1, <2>2, <2>3, <2>4
<1>5. ASSUME NEW j \in Job, NEW o \in Outcomes, SimComplete(j, o)
      PROVE  \A e \in ToSet(mailbox') : e \in ToSet(mailbox) \/ Other(e)
  BY <1>1, <1>3, <1>5, EventsExist DEF SimComplete
<1>6. ASSUME InjectKill
      PROVE  \A e \in ToSet(mailbox') : e \in ToSet(mailbox) \/ Other(e)
  <2>1. PICK K \in SUBSET Job, hit \in SUBSET Job, b \in Seq(SimEvent) :
          /\ ToSet(b) = {JobCompleted(j, "COMPLETED_KILLED") : j \in hit}
          /\ mailbox' = Append(mailbox \o b, Killed(K, hit))
    BY <1>2, <1>6, KillEffect
  <2>2. mailbox \o b \in Seq(SimEvent) /\ ToSet(mailbox \o b) = ToSet(mailbox) \cup ToSet(b)
    BY <1>2, SeveralMore
  <2>3. Killed(K, hit) \in SimEvent
    BY EventsExist
  <2> DEFINE q == mailbox \o b
  <2>4. ToSet(mailbox') = (ToSet(mailbox) \cup ToSet(b)) \cup {Killed(K, hit)}
    <3>1. q \in Seq(SimEvent) /\ ToSet(q) = ToSet(mailbox) \cup ToSet(b) /\ mailbox' = Append(q, Killed(K, hit))
      BY <2>1, <2>2
    <3> HIDE DEF q
    <3> QED
      BY <2>3, <3>1, OneMore
  <2> QED
    BY <1>1, <2>1, <2>4
<1>7. ASSUME InjectRegister
      PROVE  \A e \in ToSet(mailbox') : e \in ToSet(mailbox) \/ Other(e)
  <2>1. PICK j \in Dynamic : mailbox' = IF ack_of_dynamic_jobs THEN Append(mailbox, Submitted(j)) ELSE mailbox
    BY <1>7, RegisterEffect
  <2>2. Submitted(j) \in SimEvent
    BY EventsExist DEF Job
  <2> QED
    BY <1>1, <1>3, <2>1, <2>2
<1>8. ASSUME SimCall
      PROVE  \A e \in ToSet(mailbox') : e \in ToSet(mailbox) \/ Other(e)
  BY <1>1, <1>3, <1>8, EventsExist DEF SimCall
<1>9. ASSUME SimEnd
      PROVE  ToSet(mailbox') = {Ends} /\ batsim' = "ending"
  <2>1. mailbox' = <<Ends>> /\ batsim' = "ending"
    BY <1>9 DEF SimEnd, Ends
  <2> QED
    BY <2>1 DEF ToSet
<1>10. ASSUME SimTick \/ InjectExecute \/ InjectReject \/ InjectChange \/ InjectNotify \/ InjectCallMeLater
       PROVE  mailbox' = mailbox
  BY <1>10 DEF SimTick, InjectExecute, InjectReject, InjectChange, InjectNotify, InjectCallMeLater, sim_vars
<1> HIDE DEF Other
<1>11. \/ mailbox' = mailbox
       \/ ToSet(mailbox') = {Ends} /\ batsim' = "ending"
       \/ \A e \in ToSet(mailbox') : e \in ToSet(mailbox) \/ Other(e)
  BY <1>4, <1>5, <1>6, <1>7, <1>8, <1>9, <1>10 DEF Sim, Inject
<1> QED
  BY <1>1, <1>11 DEF Other

\* Nothing happens before the first reply, and the simulation begins once.
LEMMA StartingStep ==
  ASSUME ConstantsAssumption, LoopInv, [BatsimNext]_batsim_vars
  PROVE  Starting'
<1>1. Alternating /\ Starting /\ TypeInv /\ events \in Seq(SimEvent)
  BY DEF LoopInv, WayInv, TypeInv
<1>2. Starting' <=>
        /\ initialised' => Begins \notin ToSet(Inbox')
        /\ ~initialised' =>
             /\ \A j \in Job : truth'[j] = "absent" /\ job_state'[j] = "NONE" /\ state'[j] = "NONE"
             /\ jobs_manually_changed' = {} /\ registration' /\ batsim' = "running"
             /\ commands' = <<>> /\ events_to_send' = <<>>
             /\ IF running_simulation'
                THEN Inbox' = <<>> /\ phase' \in {"events", "handler"}
                ELSE Inbox' = <<Begins>> /\ phase' \in {"recv", "events"}
  BY DEF Starting, ToSet, Begins, Signal, Event
<1>3. CASE Sim
  <2>1. initialised' /\ Begins \notin ToSet(mailbox)
    BY <1>1, <1>3, SimBoxes DEF loop_vars, Starting
  <2> QED
    BY <1>2, <1>3, <2>1, SimBoxes, SimEvents
<1>4. CASE Receive
  <2>1. Inbox' = Inbox
    BY <1>4, Boxes DEF Receive
  <2> QED
    BY <1>1, <1>2, <1>4, <2>1 DEF Receive, Starting, job_vars
<1>5. CASE Timeout
  <2>1. Inbox' = Inbox /\ initialised
    BY <1>1, <1>5, Boxes DEF Timeout, sim_vars, Starting
  <2> QED
    BY <1>1, <1>2, <1>5, <2>1 DEF Timeout, Starting
<1>6. CASE DispatchSimulationBegins
  <2>1. Dispatching("SIMULATION_BEGINS") /\ phase' = "handler" /\ events' = events
        /\ events_to_send' = events_to_send /\ running_simulation' = TRUE
        /\ UNCHANGED <<initialised, sim_vars, job_state, state, jobs_manually_changed>>
    BY <1>6 DEF DispatchSimulationBegins, api_vars, job_vars
  <2>2. ~initialised
    BY <2>1, FirstMessage
  <2>3. Inbox # <<>> /\ Inbox' = Tail(Inbox) /\ Inbox = <<Begins>>
    BY <1>1, <2>1, <2>2, DispatchBoxes DEF Starting
  <2>4. Inbox' = <<>>
    BY <2>3
  <2> QED
    BY <1>1, <1>2, <2>1, <2>2, <2>4 DEF Starting, sim_vars
<1>7. ASSUME NEW t, t # "SIMULATION_BEGINS", Dispatching(t), initialised' = initialised,
             \/ events' = events /\ phase' \in {"handler", "exception"}
             \/ events' = Tail(events) /\ phase' = "events"
      PROVE  Starting'
  <2>1. initialised
    BY <1>7, FirstMessage
  <2>2. events # <<>> /\ ToSet(Tail(events)) \subseteq ToSet(events) /\ Inbox = events
    BY <1>1, <1>7, HeadGone, Boxes DEF Dispatching
  <2>3. Inbox' \in {events, Tail(events)}
    BY <1>7, Boxes
  <2> QED
    BY <1>1, <1>2, <1>7, <2>1, <2>2, <2>3 DEF Starting
<1>8. CASE DispatchSimulationEnds \/ DispatchJobSubmitted \/ DispatchJobCompleted \/ DispatchRequestedCall \/ DispatchNotify
  <2>1. \E t : /\ t # "SIMULATION_BEGINS" /\ Dispatching(t) /\ initialised' = initialised
               /\ events' = events /\ phase' = "handler"
    BY <1>8 DEF DispatchSimulationEnds, DispatchJobSubmitted, DispatchJobCompleted, DispatchRequestedCall, DispatchNotify
  <2> QED
    BY <1>7, <2>1
<1>9. CASE DispatchJobKilled
  <2>1. /\ Dispatching("JOB_KILLED") /\ initialised' = initialised
        /\ \/ events' = events /\ phase' \in {"handler", "exception"}
           \/ events' = Tail(events) /\ phase' = "events"
    BY <1>9 DEF DispatchJobKilled, Dispatching
  <2> QED
    BY <1>7, <2>1
<1>10. CASE DispatchNoMoreEvents
  <2>1. Inbox = <<>> /\ Inbox' = <<>> /\ phase' = "handler"
    BY <1>10, Boxes DEF DispatchNoMoreEvents
  <2>2. ~initialised => running_simulation
    BY <1>1, <2>1 DEF Starting
  <2> QED
    BY <1>1, <1>2, <1>10, <2>1, <2>2 DEF DispatchNoMoreEvents, Starting, sim_vars, api_vars, job_vars
<1>11. CASE SendReply
  <2>1. initialised' /\ phase' \in {"init", "ended", "recv"} /\ mailbox' = <<>>
    BY <1>1, <1>11 DEF SendReply, Alternating
  <2>2. Inbox' = <<>>
    BY <2>1, Boxes
  <2> QED
    BY <1>2, <2>1, <2>2 DEF ToSet
<1>12. CASE ClientCall
  <2>1. initialised
    BY <1>1, <1>12 DEF ClientCall, Listening, Alternating
  <2> QED
    BY <1>1, <1>2, <1>12, <2>1, CallBoxes DEF loop_vars, Starting
<1>13. CASE ClientConsume \/ UNCHANGED batsim_vars
  <2>1. UNCHANGED <<sim_vars, loop_vars, api_vars, job_vars>>
    BY <1>13 DEF ClientConsume, batsim_vars
  <2>2. Inbox' = Inbox
    BY <2>1 DEF Inbox, Undealt, sim_vars, loop_vars
  <2> QED
    BY <1>1, <1>2, <2>1, <2>2 DEF Starting, sim_vars, loop_vars, api_vars, job_vars
<1>14. CASE ClientReturn
  <2>1. Inbox' = Inbox /\ initialised' = initialised
    BY <1>14, Boxes DEF ClientReturn, CallbackReturns, InitReturns, sim_vars
  <2>2. CASE initialised
    BY <1>1, <1>2, <2>1, <2>2 DEF Starting
  <2>3. CASE ~initialised
    <3>1. phase' = "events"
      BY <1>1, <1>14, <2>3 DEF ClientReturn, CallbackReturns, InitReturns, Alternating
    <3> QED
      BY <1>1, <1>2, <1>14, <2>1, <2>3, <3>1 DEF ClientReturn, Starting, sim_vars, api_vars, job_vars
  <2> QED
    BY <2>2, <2>3
<1> QED
  BY <1>3, <1>4, <1>5, <1>6, <1>8, <1>9, <1>10, <1>11, <1>12, <1>13, <1>14
     DEF BatsimNext, Library, Dispatch, ClientNext, Terminated

\* Nothing happens to k: the queues are the same, or an event or a command
\* that is not about k comes or goes.
LEMMA Bystander ==
  ASSUME TypeInv, NEW k \in Job, JobInv(k), StatusKept(k), ack_of_dynamic_jobs' = ack_of_dynamic_jobs,
         registration' = registration \/ Registering(k) \notin ToSet(Outbox'),
         \/ Inbox' = Inbox
         \/ Inbox # <<>> /\ Head(Inbox) \notin EventsOf(k) /\ Inbox' = Tail(Inbox)
         \/ \E x \in SimEvent : x \notin EventsOf(k) /\ Inbox' = Append(Inbox, x),
         \/ Outbox' = Outbox
         \/ Outbox # <<>> /\ Head(Outbox) \notin CommandsOf(k) /\ Outbox' = Tail(Outbox)
         \/ \E x \in ApiCommand : x \notin CommandsOf(k) /\ Outbox' = Append(Outbox, x)
  PROVE  JobInv(k)'
<1>1. Inbox \in Seq(SimEvent) /\ Outbox \in Seq(ApiCommand)
  BY BoxTypes
<1>2. SameIn(Inbox, Inbox', k)
  BY <1>1, SameInStep
<1>3. SameOut(Outbox, Outbox', k)
  BY <1>1, SameOutStep
<1>4. Incoming(k)' /\ Table(k)' /\ Wished(k)'
  BY <1>2, FrameIn
<1>5. Outgoing(k)'
  BY <1>3, FrameOut
<1> QED
  BY <1>4, <1>5 DEF JobInv

\* Several events come that are not about k.
LEMMA SameInSeveral ==
  ASSUME NEW k \in Job, NEW q \in Seq(SimEvent), NEW b \in Seq(SimEvent), ToSet(b) \cap EventsOf(k) = {}
  PROVE  SameIn(q, q \o b, k)
<1>1. ToSet(q \o b) = ToSet(q) \cup ToSet(b)
  BY SeveralMore
<1>2. \A E \in SUBSET EventsOf(k) : ToSet(b) \cap E = {} /\ AtMostOne(b, E)
  BY Members
<1>3. \A E \in SUBSET EventsOf(k) : AtMostOne(q, E) => AtMostOne(q \o b, E)
  BY <1>2, SeveralMore
<1> QED
  BY <1>1, <1>3 DEF SameIn

\* A job is submitted by the simulator.
LEMMA SubmitJob ==
  ASSUME TypeInv, \A k \in Job : JobInv(k), NEW j \in Job, SimSubmit(j), phase' = phase
  PROVE  \A k \in Job : JobInv(k)'
<1>1. /\ Inbox = mailbox /\ Inbox' = mailbox' /\ Outbox' = Outbox /\ mailbox \in Seq(SimEvent)
      /\ j \in Static /\ truth[j] = "absent" /\ truth' = [truth EXCEPT ![j] = "queued"]
      /\ UNCHANGED <<registration, ack_of_dynamic_jobs, state, jobs_manually_changed, job_state>>
  BY Boxes DEF SimSubmit, Waiting, TypeInv, loop_vars, api_vars
<1> DEFINE a == Submitted(j)
           n == Signal("NOTIFY")
           q == Append(mailbox, a)
<1>2. a \in SimEvent /\ n \in SimEvent /\ q \in Seq(SimEvent)
  BY <1>1, EventsExist, OneMore
<1>3. mailbox' = q \/ mailbox' = Append(q, n)
  BY SubmitEffect
<1>4. truth \in [Job -> {"absent", "queued", "running", "changed", "done", "rejected"}]
  BY DEF TypeInv, TypeOK, SimTypeOK
<1>5. ASSUME NEW k \in Job, k # j PROVE JobInv(k)'
  <2>1. StatusKept(k)
    BY <1>1, <1>4, <1>5 DEF StatusKept
  <2>2. a \notin EventsOf(k) /\ n \notin EventsOf(k)
    BY <1>5, AboutOthers
  <2>3. SameIn(mailbox, q, k)
    BY <1>1, <1>2, <2>2, SameInStep
  <2>4. SameIn(q, Append(q, n), k)
    BY <1>2, <2>2, SameInStep
  <2> HIDE DEF q
  <2>5. SameIn(Inbox, Inbox', k)
    BY <1>1, <1>3, <2>3, <2>4 DEF SameIn
  <2>6. SameOut(Outbox, Outbox', k)
    BY <1>1, BoxTypes, SameOutStep
  <2> QED
    BY <1>1, <2>1, <2>5, <2>6, FrameIn, FrameOut DEF JobInv
<1>6. JobInv(j)'
  <2>1. /\ truth'[j] = "queued" /\ job_state'[j] = job_state[j] /\ state'[j] = state[j]
        /\ job_state[j] = "NONE" /\ ~Touched(j) /\ ~Touched(j)' /\ j \notin Dynamic
    BY <1>1, <1>4, ConstantsAssumption DEF JobInv, Table, Touched, ConstantsAssumption
  <2>2. ToSet(mailbox) \cap EventsOf(j) = {} /\ AtMostOne(mailbox, {a}) /\ AtMostOne(mailbox, Completions(j))
    BY <1>1 DEF JobInv, Incoming, EventsOf
  <2>3. a \notin Completions(j) /\ n \notin EventsOf(j) /\ Completions(j) \subseteq EventsOf(j) /\ a \in EventsOf(j)
    <3>1. \A e \in Completions(j) : e.type = "JOB_COMPLETED"
      BY EventFields DEF Completions
    <3> QED
      BY <3>1, EventFields, AboutOthers DEF EventsOf
  <2> HIDE DEF n
  <2>4. /\ ToSet(q) = ToSet(mailbox) \cup {a} /\ AtMostOne(q, {a}) /\ AtMostOne(q, Completions(j))
    <3> HIDE DEF a
    <3> QED
      BY <1>1, <1>2, <2>2, <2>3, OneMore
  <2> HIDE DEF a, q
  <2>5. /\ ToSet(Append(q, n)) = ToSet(q) \cup {n}
        /\ AtMostOne(Append(q, n), {a}) /\ AtMostOne(Append(q, n), Completions(j))
    BY <1>2, <2>3, <2>4, OneMore
  <2>6. /\ a \in ToSet(Inbox') /\ ToSet(Inbox') \cap Completions(j) = {}
        /\ AtMostOne(Inbox', {a}) /\ AtMostOne(Inbox', Completions(j))
    BY <1>1, <1>3, <2>2, <2>3, <2>4, <2>5
  <2>7. Fresh(j)'
    BY <1>1, <2>1 DEF Fresh
  <2>8. Incoming(j)'
    BY <2>1, <2>6, <2>7, Primed DEF a
  <2>9. Outgoing(j)'
    BY <1>1, <2>1, Primed DEF JobInv, Outgoing
  <2>10. Table(j)'
    BY <1>1, <2>1 DEF JobInv, Table
  <2>11. Wished(j)'
    BY <2>1, <2>6, Primed DEF a
  <2> QED
    BY <2>8, <2>9, <2>10, <2>11 DEF JobInv
<1> QED
  BY <1>5, <1>6

\* A job completes by itself.
LEMMA CompleteJob ==
  ASSUME TypeInv, \A k \in Job : JobInv(k), NEW j \in Job, NEW o \in Outcomes, SimComplete(j, o), phase' = phase
  PROVE  \A k \in Job : JobInv(k)'
<1>1. /\ Inbox = mailbox /\ Inbox' = mailbox' /\ Outbox' = Outbox /\ mailbox \in Seq(SimEvent)
      /\ truth[j] = "running" /\ truth' = [truth EXCEPT ![j] = "done"]
      /\ mailbox' = Append(mailbox, JobCompleted(j, o))
      /\ UNCHANGED <<registration, ack_of_dynamic_jobs, state, jobs_manually_changed, job_state>>
  BY Boxes DEF SimComplete, Waiting, TypeInv, loop_vars, api_vars, job_vars
<1> DEFINE a == JobCompleted(j, o)
<1>2. a \in SimEvent /\ a \in Completions(j) /\ a # Submitted(j)
  BY EventsExist, EventFields
<1>3. truth \in [Job -> {"absent", "queued", "running", "changed", "done", "rejected"}]
  BY DEF TypeInv, TypeOK, SimTypeOK
<1>4. ASSUME NEW k \in Job, k # j PROVE JobInv(k)'
  <2>1. StatusKept(k)
    BY <1>1, <1>3, <1>4 DEF StatusKept
  <2>2. a \notin EventsOf(k)
    BY <1>4, AboutOthers
  <2> QED
    BY <1>1, <1>2, <2>1, <2>2, Bystander
<1>5. JobInv(j)'
  <2>1. /\ truth'[j] = "done" /\ job_state'[j] = job_state[j] /\ state'[j] = "RUNNING"
        /\ state[j] = "RUNNING" /\ job_state[j] \notin Ended
    BY <1>1, <1>3 DEF JobInv, Table, Wished
  <2>2. Submitted(j) \notin ToSet(mailbox) /\ ToSet(mailbox) \cap Completions(j) = {}
    BY <1>1 DEF JobInv, Incoming
  <2> HIDE DEF a
  <2>3. /\ ToSet(mailbox') = ToSet(mailbox) \cup {a}
        /\ AtMostOne(mailbox', {Submitted(j)}) /\ AtMostOne(mailbox', Completions(j))
    <3>1. AtMostOne(mailbox, {Submitted(j)}) /\ AtMostOne(mailbox, Completions(j))
      BY <1>1 DEF JobInv, Incoming
    <3>2. mailbox' = Append(mailbox, a)
      BY <1>1 DEF a
    <3> QED
      BY <1>1, <1>2, <2>2, <3>1, <3>2, OneMore
  <2>4. Incoming(j)'
    BY <1>1, <1>2, <2>1, <2>2, <2>3, Primed
  <2>5. Outgoing(j)'
    BY <1>1, <2>1, Primed DEF JobInv, Outgoing
  <2>6. Table(j)'
    BY <1>1, <2>1 DEF JobInv, Table, Touched
  <2>7. Wished(j)'
    BY <1>1, <1>2, <2>1, <2>3, Primed
  <2> QED
    BY <2>4, <2>5, <2>6, <2>7 DEF JobInv
<1> QED
  BY <1>4, <1>5

\* Jobs are killed.
LEMMA KillRunning ==
  ASSUME ConstantsAssumption, TypeInv, \A k \in Job : JobInv(k), InjectKill, phase' = phase
  PROVE  \A k \in Job : JobInv(k)'
<1>1. PICK K \in SUBSET Job, hit \in SUBSET Job, b \in Seq(SimEvent) :
        /\ commands # <<>> /\ Head(commands) = Killing(K) /\ commands' = Tail(commands)
        /\ hit = {j \in K : truth[j] = "running"}
        /\ truth' = [j \in Job |-> IF j \in hit THEN "done" ELSE truth[j]] /\ batsim' = batsim
        /\ ToSet(b) = {JobCompleted(j, "COMPLETED_KILLED") : j \in hit}
        /\ \A j \in Job : AtMostOne(b, Completions(j))
        /\ mailbox' = Append(mailbox \o b, Killed(K, hit))
  BY KillEffect
<1>2. /\ Inbox = mailbox /\ Inbox' = mailbox' /\ Outbox = commands /\ Outbox' = commands'
      /\ mailbox \in Seq(SimEvent) /\ commands \in Seq(ApiCommand)
      /\ UNCHANGED <<registration, ack_of_dynamic_jobs, state, jobs_manually_changed, job_state>>
  BY Boxes DEF InjectKill, Injecting, Injected, Waiting, TypeInv, loop_vars, api_vars
<1> DEFINE q == mailbox \o b
           e == Killed(K, hit)
<1>3. /\ q \in Seq(SimEvent) /\ ToSet(q) = ToSet(mailbox) \cup ToSet(b) /\ e \in SimEvent
  <2>1. e \in SimEvent
    BY EventsExist
  <2> QED
    BY <1>2, <2>1, SeveralMore
<1>4. mailbox' = Append(q, e)
  BY <1>1
<1>5. ASSUME NEW k \in Job PROVE Outgoing(k)'
  <2>1. Registering(k) \in ToSet(Outbox') => truth'[k] = truth[k]
    <3>1. Registering(k) \in ToSet(Outbox') => Registering(k) \in ToSet(Outbox)
      BY <1>1, <1>2, HeadGone
    <3>2. Registering(k) \in ToSet(Outbox) => truth[k] = "absent"
      BY DEF JobInv, Outgoing
    <3> QED
      BY <1>1, <3>1, <3>2
  <2> QED
    BY <1>1, <1>2, <2>1, FrameTail
<1>6. ASSUME NEW k \in Job PROVE Incoming(k)' /\ Table(k)' /\ Wished(k)'
  <2>1. e \notin EventsOf(k)
    BY AboutOthers
  <2>2. CASE k \notin hit
    <3>1. StatusKept(k)
      BY <1>1, <1>2, <2>2 DEF StatusKept
    <3>2. ToSet(b) \cap EventsOf(k) = {}
      <4> SUFFICES ASSUME NEW x \in ToSet(b) PROVE x \notin EventsOf(k)
        OBVIOUS
      <4>1. PICK j \in hit : x = JobCompleted(j, "COMPLETED_KILLED")
        BY <1>1
      <4> QED
        BY <2>2, <4>1, AboutOthers
    <3>3. SameIn(mailbox, q, k)
      BY <1>1, <1>2, <3>2, SameInSeveral
    <3> HIDE DEF q, e
    <3>4. SameIn(q, mailbox', k)
      BY <1>3, <1>4, <2>1, SameInStep
    <3>5. SameIn(Inbox, Inbox', k)
      BY <1>2, <3>3, <3>4 DEF SameIn
    <3> QED
      BY <1>2, <3>1, <3>5, FrameIn
  <2>3. CASE k \in hit
    <3> DEFINE a == JobCompleted(k, "COMPLETED_KILLED")
    <3>1. /\ truth[k] = "running" /\ truth'[k] = "done" /\ state[k] = "RUNNING" /\ job_state[k] \notin Ended
      BY <1>1, <2>3 DEF JobInv, Table, Wished
    <3>2. /\ Submitted(k) \notin ToSet(mailbox) /\ ToSet(mailbox) \cap Completions(k) = {}
          /\ AtMostOne(mailbox, Completions(k))
      BY <1>2, <3>1 DEF JobInv, Incoming
    <3>3. a \in Completions(k) /\ a \in ToSet(b) /\ Submitted(k) \notin ToSet(b)
      BY <1>1, <2>3, EventsExist, EventFields
    <3>4. Submitted(k) \notin ToSet(q) /\ AtMostOne(q, Completions(k)) /\ a \in ToSet(q)
      BY <1>1, <1>2, <1>3, <3>2, <3>3, SeveralMore
    <3>5. e # Submitted(k) /\ e \notin Completions(k)
      BY <2>1 DEF EventsOf
    <3> HIDE DEF q, e, a
    <3>6. ToSet(mailbox') = ToSet(q) \cup {e} /\ AtMostOne(mailbox', Completions(k))
      BY <1>3, <1>4, <3>4, <3>5, OneMore
    <3>7. AtMostOne(mailbox', {Submitted(k)})
      <4>1. mailbox' \in Seq(SimEvent)
        BY <1>3, <1>4, OneMore
      <4> QED
        BY <3>4, <3>5, <3>6, <4>1, Members
    <3>8. Incoming(k)'
      BY <1>2, <3>1, <3>4, <3>5, <3>6, <3>7, Primed
    <3>9. Table(k)'
      BY <1>2, <3>1 DEF JobInv, Table, Touched
    <3>10. Wished(k)'
      BY <1>2, <3>1, <3>3, <3>4, <3>6, Primed
    <3> QED
      BY <3>8, <3>9, <3>10
  <2> QED
    BY <2>2, <2>3
<1> QED
  BY <1>5, <1>6 DEF JobInv

\* A command about one job is obeyed, or makes the simulator abort.
LEMMA ObeyOne ==
  ASSUME TypeInv, InjectExecute \/ InjectReject \/ InjectChange
  PROVE  \E j \in Job, from \in {"queued", "changed"}, to \in {"running", "rejected", "changed", "done"} :
           /\ commands # <<>> /\ Head(commands).jobs = {j} /\ Head(commands) \in ToSet(commands)
           /\ \/ Head(commands) = Executing(j) /\ from = "queued" /\ to = "running"
              \/ Head(commands) = Rejecting(j) /\ from = "queued" /\ to = "rejected"
              \/ Head(commands) = Marking(j) /\ from = "queued" /\ to = "changed"
              \/ Head(commands) = Completing(j) /\ from = "changed" /\ to = "done"
           /\ commands' = Tail(commands) /\ mailbox' = mailbox
           /\ IF truth[j] = from THEN truth' = [truth EXCEPT ![j] = to] /\ batsim' = batsim
                                 ELSE truth' = truth /\ batsim' = "aborted"
<1> DEFINE c == Head(commands)
<1>1. /\ commands # <<>> /\ c \in ApiCommand /\ c \in ToSet(commands)
      /\ commands' = Tail(commands) /\ mailbox' = mailbox
      /\ c.type \in {"EXECUTE_JOB", "REJECT_JOB", "CHANGE_JOB_STATE"}
  <2>1. commands # <<>> /\ commands \in Seq(ApiCommand)
    BY DEF InjectExecute, InjectReject, InjectChange, Injecting, TypeInv
  <2>2. c \in ApiCommand /\ c \in ToSet(commands)
    BY <2>1, HeadGone
  <2> QED
    BY <2>1, <2>2 DEF InjectExecute, InjectReject, InjectChange, Injecting, Injected
<1>2. CASE InjectExecute
  <2>1. PICK j \in Job : c = Executing(j)
    BY <1>1, <1>2, CommandKinds DEF InjectExecute, Injecting
  <2>2. c.jobs = {j} /\ Move(c, "queued", "running")
    BY <1>2, <2>1, CommandFields DEF InjectExecute
  <2> QED
    BY <1>1, <2>1, <2>2, MoveOne
<1>3. CASE InjectReject
  <2>1. PICK j \in Job : c = Rejecting(j)
    BY <1>1, <1>3, CommandKinds DEF InjectReject, Injecting
  <2>2. c.jobs = {j} /\ Move(c, "queued", "rejected")
    BY <1>3, <2>1, CommandFields DEF InjectReject
  <2> QED
    BY <1>1, <2>1, <2>2, MoveOne
<1>4. CASE InjectChange
  <2>0. c.type = "CHANGE_JOB_STATE"
    BY <1>4 DEF InjectChange, Injecting
  <2>1. PICK j \in Job : \/ c = Marking(j) /\ c.value = "RUNNING"
                         \/ c = Completing(j) /\ c.value # "RUNNING"
    BY <1>1, <2>0, CommandKinds
  <2>2. c.jobs = {j}
    BY <2>1, CommandFields
  <2>3. CASE c = Marking(j) /\ c.value = "RUNNING"
    <3>1. Move(c, "queued", "changed")
      BY <1>4, <2>3 DEF InjectChange
    <3>2. IF truth[j] = "queued" THEN truth' = [truth EXCEPT ![j] = "changed"] /\ batsim' = batsim
                                ELSE truth' = truth /\ batsim' = "aborted"
      BY <2>2, <3>1, MoveOne
    <3> QED
      BY <1>1, <2>2, <2>3, <3>2
  <2>4. CASE c = Completing(j) /\ c.value # "RUNNING"
    <3>1. Move(c, "changed", "done")
      BY <1>4, <2>4 DEF InjectChange
    <3>2. IF truth[j] = "changed" THEN truth' = [truth EXCEPT ![j] = "done"] /\ batsim' = batsim
                                 ELSE truth' = truth /\ batsim' = "aborted"
      BY <2>2, <3>1, MoveOne
    <3> QED
      BY <1>1, <2>2, <2>4, <3>2
  <2> QED
    BY <2>1, <2>3, <2>4
<1> QED
  BY <1>2, <1>3, <1>4

\* The first layer is kept when the simulator executes, rejects or changes a
\* job.
LEMMA ObeyJobs ==
  ASSUME TypeInv, \A k \in Job : JobInv(k), InjectExecute \/ InjectReject \/ InjectChange, phase' = phase
  PROVE  \A k \in Job : JobInv(k)'
<1>1. PICK j \in Job, from \in {"queued", "changed"}, to \in {"running", "rejected", "changed", "done"} :
        /\ commands # <<>> /\ Head(commands).jobs = {j} /\ Head(commands) \in ToSet(commands)
        /\ \/ Head(commands) = Executing(j) /\ from = "queued" /\ to = "running"
           \/ Head(commands) = Rejecting(j) /\ from = "queued" /\ to = "rejected"
           \/ Head(commands) = Marking(j) /\ from = "queued" /\ to = "changed"
           \/ Head(commands) = Completing(j) /\ from = "changed" /\ to = "done"
        /\ commands' = Tail(commands) /\ mailbox' = mailbox
        /\ IF truth[j] = from THEN truth' = [truth EXCEPT ![j] = to] /\ batsim' = batsim
                              ELSE truth' = truth /\ batsim' = "aborted"
  BY ObeyOne
<1>2. /\ Inbox = mailbox /\ Inbox' = mailbox' /\ Outbox = commands /\ Outbox' = commands'
      /\ mailbox \in Seq(SimEvent) /\ commands \in Seq(ApiCommand)
      /\ UNCHANGED <<registration, ack_of_dynamic_jobs, state, jobs_manually_changed, job_state>>
  BY Boxes DEF InjectExecute, InjectReject, InjectChange, Injecting, Injected, Waiting, TypeInv, loop_vars, api_vars
<1>3. truth \in [Job -> {"absent", "queued", "running", "changed", "done", "rejected"}]
  BY DEF TypeInv, TypeOK, SimTypeOK
<1>4. ASSUME NEW k \in Job, truth'[k] = truth[k] PROVE JobInv(k)'
  <2>1. StatusKept(k)
    BY <1>2, <1>4 DEF StatusKept
  <2>2. Incoming(k)' /\ Table(k)' /\ Wished(k)'
    BY <1>1, <1>2, <2>1, SameInStep, FrameIn
  <2>3. Outgoing(k)'
    BY <1>1, <1>2, <1>4, FrameTail
  <2> QED
    BY <2>2, <2>3 DEF JobInv
<1>5. ASSUME truth[j] = from, truth' = [truth EXCEPT ![j] = to] PROVE JobInv(j)'
  <2>1. truth'[j] = to
    BY <1>3, <1>5
  <2>2. /\ from = "queued" => ToSet(Inbox) \cap Completions(j) = {}
        /\ from = "changed" => ToSet(Inbox) \cap Completions(j) = {} /\ Submitted(j) \notin ToSet(Inbox)
    BY <1>1, <1>5 DEF JobInv, Incoming
  <2>3. /\ to = "running" => state[j] = "RUNNING"
        /\ to = "rejected" => state[j] = "REJECTED"
        /\ to \in {"changed", "done"} => j \in jobs_manually_changed
    BY <1>1, <1>2 DEF JobInv, Outgoing
  <2>4. Touched(j) /\ Submitted(j) \notin ToSet(Inbox) /\ ToSet(Inbox) \cap Completions(j) = {}
    BY <1>1, <1>5, <2>2, <2>3 DEF JobInv, Incoming, Fresh, Touched
  <2>5. job_state[j] \notin Ended
    BY <1>1, <1>5 DEF JobInv, Table
  <2>6. Registering(j) \notin ToSet(Outbox')
    <3>1. Registering(j) \in ToSet(Outbox') => Registering(j) \in ToSet(Outbox)
      BY <1>1, <1>2, HeadGone
    <3> QED
      BY <1>1, <1>5, <3>1 DEF JobInv, Outgoing
  <2>7. Outgoing(j)'
    BY <1>1, <1>2, <2>6, FrameTail
  <2>8. Incoming(j)'
    BY <1>1, <1>2, <2>4, Primed DEF JobInv, Incoming
  <2>9. Touched(j)' <=> Touched(j)
    BY <1>2 DEF Touched
  <2>10. Table(j)'
    BY <1>1, <1>2, <2>1, <2>4, <2>5, <2>9 DEF JobInv, Table
  <2>11. Wished(j)'
    BY <1>1, <1>2, <2>1, <2>3, <2>4, <2>9, Primed DEF JobInv, Wished
  <2> QED
    BY <2>7, <2>8, <2>10, <2>11 DEF JobInv
<1>6. CASE truth[j] = from
  <2>1. \A k \in Job : k # j => truth'[k] = truth[k]
    BY <1>1, <1>3, <1>6
  <2> QED
    BY <1>1, <1>4, <1>5, <1>6, <2>1
<1>7. CASE truth[j] # from
  BY <1>1, <1>4, <1>7
<1> QED
  BY <1>6, <1>7

\* A registration reaches the simulator.
LEMMA RegisterNow ==
  ASSUME ConstantsAssumption, LoopInv, InjectRegister, phase' = phase
  PROVE  \A k \in Job : JobInv(k)'
<1>0. TypeInv /\ \A k \in Job : JobInv(k)
  BY DEF LoopInv, WayInv
<1>1. PICK j \in Dynamic :
        /\ commands # <<>> /\ Head(commands) = Registering(j) /\ commands' = Tail(commands)
        /\ Registering(j) \in ToSet(Outbox) /\ truth[j] = "absent"
        /\ truth' = [truth EXCEPT ![j] = "queued"] /\ batsim' = batsim
        /\ mailbox' = IF ack_of_dynamic_jobs THEN Append(mailbox, Submitted(j)) ELSE mailbox
  BY RegisterEffect
<1>2. /\ Inbox = mailbox /\ Inbox' = mailbox' /\ Outbox = commands /\ Outbox' = commands'
      /\ mailbox \in Seq(SimEvent) /\ commands \in Seq(ApiCommand) /\ j \in Job
      /\ UNCHANGED <<registration, ack_of_dynamic_jobs, state, jobs_manually_changed, job_state>>
  BY <1>0, Boxes DEF InjectRegister, Injecting, Injected, Waiting, TypeInv, loop_vars, api_vars, Job
<1>3. /\ truth \in [Job -> {"absent", "queued", "running", "changed", "done", "rejected"}]
      /\ job_state \in [Job -> JobState \cup {"NONE"}] /\ state \in [Job -> {"NONE", "RUNNING", "REJECTED"}]
  BY <1>0 DEF TypeInv, TypeOK, SimTypeOK, JobTypeOK, ApiTypeOK
<1> DEFINE a == Submitted(j)
<1>4. a \in SimEvent
  BY <1>2, EventsExist
<1>5. ASSUME NEW k \in Job, k # j PROVE JobInv(k)'
  <2>1. StatusKept(k)
    BY <1>1, <1>2, <1>3, <1>5 DEF StatusKept
  <2>2. a \notin EventsOf(k) /\ Head(commands) \notin CommandsOf(k)
    BY <1>1, <1>5, AboutOthers
  <2>3. JobInv(k)
    BY <1>0
  <2> QED
    BY <1>0, <1>1, <1>2, <1>4, <2>1, <2>2, <2>3, Bystander
<1>6. JobInv(j)'
  <2>1. /\ truth'[j] = "queued" /\ job_state'[j] = job_state[j] /\ state'[j] = state[j]
        /\ Touched(j)' <=> Touched(j)
        /\ Fresh(j)' <=> Fresh(j)
    BY <1>1, <1>2, <1>3 DEF Touched, Fresh
  <2>2. Outgoing(j)'
    <3>1. Registering(j) \notin ToSet(Outbox')
      <4>1. AtMostOne(commands, {Registering(j)})
        BY <1>0, <1>2 DEF JobInv, Outgoing
      <4> QED
        BY <1>1, <1>2, <4>1, HeadGone
    <3> QED
      BY <1>0, <1>1, <1>2, <3>1, FrameTail
  <2>3. Table(j)'
    BY <1>0, <1>1, <1>2, <2>1, ConstantsAssumption DEF JobInv, Table, Outgoing, ConstantsAssumption
  <2>4. Submitted(j) \notin ToSet(mailbox) /\ ToSet(mailbox) \cap Completions(j) = {} /\ a \notin Completions(j)
    <3>1. \A e \in Completions(j) : e.type = "JOB_COMPLETED"
      BY EventFields DEF Completions
    <3> QED
      BY <1>0, <1>1, <1>2, <3>1, EventFields DEF JobInv, Incoming
  <2>5. CASE ack_of_dynamic_jobs
    <3>1. Fresh(j)
      BY <1>0, <1>1, <1>2, <2>5 DEF JobInv, Outgoing
    <3>2. AtMostOne(mailbox, {a}) /\ AtMostOne(mailbox, Completions(j))
      BY <1>0, <1>2 DEF JobInv, Incoming
    <3>3. mailbox' = Append(mailbox, a)
      BY <1>1, <2>5
    <3>4. /\ ToSet(mailbox') = ToSet(mailbox) \cup {a}
          /\ AtMostOne(mailbox', {a}) /\ AtMostOne(mailbox', Completions(j))
      <4> HIDE DEF a
      <4>1. ToSet(mailbox) \cap {a} = {}
        BY <2>4 DEF a
      <4>2. ToSet(Append(mailbox, a)) = ToSet(mailbox) \cup {a}
        BY <1>2, <1>4, OneMore
      <4>3. AtMostOne(Append(mailbox, a), {a})
        BY <1>2, <1>4, <3>2, <4>1, OneMore
      <4>4. a \notin Completions(j)
        BY <2>4 DEF a
      <4>5. AtMostOne(Append(mailbox, a), Completions(j))
        BY <1>2, <1>4, <3>2, <4>4, OneMore
      <4> QED
        BY <3>3, <4>2, <4>3, <4>5
    <3>5. /\ Submitted(j) \in ToSet(Inbox') /\ ToSet(Inbox') \cap Completions(j) = {}
          /\ AtMostOne(Inbox', {Submitted(j)}) /\ AtMostOne(Inbox', Completions(j))
      BY <1>2, <2>4, <3>4
    <3>6. Fresh(j)' /\ j \in Job
      BY <1>2, <2>1, <3>1
    <3>7. Incoming(j)'
      BY <2>1, <3>5, <3>6, Primed
    <3>8. Wished(j)'
      BY <2>1, <3>5, <3>6, Primed
    <3> QED
      BY <2>2, <2>3, <3>7, <3>8 DEF JobInv
  <2>6. CASE ~ack_of_dynamic_jobs
    <3>1. mailbox' = mailbox
      BY <1>1, <2>6
    <3>2. Incoming(j)'
      BY <1>0, <1>2, <2>4, <3>1, Primed DEF JobInv, Incoming
    <3>3. job_state[j] # "NONE" /\ job_state[j] \notin Ended /\ job_state[j] \notin {"RUNNING", "REJECTED"}
      BY <1>0, <1>1, <1>2 DEF JobInv, Outgoing, Table
    <3>4. ~Touched(j)' => Untouched(j)'
      <4> SUFFICES ASSUME ~Touched(j) PROVE Untouched(j)'
        BY <2>1
      <4>1. state[j] = "NONE" /\ j \notin jobs_manually_changed
        BY DEF Touched
      <4>2. job_state[j] # "IN_KILLING"
        BY <1>0, <1>2, <4>1 DEF JobInv, Table
      <4>3. job_state[j] \in {"SUBMITTED", "IN_SUBMISSON"}
        BY <1>2, <1>3, <3>3, <4>2 DEF JobState, Ended
      <4>4. ~ack_of_dynamic_jobs'
        BY <1>2, <2>6
      <4> QED
        BY <1>2, <4>1, <4>3, <4>4 DEF Untouched
    <3>5. Wished(j)'
      BY <1>2, <2>1, <3>4, Primed
    <3> QED
      BY <2>2, <2>3, <3>2, <3>5 DEF JobInv
  <2> QED
    BY <2>5, <2>6
<1> QED
  BY <1>5, <1>6

\* The job table and the messages stay in step while the simulator acts.
LEMMA SimJobs ==
  ASSUME ConstantsAssumption, LoopInv, Sim
  PROVE  \A k \in Job : JobInv(k)'
<1>1. /\ TypeInv /\ Alternating /\ \A k \in Job : JobInv(k)
  BY DEF LoopInv, WayInv
<1>2. /\ phase = "recv" /\ phase' = phase /\ Inbox = mailbox /\ Inbox' = mailbox'
      /\ Outbox = commands /\ Outbox' = commands'
      /\ UNCHANGED <<ack_of_dynamic_jobs, state, jobs_manually_changed, job_state>>
  BY SimBoxes DEF loop_vars, api_vars
<1>3. CASE SimTick
  <2>1. UNCHANGED <<truth, registration, mailbox, commands>>
    BY <1>3 DEF SimTick, sim_vars
  <2>2. \A k \in Job : StatusKept(k)
    BY <1>2, <2>1 DEF StatusKept
  <2> QED
    BY <1>1, <1>2, <2>1, <2>2, Bystander
<1>4. ASSUME NEW e \in {Ends, Signal("REQUESTED_CALL")}, mailbox' = Append(mailbox, e),
             UNCHANGED <<truth, registration, commands>>
      PROVE  \A k \in Job : JobInv(k)'
  <2>1. \A k \in Job : StatusKept(k)
    BY <1>2, <1>4 DEF StatusKept
  <2>2. e \in SimEvent /\ \A k \in Job : e \notin EventsOf(k)
    BY EventsExist, AboutOthers DEF Ends
  <2> QED
    BY <1>1, <1>2, <1>4, <2>1, <2>2, Bystander
<1>5. CASE SimCall
  BY <1>4, <1>5 DEF SimCall
<1>6. CASE SimEnd
  <2>1. mailbox = <<>> /\ mailbox' = <<Ends>> /\ UNCHANGED <<truth, registration, commands>>
    BY <1>6 DEF SimEnd, Finished, Ends
  <2>2. mailbox' = Append(mailbox, Ends)
    BY <2>1
  <2> QED
    BY <1>4, <2>1, <2>2
<1>7. CASE InjectNotify \/ InjectCallMeLater
  <2> DEFINE c == Head(commands)
  <2>1. /\ commands # <<>> /\ commands \in Seq(ApiCommand) /\ commands' = Tail(commands)
        /\ UNCHANGED <<truth, mailbox>>
        /\ \/ c.type = "NOTIFY"
           \/ c.type = "CALL_ME_LATER" /\ registration' = registration
    BY <1>1, <1>7 DEF InjectNotify, InjectCallMeLater, Injecting, TypeInv
  <2>2. c \in ApiCommand
    BY <2>1, HeadGone
  <2>3. \/ c = Notice
        \/ c = WakeUp /\ registration' = registration
    BY <2>1, <2>2, CommandKinds
  <2>4. \A k \in Job : StatusKept(k)
    BY <1>2, <2>1 DEF StatusKept
  <2>5. ASSUME NEW k \in Job PROVE c \notin CommandsOf(k)
    BY <2>3, AboutOthers
  <2>6. ASSUME NEW k \in Job PROVE registration' = registration \/ Registering(k) \notin ToSet(Outbox')
    <3>1. AllBefore(commands, Registering(k), Notice)
      BY <1>1, <1>2 DEF JobInv, Outgoing
    <3> QED
      BY <1>2, <2>1, <2>3, <3>1, HeadGone
  <2> QED
    BY <1>1, <1>2, <2>1, <2>4, <2>5, <2>6, Bystander
<1> QED
  BY <1>1, <1>2, <1>3, <1>5, <1>6, <1>7, SubmitJob, CompleteJob, KillRunning, ObeyJobs, RegisterNow DEF Sim, Inject

\* A submission is dispatched.
LEMMA SubmittedDispatched ==
  ASSUME ConstantsAssumption, LoopInv, DispatchJobSubmitted
  PROVE  \E j \in Job :
           /\ Inbox # <<>> /\ Head(Inbox) = Submitted(j) /\ Inbox' = Tail(Inbox) /\ Outbox' = Outbox
           /\ Submitted(j) \in ToSet(Inbox) /\ Submitted(j) \notin ToSet(Inbox')
           /\ nb' = CountSubmission(job_state[j] # "NONE", job_state[j] = "IN_SUBMISSON")
           /\ job_state' = [job_state EXCEPT ![j] = "SUBMITTED"]
           /\ state' = [state EXCEPT ![j] = "NONE"]
           /\ UNCHANGED <<truth, registration, ack_of_dynamic_jobs, jobs_manually_changed, initialised>>
<1>1. /\ Dispatching("JOB_SUBMITTED") /\ phase' = "handler" /\ events' = events /\ events_to_send' = events_to_send
      /\ UNCHANGED <<truth, registration, ack_of_dynamic_jobs, jobs_manually_changed, initialised>>
  BY DEF DispatchJobSubmitted, sim_vars
<1>2. /\ Inbox = events /\ Inbox # <<>> /\ Head(Inbox).type = "JOB_SUBMITTED" /\ Inbox' = Tail(Inbox)
      /\ Outbox' = Outbox /\ Inbox \in Seq(SimEvent)
  BY <1>1, DispatchBoxes, BoxTypes DEF LoopInv
<1>3. Head(Inbox) \in SimEvent /\ Head(Inbox) \in ToSet(Inbox)
  BY <1>2, HeadGone
<1>4. PICK j \in Job : Head(Inbox) = Submitted(j)
  BY <1>2, <1>3, EventKinds
<1>5. Head(events).jobs = {j}
  BY <1>2, <1>4, EventFields
<1>6. /\ nb' = CountSubmission(job_state[j] # "NONE", job_state[j] = "IN_SUBMISSON")
      /\ job_state' = [job_state EXCEPT ![j] = "SUBMITTED"]
      /\ state' = [state EXCEPT ![j] = "NONE"]
  BY <1>5 DEF DispatchJobSubmitted
<1>7. Submitted(j) \notin ToSet(Inbox')
  <2>1. AtMostOne(Inbox, {Submitted(j)})
    BY DEF LoopInv, WayInv, JobInv, Incoming
  <2> QED
    BY <1>2, <1>4, <2>1, HeadGone
<1> QED
  BY <1>1, <1>2, <1>3, <1>4, <1>6, <1>7

\* A completion is dispatched: the job has come to an end, in one of the ways
\* a job can.
LEMMA CompletionDispatched ==
  ASSUME ConstantsAssumption, LoopInv, DispatchJobCompleted
  PROVE  \E j \in Job, o \in Outcomes \cup {"COMPLETED_KILLED"} :
           /\ Inbox # <<>> /\ Head(Inbox) = JobCompleted(j, o) /\ Inbox' = Tail(Inbox) /\ Outbox' = Outbox
           /\ Head(Inbox) \in ToSet(Inbox) \cap Completions(j) /\ ToSet(Inbox') \cap Completions(j) = {}
           /\ job_state' = [job_state EXCEPT ![j] = StateNamed(o)] /\ StateNamed(o) \in Ended
           /\ o = "COMPLETED_KILLED" <=> StateNamed(o) = "COMPLETED_KILLED"
           /\ nb' = CountCompletion(StateNamed(o))
           /\ UNCHANGED <<truth, registration, ack_of_dynamic_jobs, jobs_manually_changed, state, initialised>>
<1>1. /\ Dispatching("JOB_COMPLETED") /\ phase' = "handler" /\ events' = events /\ events_to_send' = events_to_send
      /\ UNCHANGED <<truth, registration, ack_of_dynamic_jobs, jobs_manually_changed, state, initialised>>
  BY DEF DispatchJobCompleted, sim_vars, api_vars
<1>2. /\ Inbox = events /\ Inbox # <<>> /\ Head(Inbox).type = "JOB_COMPLETED" /\ Inbox' = Tail(Inbox)
      /\ Outbox' = Outbox /\ Inbox \in Seq(SimEvent)
  BY <1>1, DispatchBoxes, BoxTypes DEF LoopInv
<1>3. Head(Inbox) \in SimEvent /\ Head(Inbox) \in ToSet(Inbox)
  BY <1>2, HeadGone
<1>4. PICK j \in Job, o \in Outcomes \cup {"COMPLETED_KILLED"} : Head(Inbox) = JobCompleted(j, o)
  BY <1>2, <1>3, EventKinds
<1>5. Head(events).jobs = {j} /\ Head(events).state = o /\ Head(Inbox) \in Completions(j)
  BY <1>2, <1>4, EventFields, EventsExist
<1>6. job_state' = [job_state EXCEPT ![j] = StateNamed(o)] /\ nb' = CountCompletion(StateNamed(o))
  BY <1>5 DEF DispatchJobCompleted
<1>7. ToSet(Inbox') \cap Completions(j) = {}
  <2>1. AtMostOne(Inbox, Completions(j))
    BY DEF LoopInv, WayInv, JobInv, Incoming
  <2> QED
    BY <1>2, <1>5, <2>1, HeadGone
<1>8. StateNamed(o) \in Ended /\ (o = "COMPLETED_KILLED" <=> StateNamed(o) = "COMPLETED_KILLED")
  <2>1. CASE o = "COMPLETED_KILLED"
    BY <2>1 DEF StateNamed, Ended, Completed, JobState
  <2>2. CASE o \in Outcomes /\ o \in JobState
    BY <2>2, ConstantsAssumption DEF ConstantsAssumption, StateNamed, Ended
  <2>3. CASE o \notin JobState
    BY <2>3 DEF StateNamed, Ended, JobState, Completed
  <2> QED
    BY <2>1, <2>2, <2>3
<1> QED
  BY <1>1, <1>2, <1>3, <1>4, <1>5, <1>6, <1>7, <1>8

\* The first layer is kept when an event changes the job table.
LEMMA DispatchJobs ==
  ASSUME ConstantsAssumption, LoopInv, Dispatch
  PROVE  \A k \in Job : JobInv(k)'
<1>1. /\ TypeInv /\ Alternating /\ \A k \in Job : JobInv(k)
  BY DEF LoopInv, WayInv
<1>2. /\ job_state \in [Job -> JobState \cup {"NONE"}] /\ state \in [Job -> {"NONE", "RUNNING", "REJECTED"}]
      /\ Inbox \in Seq(SimEvent) /\ events \in Seq(SimEvent)
  BY <1>1, BoxTypes DEF TypeInv, TypeOK, JobTypeOK, ApiTypeOK
<1>3. CASE DispatchSimulationBegins
  <2>1. /\ Dispatching("SIMULATION_BEGINS") /\ phase' = "handler" /\ events' = events
        /\ UNCHANGED <<events_to_send, truth, job_state, state, jobs_manually_changed>>
    BY <1>3 DEF DispatchSimulationBegins, sim_vars, api_vars, job_vars
  <2>2. ~initialised
    BY <2>1, FirstMessage
  <2>3. /\ Inbox # <<>> /\ Inbox' = Tail(Inbox) /\ Outbox' = events_to_send
    BY <2>1, DispatchBoxes
  <2>4. /\ Inbox = <<Begins>> /\ events_to_send = <<>>
        /\ \A k \in Job : truth[k] = "absent" /\ job_state[k] = "NONE" /\ state[k] = "NONE"
        /\ jobs_manually_changed = {}
    BY <2>2, <2>3 DEF LoopInv, WayInv, Starting
  <2>5. ToSet(Inbox') = {} /\ ToSet(Outbox') = {} /\ Inbox' \in Seq(SimEvent) /\ Outbox' \in Seq(ApiCommand)
    <3>1. Inbox' = <<>> /\ Outbox' = <<>>
      BY <2>3, <2>4
    <3> QED
      BY <3>1 DEF ToSet
  <2>6. ASSUME NEW k \in Job PROVE JobInv(k)'
    <3>1. ~Touched(k)'
      BY <2>1, <2>4 DEF Touched
    <3>2. /\ AtMostOne(Inbox', {Submitted(k)}) /\ AtMostOne(Inbox', Completions(k))
          /\ AtMostOne(Outbox', {Registering(k)}) /\ AllBefore(Outbox', Registering(k), Notice)
      BY <2>5, Members
    <3>3. Incoming(k)' /\ Outgoing(k)' /\ Wished(k)'
      BY <2>1, <2>4, <2>5, <3>2, Primed
    <3>4. Table(k)'
      BY <2>1, <2>4, <3>1 DEF Table, Ended, Completed
    <3> QED
      BY <3>3, <3>4 DEF JobInv
  <2> QED
    BY <2>6
<1>4. ASSUME NEW t, t \notin {"SIMULATION_BEGINS", "JOB_SUBMITTED", "JOB_COMPLETED"}, Dispatching(t),
             UNCHANGED <<events_to_send, truth, registration, ack_of_dynamic_jobs, job_state, state, jobs_manually_changed>>,
             \/ events' = events /\ phase' \in {"handler", "exception"}
             \/ events' = Tail(events) /\ phase' = "events"
      PROVE  \A k \in Job : JobInv(k)'
  <2>1. /\ Inbox = events /\ Inbox # <<>> /\ Outbox' = Outbox
        /\ Inbox' = Inbox \/ Inbox' = Tail(Inbox)
    BY <1>4, Boxes DEF Dispatching
  <2>2. \A k \in Job : StatusKept(k)
    BY <1>4 DEF StatusKept
  <2>3. ASSUME NEW k \in Job PROVE Head(Inbox) \notin EventsOf(k)
    <3>1. \A e \in EventsOf(k) : e.type \in {"JOB_SUBMITTED", "JOB_COMPLETED"}
      BY EventFields DEF EventsOf, Completions
    <3> QED
      BY <1>4, <2>1, <3>1 DEF Dispatching
  <2> QED
    BY <1>1, <1>4, <2>1, <2>2, <2>3, Bystander
<1>5. CASE DispatchSimulationEnds \/ DispatchRequestedCall \/ DispatchNotify
  <2>1. \E t : /\ t \notin {"SIMULATION_BEGINS", "JOB_SUBMITTED", "JOB_COMPLETED"} /\ Dispatching(t)
               /\ UNCHANGED <<events_to_send, truth, registration, ack_of_dynamic_jobs, job_state, state, jobs_manually_changed>>
               /\ events' = events /\ phase' = "handler"
    BY <1>5 DEF DispatchSimulationEnds, DispatchRequestedCall, DispatchNotify, sim_vars, api_vars, job_vars
  <2> QED
    BY <1>4, <2>1
<1>6. CASE DispatchJobKilled
  <2>1. /\ Dispatching("JOB_KILLED")
        /\ UNCHANGED <<events_to_send, truth, registration, ack_of_dynamic_jobs, job_state, state, jobs_manually_changed>>
        /\ \/ events' = events /\ phase' \in {"handler", "exception"}
           \/ events' = Tail(events) /\ phase' = "events"
    BY <1>6 DEF DispatchJobKilled, Dispatching, sim_vars, api_vars, job_vars
  <2> QED
    BY <1>4, <2>1
<1>7. CASE DispatchNoMoreEvents
  <2>1. /\ Inbox' = Inbox /\ Outbox' = Outbox
        /\ UNCHANGED <<truth, registration, ack_of_dynamic_jobs, job_state, state, jobs_manually_changed>>
    BY <1>7, Boxes DEF DispatchNoMoreEvents, sim_vars, api_vars, job_vars
  <2>2. \A k \in Job : StatusKept(k)
    BY <2>1 DEF StatusKept
  <2> QED
    BY <1>1, <2>1, <2>2, Bystander
<1>8. CASE DispatchJobSubmitted
  <2>1. PICK j \in Job :
           /\ Inbox # <<>> /\ Head(Inbox) = Submitted(j) /\ Inbox' = Tail(Inbox) /\ Outbox' = Outbox
           /\ Submitted(j) \in ToSet(Inbox) /\ Submitted(j) \notin ToSet(Inbox')
           /\ job_state' = [job_state EXCEPT ![j] = "SUBMITTED"]
           /\ state' = [state EXCEPT ![j] = "NONE"]
           /\ UNCHANGED <<truth, registration, ack_of_dynamic_jobs, jobs_manually_changed>>
    BY <1>8, SubmittedDispatched
  <2>2. ASSUME NEW k \in Job, k # j PROVE JobInv(k)'
    <3>1. StatusKept(k)
      BY <1>2, <2>1, <2>2 DEF StatusKept
    <3>2. Head(Inbox) \notin EventsOf(k)
      BY <2>1, <2>2, AboutOthers
    <3> QED
      BY <1>1, <2>1, <3>1, <3>2, Bystander
  <2>3. JobInv(j)'
    <3>1. truth[j] = "queued" /\ Fresh(j) /\ ~Touched(j) /\ ToSet(Inbox) \cap Completions(j) = {}
      BY <1>1, <2>1 DEF JobInv, Incoming, Fresh
    <3>2. job_state'[j] = "SUBMITTED" /\ state'[j] = "NONE" /\ j \notin jobs_manually_changed /\ ~Touched(j)'
      BY <1>2, <2>1, <3>1 DEF Touched
    <3>3. ToSet(Inbox') \subseteq ToSet(Inbox) /\ AtMostOne(Inbox', {Submitted(j)}) /\ AtMostOne(Inbox', Completions(j))
      <4>1. AtMostOne(Inbox, {Submitted(j)}) /\ AtMostOne(Inbox, Completions(j))
        BY <1>1 DEF JobInv, Incoming
      <4> QED
        BY <1>2, <2>1, <4>1, HeadGone
    <3>4. Incoming(j)'
      BY <2>1, <3>1, <3>3, Primed
    <3>5. Outgoing(j)'
      BY <1>1, <2>1, <3>1, Primed DEF JobInv, Outgoing, Touched
    <3>6. Table(j)'
      BY <2>1, <3>1, <3>2 DEF Table, Ended, Completed
    <3>7. Untouched(j)'
      BY <2>1, <3>2 DEF Untouched
    <3>8. Wished(j)'
      BY <2>1, <3>1, <3>7, Primed
    <3> QED
      BY <3>4, <3>5, <3>6, <3>8 DEF JobInv
  <2> QED
    BY <2>2, <2>3
<1>9. CASE DispatchJobCompleted
  <2>1. PICK j \in Job, o \in Outcomes \cup {"COMPLETED_KILLED"} :
           /\ Inbox # <<>> /\ Head(Inbox) = JobCompleted(j, o) /\ Inbox' = Tail(Inbox) /\ Outbox' = Outbox
           /\ Head(Inbox) \in ToSet(Inbox) \cap Completions(j) /\ ToSet(Inbox') \cap Completions(j) = {}
           /\ job_state' = [job_state EXCEPT ![j] = StateNamed(o)] /\ StateNamed(o) \in Ended
           /\ UNCHANGED <<truth, registration, ack_of_dynamic_jobs, jobs_manually_changed, state>>
    BY <1>9, CompletionDispatched
  <2>2. ASSUME NEW k \in Job, k # j PROVE JobInv(k)'
    <3>1. StatusKept(k)
      BY <1>2, <2>1, <2>2 DEF StatusKept
    <3>2. Head(Inbox) \notin EventsOf(k)
      <4>1. JobCompleted(j, o) \notin EventsOf(k)
        BY <2>2, AboutOthers
      <4> QED
        BY <2>1, <4>1
    <3> QED
      BY <1>1, <2>1, <3>1, <3>2, Bystander
  <2>3. JobInv(j)'
    <3>1. truth[j] = "done" /\ state[j] = "RUNNING" /\ Submitted(j) \notin ToSet(Inbox) /\ Touched(j)
      BY <1>1, <2>1 DEF JobInv, Incoming, Touched
    <3>2. job_state'[j] \in Ended /\ job_state'[j] \notin {"NONE", "IN_SUBMISSON", "IN_KILLING", "RUNNING", "REJECTED"}
      BY <1>2, <2>1 DEF Ended, Completed
    <3>3. ToSet(Inbox') \subseteq ToSet(Inbox) /\ AtMostOne(Inbox', {Submitted(j)}) /\ AtMostOne(Inbox', Completions(j))
      <4>1. AtMostOne(Inbox, {Submitted(j)}) /\ AtMostOne(Inbox, Completions(j))
        BY <1>1 DEF JobInv, Incoming
      <4> QED
        BY <1>2, <2>1, <4>1, HeadGone
    <3>4. Incoming(j)'
      BY <2>1, <3>1, <3>3, Primed
    <3>5. Outgoing(j)'
      BY <1>1, <2>1, <3>1, Primed DEF JobInv, Outgoing
    <3>6. Table(j)'
      BY <1>1, <2>1, <3>1, <3>2 DEF JobInv, Table
    <3>7. Wished(j)'
      BY <2>1, <3>1, <3>2, Primed
    <3> QED
      BY <3>4, <3>5, <3>6, <3>7 DEF JobInv
  <2> QED
    BY <2>2, <2>3
<1> QED
  BY <1>3, <1>5, <1>6, <1>7, <1>8, <1>9 DEF Dispatch

\* A call about one job: a command is added, and the table follows.
LEMMA CallJobs ==
  ASSUME ConstantsAssumption, LoopInv, ClientCall
  PROVE  \A k \in Job : JobInv(k)'
<1>1. /\ TypeInv /\ Alternating /\ \A k \in Job : JobInv(k)
  BY DEF LoopInv, WayInv
<1>2. /\ job_state \in [Job -> JobState \cup {"NONE"}] /\ state \in [Job -> {"NONE", "RUNNING", "REJECTED"}]
      /\ Inbox \in Seq(SimEvent) /\ events_to_send \in Seq(ApiCommand)
  BY <1>1, BoxTypes DEF TypeInv, TypeOK, JobTypeOK, ApiTypeOK
<1>3. /\ Inbox' = Inbox /\ Outbox = events_to_send /\ Outbox' = events_to_send'
      /\ UNCHANGED <<truth, registration, ack_of_dynamic_jobs>>
  BY CallBoxes DEF sim_vars, loop_vars
<1>4. ASSUME NEW j \in Job, Untouched(j), ExecuteJobs(<<j>>) \/ RejectJobs(<<j>>) \/ ChangeJobState(j, "RUNNING")
      PROVE  \A k \in Job : JobInv(k)'
  <2>1. PICK x \in {Executing(j), Rejecting(j), Marking(j)} :
          /\ Outbox' = Append(Outbox, x) /\ job_state' = job_state
          /\ \/ x = Executing(j) /\ state' = [state EXCEPT ![j] = "RUNNING"] /\ UNCHANGED jobs_manually_changed
             \/ x = Rejecting(j) /\ state' = [state EXCEPT ![j] = "REJECTED"] /\ UNCHANGED jobs_manually_changed
             \/ x = Marking(j) /\ state' = state /\ jobs_manually_changed' = jobs_manually_changed \cup {j}
    <3>1. CASE ExecuteJobs(<<j>>)
      <4>1. events_to_send' = Append(events_to_send, Executing(j))
        BY <1>2, <3>1, OneJob DEF ExecuteJobs
      <4>2. state' = [state EXCEPT ![j] = "RUNNING"]
        BY <1>2, <3>1, OneJob DEF ExecuteJobs
      <4> QED
        BY <1>3, <3>1, <4>1, <4>2 DEF ExecuteJobs
    <3>2. CASE RejectJobs(<<j>>)
      <4>1. events_to_send' = Append(events_to_send, Rejecting(j))
        BY <1>2, <3>2, OneJob DEF RejectJobs
      <4>2. state' = [state EXCEPT ![j] = "REJECTED"]
        BY <1>2, <3>2, OneJob DEF RejectJobs
      <4> QED
        BY <1>3, <3>2, <4>1, <4>2 DEF RejectJobs
    <3>3. CASE ChangeJobState(j, "RUNNING")
      BY <1>3, <3>3 DEF ChangeJobState, Marking, job_vars
    <3> QED
      BY <1>4, <3>1, <3>2, <3>3
  <2>2. x \in ApiCommand
    BY CommandsExist
  <2>3. ASSUME NEW k \in Job, k # j PROVE JobInv(k)'
    <3>1. StatusKept(k)
      BY <1>2, <1>3, <2>1, <2>3 DEF StatusKept
    <3>2. x \notin CommandsOf(k)
      BY <2>1, <2>3, AboutOthers
    <3> QED
      BY <1>1, <1>3, <2>1, <2>2, <3>1, <3>2, Bystander
  <2>4. JobInv(j)'
    <3>1. /\ state[j] = "NONE" /\ j \notin jobs_manually_changed
          /\ job_state[j] \in {"SUBMITTED", "IN_SUBMISSON"}
          /\ job_state[j] = "SUBMITTED" \/ ~ack_of_dynamic_jobs
      BY <1>4 DEF Untouched
    <3>2. ~Fresh(j)
      BY <1>1, <3>1 DEF JobInv, Table, Fresh, Job
    <3>3. Submitted(j) \notin ToSet(Inbox) /\ ToSet(Inbox) \cap Completions(j) = {}
      BY <1>1, <3>1, <3>2 DEF JobInv, Incoming
    <3>4. Incoming(j)'
      BY <1>1, <1>3, <3>3, Primed DEF JobInv, Incoming
    <3>5. /\ ToSet(Outbox') = ToSet(Outbox) \cup {x}
          /\ AtMostOne(Outbox', {Registering(j)}) /\ AllBefore(Outbox', Registering(j), Notice)
      <4>1. x # Registering(j)
        BY CommandFields
      <4>2. AtMostOne(Outbox, {Registering(j)}) /\ AllBefore(Outbox, Registering(j), Notice)
        BY <1>1 DEF JobInv, Outgoing
      <4> QED
        BY <1>2, <1>3, <2>1, <2>2, <4>1, <4>2, OneMore
    <3>6. Registering(j) \in ToSet(Outbox) => ~ack_of_dynamic_jobs
      BY <1>1, <3>2 DEF JobInv, Outgoing
    <3>7. {Executing(j), Rejecting(j), Marking(j), Completing(j)} \cap ToSet(Outbox) = {}
      BY <1>1, <3>1 DEF JobInv, Outgoing
    <3>8. /\ x \notin {Registering(j), Completing(j)}
          /\ x = Executing(j) => state'[j] = "RUNNING" /\ x \notin {Rejecting(j), Marking(j)}
          /\ x = Rejecting(j) => state'[j] = "REJECTED" /\ x \notin {Executing(j), Marking(j)}
          /\ x = Marking(j) => j \in jobs_manually_changed' /\ x \notin {Executing(j), Rejecting(j)}
      BY <1>2, <2>1, CommandFields
    <3>9. Outgoing(j)'
      BY <1>1, <1>3, <2>1, <3>5, <3>6, <3>7, <3>8, Primed DEF JobInv, Outgoing
    <3>10. \/ state'[j] \in {"RUNNING", "REJECTED"} /\ j \notin jobs_manually_changed'
           \/ state'[j] = "NONE" /\ j \in jobs_manually_changed'
      BY <1>2, <2>1, <3>1
    <3>11. Table(j)'
      BY <1>1, <1>3, <2>1, <3>1, <3>10 DEF JobInv, Table, Touched, Ended, Completed
    <3>12. Touched(j)'
      BY <3>10 DEF Touched
    <3>13. truth[j] \notin {"running", "rejected", "changed", "done"}
      BY <1>1, <3>1, <3>3 DEF JobInv, Wished, Ended, Completed
    <3>14. Wished(j)'
      BY <1>3, <3>12, <3>13, Primed
    <3> QED
      BY <3>4, <3>9, <3>11, <3>14 DEF JobInv
  <2> QED
    BY <2>3, <2>4
<1>5. ASSUME NEW j \in jobs_manually_changed, ChangeJobState(j, "COMPLETED_SUCCESSFULLY")
      PROVE  \A k \in Job : JobInv(k)'
  <2>1. /\ j \in Job /\ Outbox' = Append(Outbox, Completing(j)) /\ Completing(j) \in ApiCommand
        /\ jobs_manually_changed' = jobs_manually_changed /\ UNCHANGED <<state, job_state>>
    <3>1. j \in Job
      BY <1>1 DEF TypeInv, TypeOK, ApiTypeOK
    <3> QED
      BY <1>3, <1>5, <3>1, CommandsExist DEF ChangeJobState, Completing, job_vars
  <2>2. \A k \in Job : StatusKept(k)
    BY <1>3, <2>1 DEF StatusKept
  <2>3. ASSUME NEW k \in Job, k # j PROVE JobInv(k)'
    <3>1. Completing(j) \notin CommandsOf(k)
      BY <2>3, AboutOthers
    <3> QED
      BY <1>1, <1>3, <2>1, <2>2, <3>1, Bystander
  <2>4. JobInv(j)'
    <3>1. Incoming(j)' /\ Table(j)' /\ Wished(j)'
      BY <1>1, <1>2, <1>3, <2>1, <2>2, SameInStep, FrameIn
    <3>2. /\ ToSet(Outbox') = ToSet(Outbox) \cup {Completing(j)}
          /\ AtMostOne(Outbox', {Registering(j)}) /\ AllBefore(Outbox', Registering(j), Notice)
      <4>1. Completing(j) # Registering(j)
        BY CommandFields
      <4>2. AtMostOne(Outbox, {Registering(j)}) /\ AllBefore(Outbox, Registering(j), Notice)
        BY <1>1, <2>1 DEF JobInv, Outgoing
      <4> QED
        BY <1>2, <1>3, <2>1, <4>1, <4>2, OneMore
    <3>3. Completing(j) \notin {Registering(j), Executing(j), Rejecting(j)}
      BY CommandFields
    <3>4. Fresh(j)' <=> Fresh(j)
      BY <1>3, <2>1 DEF Fresh, Touched
    <3>5. Outgoing(j)'
      BY <1>1, <1>3, <1>5, <2>1, <3>2, <3>3, <3>4, Primed DEF JobInv, Outgoing
    <3> QED
      BY <3>1, <3>5 DEF JobInv
  <2> QED
    BY <2>3, <2>4
<1>6. ASSUME NEW K \in SUBSET Job, \A k \in K : Alive(k), KillJobs(K)
      PROVE  \A k \in Job : JobInv(k)'
  <2>1. /\ Outbox' = Append(Outbox, Killing(K)) /\ Killing(K) \in ApiCommand
        /\ \A k \in Job : job_state'[k] = IF k \in K THEN "IN_KILLING" ELSE job_state[k]
        /\ UNCHANGED <<state, jobs_manually_changed>>
    BY <1>3, <1>6, CommandsExist DEF KillJobs, Killing
  <2>2. ASSUME NEW k \in Job, k \notin K PROVE JobInv(k)'
    <3>1. StatusKept(k)
      BY <1>3, <2>1, <2>2 DEF StatusKept
    <3>2. Killing(K) \notin CommandsOf(k)
      BY <2>2, AboutOthers
    <3> QED
      BY <1>1, <1>3, <2>1, <3>1, <3>2, Bystander
  <2>3. ASSUME NEW k \in Job, k \in K PROVE JobInv(k)'
    <3>1. /\ state[k] = "RUNNING" /\ job_state[k] \notin Ended /\ job_state'[k] = "IN_KILLING"
          /\ job_state'[k] \notin Ended
      BY <1>6, <2>1, <2>3 DEF Alive, Ended, Completed
    <3>2. Touched(k) /\ Touched(k)' /\ ~Fresh(k)
      BY <2>1, <3>1 DEF Touched, Fresh
    <3>3. Incoming(k)'
      BY <1>1, <1>3, <2>1, <3>1, <3>2, Primed DEF JobInv, Incoming
    <3>4. /\ ToSet(Outbox') = ToSet(Outbox) \cup {Killing(K)}
          /\ AtMostOne(Outbox', {Registering(k)}) /\ AllBefore(Outbox', Registering(k), Notice)
          /\ Killing(K) \notin {Registering(k), Executing(k), Rejecting(k), Marking(k), Completing(k)}
      <4>1. Killing(K) \notin {Registering(k), Executing(k), Rejecting(k), Marking(k), Completing(k)}
        BY CommandFields
      <4>2. AtMostOne(Outbox, {Registering(k)}) /\ AllBefore(Outbox, Registering(k), Notice)
        BY <1>1 DEF JobInv, Outgoing
      <4> QED
        BY <1>2, <1>3, <2>1, <4>1, <4>2, OneMore
    <3>5. Outgoing(k)'
      <4>1. Outgoing(k)
        BY <1>1 DEF JobInv
      <4>2. /\ Registering(k) \in ToSet(Outbox') => Registering(k) \in ToSet(Outbox)
            /\ Executing(k) \in ToSet(Outbox') => Executing(k) \in ToSet(Outbox)
            /\ Rejecting(k) \in ToSet(Outbox') => Rejecting(k) \in ToSet(Outbox)
            /\ {Marking(k), Completing(k)} \cap ToSet(Outbox') = {Marking(k), Completing(k)} \cap ToSet(Outbox)
        BY <3>4
      <4>3. Registering(k) \in ToSet(Outbox) =>
              /\ registration' /\ k \in Dynamic /\ truth'[k] = "absent" /\ job_state'[k] # "NONE"
              /\ ack_of_dynamic_jobs' => Fresh(k)'
        BY <1>3, <2>1, <3>1, <3>2, <4>1 DEF Outgoing
      <4>4. /\ Executing(k) \in ToSet(Outbox) => state'[k] = "RUNNING"
            /\ Rejecting(k) \in ToSet(Outbox) => state'[k] = "REJECTED"
            /\ {Marking(k), Completing(k)} \cap ToSet(Outbox) # {} => k \in jobs_manually_changed'
        BY <1>3, <2>1, <3>1, <4>1 DEF Outgoing
      <4> QED
        BY <3>4, <4>2, <4>3, <4>4, Primed
    <3>6. Table(k)'
      BY <1>1, <1>3, <2>1, <3>1, <3>2 DEF JobInv, Table
    <3>7. Wished(k)'
      BY <1>1, <1>3, <2>1, <3>1, <3>2, Primed DEF JobInv, Wished
    <3> QED
      BY <3>3, <3>5, <3>6, <3>7 DEF JobInv
  <2> QED
    BY <2>2, <2>3
<1>7. ASSUME NEW j \in Dynamic, job_state[j] = "NONE", Open, RegisterJob(j)
      PROVE  \A k \in Job : JobInv(k)'
  <2>1. /\ j \in Job /\ j \notin Static /\ Outbox' = Append(Outbox, Registering(j)) /\ Registering(j) \in ApiCommand
        /\ job_state' = [job_state EXCEPT ![j] = "IN_SUBMISSON"] /\ state' = [state EXCEPT ![j] = "NONE"]
        /\ UNCHANGED jobs_manually_changed
    <3>1. j \in Job /\ j \notin Static
      BY ConstantsAssumption DEF ConstantsAssumption, Job
    <3> QED
      BY <1>3, <1>7, <3>1, CommandsExist DEF RegisterJob, Registering
  <2>2. ASSUME NEW k \in Job, k # j PROVE JobInv(k)'
    <3>1. StatusKept(k)
      BY <1>2, <1>3, <2>1, <2>2 DEF StatusKept
    <3>2. Registering(j) \notin CommandsOf(k)
      BY <2>2, AboutOthers
    <3> QED
      BY <1>1, <1>3, <2>1, <3>1, <3>2, Bystander
  <2>3. JobInv(j)'
    <3>1. ~Touched(j) /\ truth[j] = "absent" /\ Registering(j) \notin ToSet(Outbox)
      BY <1>1, <1>7, <2>1 DEF JobInv, Table, Outgoing
    <3>2. /\ job_state'[j] = "IN_SUBMISSON" /\ state'[j] = "NONE" /\ ~Touched(j)'
      BY <1>2, <2>1, <3>1 DEF Touched
    <3>3. Submitted(j) \notin ToSet(Inbox) /\ ToSet(Inbox) \cap Completions(j) = {}
      BY <1>1, <2>1, <3>1 DEF JobInv, Incoming
    <3>4. Incoming(j)'
      BY <1>1, <1>3, <2>1, <3>3, Primed DEF JobInv, Incoming
    <3>5. Notice \notin ToSet(Outbox) /\ Notice # Registering(j) /\ registration
      <4>1. \A i \in DOMAIN events_to_send : events_to_send[i].type # "NOTIFY"
        BY <1>7 DEF Open, Closing
      <4>2. Notice.type = "NOTIFY" /\ Registering(j).type = "REGISTER_JOB"
        BY CommandFields
      <4>3. registration
        BY <1>7 DEF Open
      <4> QED
        BY <1>3, <4>1, <4>2, <4>3 DEF ToSet
    <3>6. /\ ToSet(Outbox') = ToSet(Outbox) \cup {Registering(j)}
          /\ AtMostOne(Outbox', {Registering(j)}) /\ AllBefore(Outbox', Registering(j), Notice)
      <4> DEFINE x == Registering(j)
      <4>1. AtMostOne(Outbox, {x}) /\ AllBefore(Outbox, x, Notice) /\ ToSet(Outbox) \cap {x} = {}
        BY <1>1, <2>1, <3>1 DEF JobInv, Outgoing
      <4>2. Outbox' = Append(Outbox, x) /\ Outbox \in Seq(ApiCommand) /\ x \in ApiCommand
        BY <1>2, <1>3, <2>1
      <4>3. Notice # x
        BY <3>5
      <4> HIDE DEF x
      <4>4. ToSet(Outbox') = ToSet(Outbox) \cup {x} /\ AtMostOne(Outbox', {x})
        BY <4>1, <4>2, OneMore
      <4>5. AllBefore(Outbox', x, Notice)
        BY <3>5, <4>1, <4>2, <4>3, OneMore
      <4> QED
        BY <4>4, <4>5 DEF x
    <3>7. Registering(j) \notin {Executing(j), Rejecting(j), Marking(j), Completing(j)}
      BY CommandFields
    <3>8. ack_of_dynamic_jobs' => Fresh(j)'
      BY <2>1, <3>2 DEF Fresh
    <3>9. {Executing(j), Rejecting(j), Marking(j), Completing(j)} \cap ToSet(Outbox) = {}
      BY <1>1, <2>1, <3>1 DEF JobInv, Outgoing, Touched
    <3>10. Outgoing(j)'
      <4>1. {Executing(j), Rejecting(j), Marking(j), Completing(j)} \cap ToSet(Outbox') = {}
        BY <3>6, <3>7, <3>9
      <4>2. registration' /\ j \in Dynamic /\ truth'[j] = "absent" /\ job_state'[j] # "NONE"
        BY <1>3, <3>1, <3>2, <3>5
      <4> QED
        BY <2>1, <3>6, <3>8, <4>1, <4>2, Primed
    <3>11. Table(j)'
      BY <2>1, <3>2 DEF Table, Ended, Completed
    <3>12. Wished(j)'
      BY <1>3, <2>1, <3>1, Primed
    <3> QED
      BY <3>4, <3>10, <3>11, <3>12 DEF JobInv
  <2> QED
    BY <2>2, <2>3
<1>8. ASSUME NotifyRegistrationFinished \/ WakeMeUpAt
      PROVE  \A k \in Job : JobInv(k)'
  <2>1. PICK x \in {Notice, WakeUp} : Outbox' = Append(Outbox, x)
    BY <1>3, <1>8 DEF NotifyRegistrationFinished, WakeMeUpAt, Call, Notice, WakeUp
  <2>2. UNCHANGED <<state, jobs_manually_changed, job_state>>
    BY <1>8 DEF NotifyRegistrationFinished, WakeMeUpAt, Call, job_vars
  <2>3. x \in ApiCommand /\ \A k \in Job : x \notin CommandsOf(k)
    BY CommandsExist, AboutOthers
  <2>4. \A k \in Job : StatusKept(k)
    BY <1>3, <2>2 DEF StatusKept
  <2> QED
    BY <1>1, <1>3, <2>1, <2>3, <2>4, Bystander
<1> QED
  BY <1>4, <1>5, <1>6, <1>7, <1>8 DEF ClientCall

\* A step that touches neither the messages under way nor the jobs.
Quiet ==
  /\ Inbox' = Inbox /\ Outbox' = Outbox
  /\ truth' = truth /\ registration' = registration /\ ack_of_dynamic_jobs' = ack_of_dynamic_jobs
  /\ state' = state /\ jobs_manually_changed' = jobs_manually_changed /\ job_state' = job_state

\* Such a step keeps what is known of every job.
LEMMA QuietJobs ==
  ASSUME TypeInv, NEW k \in Job, JobInv(k), Quiet
  PROVE  JobInv(k)'
<1>1. StatusKept(k)
  BY DEF StatusKept, Quiet
<1> QED
  BY <1>1, Bystander DEF Quiet

\* A message is received, the timeout strikes, the reply leaves, time is
\* consumed or a callback returns: no message about a job comes or goes, but
\* for the commands of onAfterBatsimInit, which are lost.
LEMMA LoopJobs ==
  ASSUME LoopInv, Receive \/ Timeout \/ SendReply \/ ClientConsume \/ ClientReturn \/ UNCHANGED batsim_vars,
         NEW k \in Job
  PROVE  JobInv(k)'
<1>1. /\ TypeInv /\ Alternating /\ Starting /\ JobInv(k)
  BY DEF LoopInv, WayInv
<1>3. CASE Receive
  <2>1. Inbox' = Inbox /\ Outbox' = Outbox
    BY <1>3, Boxes DEF Receive
  <2>2. Quiet
    BY <1>3, <2>1 DEF Receive, job_vars, Quiet
  <2> QED
    BY <1>1, <2>2, QuietJobs
<1>4. CASE Timeout
  <2>1. Inbox' = Inbox /\ Outbox' = Outbox
    BY <1>4, Boxes DEF Timeout, sim_vars
  <2>2. Quiet
    BY <1>4, <2>1 DEF Timeout, sim_vars, api_vars, job_vars, Quiet
  <2> QED
    BY <1>1, <2>2, QuietJobs
<1>5. CASE SendReply
  <2>1. /\ phase = "handler" /\ events = <<>> /\ commands' = events_to_send /\ events_to_send' = <<>>
        /\ mailbox' = mailbox /\ events' = events /\ mailbox = <<>>
        /\ phase' \in {"init", "ended", "recv"} /\ (phase' = "init" => ~initialised)
    BY <1>1, <1>5 DEF SendReply, Reply, Alternating
  <2>2. Inbox' = Inbox
    BY <2>1, Boxes
  <2>3. Outbox = events_to_send /\ (phase' = "init" => Outbox' = <<>>) /\ (phase' # "init" => Outbox' = events_to_send)
    BY <2>1, Boxes
  <2>4. Outbox' = Outbox
    BY <1>1, <2>1, <2>3 DEF Starting
  <2>5. Quiet
    BY <1>5, <2>2, <2>4 DEF SendReply, job_vars, Quiet
  <2> QED
    BY <1>1, <2>5, QuietJobs
<1>6. CASE ClientConsume \/ UNCHANGED batsim_vars
  <2>1. UNCHANGED <<sim_vars, loop_vars, api_vars, job_vars>>
    BY <1>6 DEF ClientConsume, batsim_vars
  <2>2. Inbox' = Inbox /\ Outbox' = Outbox
    BY <2>1 DEF Inbox, Outbox, Undealt, sim_vars, loop_vars, api_vars
  <2>3. Quiet
    BY <2>1, <2>2 DEF sim_vars, loop_vars, api_vars, job_vars, Quiet
  <2> QED
    BY <1>1, <2>3, QuietJobs
<1>7. CASE ClientReturn
  <2>1. Inbox' = Inbox /\ UNCHANGED <<truth, registration, ack_of_dynamic_jobs, state, jobs_manually_changed, job_state>>
    BY <1>7, Boxes DEF ClientReturn, CallbackReturns, InitReturns, sim_vars, api_vars, job_vars
  <2>2. CASE phase = "handler"
    <3>1. Outbox' = Outbox
      BY <1>7, <2>2, Boxes DEF ClientReturn, CallbackReturns, InitReturns, api_vars
    <3>2. Quiet
      BY <2>1, <3>1 DEF Quiet
    <3> QED
      BY <1>1, <3>2, QuietJobs
  <2>3. CASE phase # "handler"
    <3>1. Outbox' = <<>>
      BY <1>1, <1>7, <2>3, Boxes DEF ClientReturn, CallbackReturns, InitReturns, sim_vars, Alternating
    <3>2. ToSet(Outbox') = {} /\ Outbox' \in Seq(ApiCommand)
      BY <3>1 DEF ToSet
    <3>3. AtMostOne(Outbox', {Registering(k)}) /\ AllBefore(Outbox', Registering(k), Notice)
      BY <3>2, Members
    <3>4. Outgoing(k)'
      BY <3>2, <3>3, Primed
    <3>5. StatusKept(k)
      BY <2>1 DEF StatusKept
    <3>6. Incoming(k)' /\ Table(k)' /\ Wished(k)'
      BY <1>1, <2>1, <3>5, BoxTypes, SameInStep, FrameIn
    <3> QED
      BY <3>4, <3>6 DEF JobInv
  <2> QED
    BY <2>2, <2>3
<1> QED
  BY <1>3, <1>4, <1>5, <1>6, <1>7

\* The first layer, but for the counters and the kills, is inductive.
LEMMA WayStep ==
  ASSUME ConstantsAssumption, LoopInv, [BatsimNext]_batsim_vars
  PROVE  WayInv'
<1> DEFINE Kept == \A k \in Job : JobInv(k)'
<1>1. Sim => Kept
  BY SimJobs
<1>2. Dispatch => Kept
  BY DispatchJobs
<1>3. ClientCall => Kept
  BY CallJobs
<1>4. Receive \/ Timeout \/ SendReply \/ ClientConsume \/ ClientReturn \/ UNCHANGED batsim_vars => Kept
  BY LoopJobs
<1>5. Alternating' /\ Starting'
  BY AlternatingStep, StartingStep
<1>6. Kept => WayInv'
  BY <1>5 DEF WayInv
<1> HIDE DEF Kept
<1> QED
  BY <1>1, <1>2, <1>3, <1>4, <1>6 DEF BatsimNext, Library, ClientNext, Terminated

-----------------------------------------------------------------------------
\* The counters

\* How many jobs f gives a value of S.
Num(f, S) == Cardinality({k \in Job : f[k] \in S})

\* One job changes from one value to another: the count of S changes if
\* exactly one of the two values is in S.
LEMMA NumChange ==
  ASSUME ConstantsAssumption, NEW f, NEW g, NEW j \in Job, \A k \in Job : k # j => g[k] = f[k], NEW S
  PROVE  /\ Num(f, S) \in Nat
         /\ Num(g, S) = IF f[j] \in S THEN IF g[j] \in S THEN Num(f, S) ELSE Num(f, S) - 1
                                      ELSE IF g[j] \in S THEN Num(f, S) + 1 ELSE Num(f, S)
<1> DEFINE A == {k \in Job : f[k] \in S}
           B == {k \in Job : g[k] \in S}
<1>1. IsFiniteSet(Job)
  BY FS_Union, ConstantsAssumption DEF ConstantsAssumption, Job
<1>2. IsFiniteSet(A) /\ Num(f, S) = Cardinality(A) /\ Num(g, S) = Cardinality(B)
  BY <1>1, FS_Subset DEF Num
<1>3. Cardinality(A) \in Nat
  BY <1>2, FS_CardinalityType
<1>4. /\ j \in A <=> f[j] \in S
      /\ (f[j] \in S <=> g[j] \in S) => B = A
      /\ f[j] \in S /\ g[j] \notin S => B = A \ {j}
      /\ f[j] \notin S /\ g[j] \in S => B = A \cup {j}
  OBVIOUS
<1> HIDE DEF A, B
<1>5. /\ Cardinality(A \cup {j}) = IF j \in A THEN Cardinality(A) ELSE Cardinality(A) + 1
      /\ Cardinality(A \ {j}) = IF j \in A THEN Cardinality(A) - 1 ELSE Cardinality(A)
  BY <1>2, FS_AddElement, FS_RemoveElement
<1> QED
  BY <1>2, <1>3, <1>4, <1>5

\* The counts depend on nothing but membership.
LEMMA NumSame ==
  ASSUME NEW f, NEW g, NEW S, \A k \in Job : g[k] \in S <=> f[k] \in S
  PROVE  Num(g, S) = Num(f, S)
<1>1. {k \in Job : g[k] \in S} = {k \in Job : f[k] \in S}
  OBVIOUS
<1> QED
  BY <1>1 DEF Num

\* The counters that the table determines, as counts.
Counted(n, table, wish, ack) ==
  /\ n["submitted"] = n["from_batsim"] + n["from_scheduler"]
  /\ n["submitted"] + n["in_submission"] = Num(table, JobState)
  /\ ack => n["in_submission"] = Num(table, {"IN_SUBMISSON"})
  /\ ~ack => n["in_submission"] = 0
  /\ n["completed"] = Num(table, Ended)
  /\ n["successful"] = Num(table, {"COMPLETED_SUCCESSFULLY"})
  /\ n["failed"] = Num(table, {"COMPLETED_FAILED"})
  /\ n["timeout"] = Num(table, {"COMPLETED_WALLTIME_REACHED"})
  /\ n["killed"] = Num(table, {"COMPLETED_KILLED"})
  /\ n["rejected"] = Num(wish, {"REJECTED"})
  /\ n["scheduled"] = Num(wish, {"RUNNING"})

\* The invariant of the counters says that they are these counts.
LEMMA CountedNow ==
  CountInv <=> Counted(nb, job_state, state, ack_of_dynamic_jobs)
<1>1. /\ {j \in Job : state[j] = "REJECTED"} = {j \in Job : state[j] \in {"REJECTED"}}
      /\ {j \in Job : state[j] = "RUNNING"} = {j \in Job : state[j] \in {"RUNNING"}}
  OBVIOUS
<1>2. \A S : InState(S) = Num(job_state, S)
  BY DEF InState, Num
<1>3. /\ Num(state, {"REJECTED"}) = Cardinality({j \in Job : state[j] = "REJECTED"})
      /\ Num(state, {"RUNNING"}) = Cardinality({j \in Job : state[j] = "RUNNING"})
  BY <1>1 DEF Num
<1> QED
  BY <1>2, <1>3, Zenon DEF CountInv, Accounting, Counted, Ended

\* The same, one step later.
LEMMA CountedThen ==
  Counted(nb', job_state', state', ack_of_dynamic_jobs') => CountInv'
<1>1. /\ {j \in Job : state'[j] = "REJECTED"} = {j \in Job : state'[j] \in {"REJECTED"}}
      /\ {j \in Job : state'[j] = "RUNNING"} = {j \in Job : state'[j] \in {"RUNNING"}}
  OBVIOUS
<1>2. \A S : InState(S)' = Num(job_state', S)
  BY DEF InState, Num
<1>3. /\ Num(state', {"REJECTED"}) = Cardinality({j \in Job : state'[j] = "REJECTED"})
      /\ Num(state', {"RUNNING"}) = Cardinality({j \in Job : state'[j] = "RUNNING"})
  BY <1>1 DEF Num
<1> QED
  BY <1>2, <1>3, Zenon DEF CountInv, Accounting, Counted, Ended
\* A submission dispatched: a job of the workload is new, a registered one
\* was in submission.
LEMMA SubmissionCounted ==
  ASSUME ConstantsAssumption, LoopInv, DispatchJobSubmitted
  PROVE  CountInv'
<1>1. PICK j \in Job :
        /\ Submitted(j) \in ToSet(Inbox)
        /\ nb' = CountSubmission(job_state[j] # "NONE", job_state[j] = "IN_SUBMISSON")
        /\ job_state' = [job_state EXCEPT ![j] = "SUBMITTED"]
        /\ state' = [state EXCEPT ![j] = "NONE"] /\ ack_of_dynamic_jobs' = ack_of_dynamic_jobs
  BY SubmittedDispatched
<1>2. /\ nb \in [Counter -> Nat] /\ job_state \in [Job -> JobState \cup {"NONE"}]
      /\ state \in [Job -> {"NONE", "RUNNING", "REJECTED"}]
  BY DEF LoopInv, TypeInv, TypeOK, JobTypeOK, ApiTypeOK
<1>3. Fresh(j)
  BY <1>1 DEF LoopInv, WayInv, JobInv, Incoming
<1>4. state' = state
  BY <1>1, <1>2, <1>3 DEF Fresh, Touched
<1>5. \/ job_state[j] = "NONE"
      \/ job_state[j] = "IN_SUBMISSON" /\ ack_of_dynamic_jobs
  BY <1>3 DEF Fresh, Job
<1>6. Counted(nb, job_state, state, ack_of_dynamic_jobs)
  BY CountedNow DEF LoopInv
<1>7. job_state'[j] = "SUBMITTED" /\ \A k \in Job : k # j => job_state'[k] = job_state[k]
  BY <1>1, <1>2
<1> DEFINE f == job_state
           g == job_state'
<1>8. \A S : /\ Num(f, S) \in Nat
             /\ Num(g, S) = IF f[j] \in S THEN IF g[j] \in S THEN Num(f, S) ELSE Num(f, S) - 1
                                          ELSE IF g[j] \in S THEN Num(f, S) + 1 ELSE Num(f, S)
  BY <1>7, NumChange
<1>9. /\ Num(g, Ended) = Num(f, Ended)
      /\ Num(g, {"COMPLETED_SUCCESSFULLY"}) = Num(f, {"COMPLETED_SUCCESSFULLY"})
      /\ Num(g, {"COMPLETED_FAILED"}) = Num(f, {"COMPLETED_FAILED"})
      /\ Num(g, {"COMPLETED_WALLTIME_REACHED"}) = Num(f, {"COMPLETED_WALLTIME_REACHED"})
      /\ Num(g, {"COMPLETED_KILLED"}) = Num(f, {"COMPLETED_KILLED"})
  <2>1. \A S : "NONE" \notin S /\ "IN_SUBMISSON" \notin S /\ "SUBMITTED" \notin S => Num(g, S) = Num(f, S)
    BY <1>5, <1>7, <1>8
  <2> HIDE DEF f, g
  <2> QED
    BY <2>1 DEF Ended, Completed
<1>10. /\ Num(f, JobState) \in Nat /\ Num(f, {"IN_SUBMISSON"}) \in Nat
       /\ f[j] = "NONE" => /\ Num(g, JobState) = Num(f, JobState) + 1
                           /\ Num(g, {"IN_SUBMISSON"}) = Num(f, {"IN_SUBMISSON"})
       /\ f[j] = "IN_SUBMISSON" => /\ Num(g, JobState) = Num(f, JobState)
                                   /\ Num(g, {"IN_SUBMISSON"}) = Num(f, {"IN_SUBMISSON"}) - 1
  <2>1. "SUBMITTED" \in JobState /\ "IN_SUBMISSON" \in JobState /\ "NONE" \notin JobState
    BY DEF JobState, Completed
  <2> QED
    BY <1>7, <1>8, <2>1
<1>11. /\ \A c \in Counter \ {"submitted", "from_batsim", "from_scheduler", "in_submission"} : nb'[c] = nb[c]
       /\ nb'["submitted"] = nb["submitted"] + 1
       /\ f[j] = "NONE" => /\ nb'["from_batsim"] = nb["from_batsim"] + 1
                           /\ nb'["from_scheduler"] = nb["from_scheduler"]
                           /\ nb'["in_submission"] = nb["in_submission"]
       /\ f[j] = "IN_SUBMISSON" => /\ nb'["from_batsim"] = nb["from_batsim"]
                                   /\ nb'["from_scheduler"] = nb["from_scheduler"] + 1
                                   /\ nb'["in_submission"] = nb["in_submission"] - 1
  <2>1. CASE f[j] = "NONE"
    BY <1>1, <1>2, <2>1 DEF CountSubmission, Count, Counter
  <2>2. CASE f[j] = "IN_SUBMISSON"
    BY <1>1, <1>2, <2>2 DEF CountSubmission, Count, Counter
  <2> QED
    BY <1>5, <2>1, <2>2
<1>12. /\ \A c \in {"submitted", "from_batsim", "from_scheduler", "in_submission"} : nb[c] \in Nat
       /\ \A c \in {"completed", "successful", "failed", "timeout", "killed", "rejected", "scheduled"} : nb'[c] = nb[c]
  BY <1>2, <1>11 DEF Counter
<1>13. Counted(nb', g, state', ack_of_dynamic_jobs')
  <2> HIDE DEF f, g
  <2>1. Counted(nb, f, state, ack_of_dynamic_jobs)
    BY <1>6 DEF f
  <2> QED
    BY <1>1, <1>4, <1>5, <1>9, <1>10, <1>11, <1>12, <2>1 DEF Counted, f
<1> QED
  BY <1>13, CountedThen

\* A completion dispatched: the job had not ended.
LEMMA CompletionCounted ==
  ASSUME ConstantsAssumption, LoopInv, DispatchJobCompleted
  PROVE  CountInv'
<1>1. PICK j \in Job, o \in Outcomes \cup {"COMPLETED_KILLED"} :
        /\ Head(Inbox) \in ToSet(Inbox) \cap Completions(j)
        /\ job_state' = [job_state EXCEPT ![j] = StateNamed(o)] /\ StateNamed(o) \in Ended
        /\ nb' = CountCompletion(StateNamed(o))
        /\ UNCHANGED <<ack_of_dynamic_jobs, state>>
  BY CompletionDispatched
<1> DEFINE f == job_state
           g == job_state'
           s == StateNamed(o)
<1>2. /\ nb \in [Counter -> Nat] /\ f \in [Job -> JobState \cup {"NONE"}]
  BY DEF LoopInv, TypeInv, TypeOK, JobTypeOK
<1>3. f[j] \notin Ended /\ f[j] \in JobState /\ (ack_of_dynamic_jobs => f[j] # "IN_SUBMISSON")
  BY <1>1, <1>2 DEF LoopInv, WayInv, JobInv, Incoming, Table, Touched
<1>4. Counted(nb, f, state, ack_of_dynamic_jobs)
  BY CountedNow DEF LoopInv
<1>5. g[j] = s /\ \A k \in Job : k # j => g[k] = f[k]
  BY <1>1, <1>2
<1>6. \A S : /\ Num(f, S) \in Nat
             /\ Num(g, S) = IF f[j] \in S THEN IF g[j] \in S THEN Num(f, S) ELSE Num(f, S) - 1
                                          ELSE IF g[j] \in S THEN Num(f, S) + 1 ELSE Num(f, S)
  BY <1>5, NumChange
<1> DEFINE S1 == {"COMPLETED_SUCCESSFULLY"}
           S2 == {"COMPLETED_FAILED"}
           S3 == {"COMPLETED_WALLTIME_REACHED"}
           S4 == {"COMPLETED_KILLED"}
           One(S) == IF s \in S THEN 1 ELSE 0
<1>7. /\ Num(g, Ended) = Num(f, Ended) + 1 /\ Num(g, JobState) = Num(f, JobState)
      /\ ack_of_dynamic_jobs => Num(g, {"IN_SUBMISSON"}) = Num(f, {"IN_SUBMISSON"})
      /\ Num(g, S1) = Num(f, S1) + One(S1) /\ Num(g, S2) = Num(f, S2) + One(S2)
      /\ Num(g, S3) = Num(f, S3) + One(S3) /\ Num(g, S4) = Num(f, S4) + One(S4)
  <2>1. /\ s \in Ended /\ s \in JobState /\ s # "IN_SUBMISSON"
        /\ f[j] \notin S1 /\ f[j] \notin S2 /\ f[j] \notin S3 /\ f[j] \notin S4
    BY <1>1, <1>3 DEF Ended, Completed, JobState
  <2> HIDE DEF f, g, s, S1, S2, S3, S4
  <2>2. \A S : f[j] \notin S => Num(g, S) = Num(f, S) + One(S)
    BY <1>5, <1>6
  <2>3. Num(g, Ended) = Num(f, Ended) + 1 /\ Num(g, JobState) = Num(f, JobState)
    BY <1>3, <1>5, <1>6, <2>1
  <2>4. ack_of_dynamic_jobs => Num(g, {"IN_SUBMISSON"}) = Num(f, {"IN_SUBMISSON"})
    BY <1>3, <1>5, <1>6, <2>1
  <2> QED
    BY <2>1, <2>2, <2>3, <2>4
<1>8. /\ \A c \in Counter \ {"completed", "successful", "failed", "timeout", "killed"} : nb'[c] = nb[c]
      /\ nb'["completed"] = nb["completed"] + 1
      /\ nb'["successful"] = nb["successful"] + One(S1) /\ nb'["failed"] = nb["failed"] + One(S2)
      /\ nb'["timeout"] = nb["timeout"] + One(S3) /\ nb'["killed"] = nb["killed"] + One(S4)
  <2>1. s \in {"COMPLETED_SUCCESSFULLY", "COMPLETED_FAILED", "COMPLETED_WALLTIME_REACHED", "COMPLETED_KILLED", "UNKNOWN"}
    BY <1>1 DEF Ended, Completed
  <2>2. nb' = CountCompletion(s)
    BY <1>1
  <2> HIDE DEF s
  <2>3. CASE s = "COMPLETED_SUCCESSFULLY"
    BY <1>2, <2>2, <2>3 DEF CountCompletion, Count, Counter
  <2>4. CASE s = "COMPLETED_FAILED"
    BY <1>2, <2>2, <2>4 DEF CountCompletion, Count, Counter
  <2>5. CASE s = "COMPLETED_WALLTIME_REACHED"
    BY <1>2, <2>2, <2>5 DEF CountCompletion, Count, Counter
  <2>6. CASE s = "COMPLETED_KILLED"
    BY <1>2, <2>2, <2>6 DEF CountCompletion, Count, Counter
  <2>7. CASE s = "UNKNOWN"
    BY <1>2, <2>2, <2>7 DEF CountCompletion, Count, Counter
  <2> QED
    BY <2>1, <2>3, <2>4, <2>5, <2>6, <2>7
<1>9. \A c \in {"submitted", "from_batsim", "from_scheduler", "in_submission", "rejected", "scheduled"} : nb'[c] = nb[c]
  BY <1>8 DEF Counter
<1>10. Counted(nb', g, state', ack_of_dynamic_jobs')
  <2> HIDE DEF f, g, One
  <2> QED
    BY <1>1, <1>4, <1>7, <1>8, <1>9 DEF Counted
<1> QED
  BY <1>10, CountedThen

\* A call counts what it commands.
LEMMA CallCounted ==
  ASSUME ConstantsAssumption, LoopInv, ClientCall
  PROVE  CountInv'
<1>1. /\ nb \in [Counter -> Nat] /\ job_state \in [Job -> JobState \cup {"NONE"}]
      /\ state \in [Job -> {"NONE", "RUNNING", "REJECTED"}]
  BY DEF LoopInv, TypeInv, TypeOK, JobTypeOK, ApiTypeOK
<1>2. Counted(nb, job_state, state, ack_of_dynamic_jobs)
  BY CountedNow DEF LoopInv
<1>3. ack_of_dynamic_jobs' = ack_of_dynamic_jobs
  BY DEF ClientCall, loop_vars
<1>4. ASSUME nb' = nb, job_state' = job_state, state' = state
      PROVE  CountInv'
  BY <1>2, <1>3, <1>4, CountedThen
<1>5. ASSUME NEW j \in Job, NEW v, NEW c, Untouched(j), nb' = CountMany(c, 1), job_state' = job_state,
             state' = [state EXCEPT ![j] = v],
             (c = "scheduled" /\ v = "RUNNING") \/ (c = "rejected" /\ v = "REJECTED")
      PROVE  CountInv'
  <2>1. state[j] = "NONE" /\ state'[j] = v /\ \A k \in Job : k # j => state'[k] = state[k]
    BY <1>1, <1>5 DEF Untouched
  <2>2. \A S : /\ Num(state, S) \in Nat
               /\ Num(state', S) = IF state[j] \in S THEN IF state'[j] \in S THEN Num(state, S) ELSE Num(state, S) - 1
                                   ELSE IF state'[j] \in S THEN Num(state, S) + 1 ELSE Num(state, S)
    BY <2>1, NumChange
  <2>3. /\ Num(state', {"RUNNING"}) = IF v = "RUNNING" THEN Num(state, {"RUNNING"}) + 1 ELSE Num(state, {"RUNNING"})
        /\ Num(state', {"REJECTED"}) = IF v = "REJECTED" THEN Num(state, {"REJECTED"}) + 1 ELSE Num(state, {"REJECTED"})
    BY <2>1, <2>2
  <2>4. \A x \in Counter : nb'[x] = IF x = c THEN nb[x] + 1 ELSE nb[x]
    BY <1>1, <1>5 DEF CountMany
  <2>5. /\ \A x \in {"submitted", "from_batsim", "from_scheduler", "in_submission", "completed", "successful",
                     "failed", "timeout", "killed"} : nb'[x] = nb[x]
        /\ nb'["scheduled"] = (IF c = "scheduled" THEN nb["scheduled"] + 1 ELSE nb["scheduled"])
        /\ nb'["rejected"] = (IF c = "rejected" THEN nb["rejected"] + 1 ELSE nb["rejected"])
    BY <1>5, <2>4 DEF Counter
  <2>6. Counted(nb', job_state', state', ack_of_dynamic_jobs')
    BY <1>2, <1>3, <1>5, <2>3, <2>5 DEF Counted
  <2> QED
    BY <2>6, CountedThen
<1>6. ASSUME NEW j \in Job, Untouched(j), ExecuteJobs(<<j>>) \/ RejectJobs(<<j>>) PROVE CountInv'
  <2>1. CASE ExecuteJobs(<<j>>)
    <3>1. state' = [state EXCEPT ![j] = "RUNNING"] /\ nb' = CountMany("scheduled", 1) /\ job_state' = job_state
      <4>1. Len(<<j>>) = 1 /\ \A k : k \in ToSet(<<j>>) <=> k = j
        BY DEF ToSet
      <4> QED
        BY <1>1, <2>1, <4>1 DEF ExecuteJobs
    <3> QED
      BY <1>5, <1>6, <3>1
  <2>2. CASE RejectJobs(<<j>>)
    <3>1. state' = [state EXCEPT ![j] = "REJECTED"] /\ nb' = CountMany("rejected", 1) /\ job_state' = job_state
      <4>1. Len(<<j>>) = 1 /\ \A k : k \in ToSet(<<j>>) <=> k = j
        BY DEF ToSet
      <4> QED
        BY <1>1, <2>2, <4>1 DEF RejectJobs, CountRejection
    <3> QED
      BY <1>5, <1>6, <3>1
  <2> QED
    BY <1>6, <2>1, <2>2
<1>7. ASSUME NEW K \in SUBSET Job, \A k \in K : Alive(k), KillJobs(K) PROVE CountInv'
  <2>1. /\ nb' = nb /\ state' = state
        /\ \A k \in Job : job_state'[k] = IF k \in K THEN "IN_KILLING" ELSE job_state[k]
    BY <1>7 DEF KillJobs
  <2>2. \A k \in K : /\ job_state[k] \in JobState \ Ended
                     /\ ack_of_dynamic_jobs => job_state[k] # "IN_SUBMISSON"
    BY <1>1, <1>7 DEF Alive, Ended, Completed, LoopInv, WayInv, JobInv, Table, Touched
  <2>3. "IN_KILLING" \in JobState \ Ended
    BY DEF JobState, Ended, Completed
  <2>4. /\ Num(job_state', JobState) = Num(job_state, JobState)
        /\ ack_of_dynamic_jobs => Num(job_state', {"IN_SUBMISSON"}) = Num(job_state, {"IN_SUBMISSON"})
    BY <2>1, <2>2, <2>3, NumSame
  <2>5. \A S \in SUBSET Ended : Num(job_state', S) = Num(job_state, S)
    BY <2>1, <2>2, <2>3, NumSame
  <2>6. /\ {"COMPLETED_SUCCESSFULLY"} \subseteq Ended /\ {"COMPLETED_FAILED"} \subseteq Ended
        /\ {"COMPLETED_WALLTIME_REACHED"} \subseteq Ended /\ {"COMPLETED_KILLED"} \subseteq Ended
    BY DEF Ended, Completed
  <2>7. Counted(nb', job_state', state', ack_of_dynamic_jobs')
    BY <1>2, <1>3, <2>1, <2>4, <2>5, <2>6 DEF Counted
  <2> QED
    BY <2>7, CountedThen
<1>8. ASSUME NEW j \in Dynamic, job_state[j] = "NONE", RegisterJob(j) PROVE CountInv'
  <2> DEFINE f == job_state
             g == job_state'
  <2>1. j \in Job /\ g = [f EXCEPT ![j] = "IN_SUBMISSON"] /\ state' = [state EXCEPT ![j] = "NONE"] /\ nb' = CountRegistration
    BY <1>8 DEF RegisterJob, Job
  <2>2. f[j] = "NONE" /\ g[j] = "IN_SUBMISSON" /\ \A k \in Job : k # j => g[k] = f[k]
    BY <1>1, <1>8, <2>1
  <2>3. state' = state
    <3>1. state[j] = "NONE"
      BY <1>8, <2>1 DEF LoopInv, WayInv, JobInv, Table, Touched
    <3> QED
      BY <1>1, <2>1, <3>1
  <2>4. \A S : /\ Num(f, S) \in Nat
               /\ Num(g, S) = IF f[j] \in S THEN IF g[j] \in S THEN Num(f, S) ELSE Num(f, S) - 1
                                            ELSE IF g[j] \in S THEN Num(f, S) + 1 ELSE Num(f, S)
    <3>1. j \in Job
      BY <2>1
    <3> HIDE DEF f, g
    <3> QED
      BY <2>2, <3>1, NumChange
  <2>5. /\ Num(f, JobState) \in Nat /\ Num(g, JobState) = Num(f, JobState) + 1
        /\ Num(f, {"IN_SUBMISSON"}) \in Nat /\ Num(g, {"IN_SUBMISSON"}) = Num(f, {"IN_SUBMISSON"}) + 1
    <3>1. "IN_SUBMISSON" \in JobState /\ "NONE" \notin JobState
      BY DEF JobState, Completed
    <3> QED
      BY <2>2, <2>4, <3>1
  <2>6. \A S \in SUBSET Ended : Num(g, S) = Num(f, S)
    <3>1. "IN_SUBMISSON" \notin Ended /\ "NONE" \notin Ended
      BY DEF Ended, Completed
    <3> QED
      BY <2>2, <2>4, <3>1
  <2>7. /\ {"COMPLETED_SUCCESSFULLY"} \subseteq Ended /\ {"COMPLETED_FAILED"} \subseteq Ended
        /\ {"COMPLETED_WALLTIME_REACHED"} \subseteq Ended /\ {"COMPLETED_KILLED"} \subseteq Ended
    BY DEF Ended, Completed
  <2>8. /\ \A x \in {"submitted", "from_batsim", "from_scheduler", "in_submission"} : nb[x] \in Nat
        /\ \A x \in {"from_batsim", "rejected", "scheduled", "completed", "successful", "failed", "timeout", "killed"} : nb'[x] = nb[x]
        /\ IF ack_of_dynamic_jobs
           THEN /\ nb'["submitted"] = nb["submitted"] /\ nb'["from_scheduler"] = nb["from_scheduler"]
                /\ nb'["in_submission"] = nb["in_submission"] + 1
           ELSE /\ nb'["submitted"] = nb["submitted"] + 1 /\ nb'["from_scheduler"] = nb["from_scheduler"] + 1
                /\ nb'["in_submission"] = nb["in_submission"]
    <3>1. CASE ack_of_dynamic_jobs
      BY <1>1, <2>1, <3>1 DEF CountRegistration, Count, Counter
    <3>2. CASE ~ack_of_dynamic_jobs
      BY <1>1, <2>1, <3>2 DEF CountRegistration, Count, Counter
    <3> QED
      BY <3>1, <3>2
  <2>9. Counted(nb, f, state, ack_of_dynamic_jobs)
    BY <1>2
  <2>10. Counted(nb', g, state', ack_of_dynamic_jobs')
    <3> HIDE DEF f, g
    <3> QED
      BY <1>3, <2>3, <2>5, <2>6, <2>7, <2>8, <2>9 DEF Counted
  <2> QED
    BY <2>10, CountedThen
<1>9. ASSUME NEW j, NEW v, ChangeJobState(j, v) PROVE CountInv'
  BY <1>4, <1>9 DEF ChangeJobState, job_vars
<1>10. ASSUME NotifyRegistrationFinished \/ WakeMeUpAt PROVE CountInv'
  BY <1>4, <1>10 DEF NotifyRegistrationFinished, WakeMeUpAt, Call, job_vars
<1> QED
  BY <1>6, <1>7, <1>8, <1>9, <1>10 DEF ClientCall

\* The counters follow the job table.
LEMMA CountStep ==
  ASSUME ConstantsAssumption, LoopInv, [BatsimNext]_batsim_vars
  PROVE  CountInv'
<1>1. Counted(nb, job_state, state, ack_of_dynamic_jobs)
  BY CountedNow DEF LoopInv
<1>2. ASSUME nb' = nb, job_state' = job_state, state' = state, ack_of_dynamic_jobs' = ack_of_dynamic_jobs
      PROVE  CountInv'
  BY <1>1, <1>2, CountedThen
<1>3. CASE Sim \/ Receive \/ Timeout \/ SendReply \/ ClientConsume \/ ClientReturn \/ UNCHANGED batsim_vars
  <2>1. CASE Sim
    BY <1>2, <2>1, SimBoxes DEF loop_vars, api_vars
  <2>2. CASE Receive \/ Timeout \/ SendReply \/ ClientConsume \/ ClientReturn \/ UNCHANGED batsim_vars
    BY <1>2, <2>2 DEF Receive, Timeout, SendReply, ClientConsume, ClientReturn, batsim_vars, loop_vars, api_vars, job_vars
  <2> QED
    BY <1>3, <2>1, <2>2
<1>4. CASE DispatchSimulationBegins
  <2>1. ~initialised /\ UNCHANGED <<nb, job_state, state>>
    BY <1>4, FirstMessage DEF DispatchSimulationBegins, api_vars, job_vars
  <2>2. \A k \in Job : job_state[k] = "NONE"
    BY <2>1 DEF LoopInv, WayInv, Starting
  <2>3. Num(job_state, JobState) = 0 /\ Num(job_state, {"IN_SUBMISSON"}) = 0
    <3>1. \A S : "NONE" \notin S => {k \in Job : job_state[k] \in S} = {}
      BY <2>2
    <3>2. "NONE" \notin JobState
      BY DEF JobState, Completed
    <3> QED
      BY <3>1, <3>2, FS_EmptySet DEF Num
  <2>4. nb["in_submission"] = 0
    <3>1. \A c \in Counter : nb[c] \in Nat
      BY DEF LoopInv, TypeInv, TypeOK, JobTypeOK
    <3>2. nb["submitted"] \in Nat /\ nb["in_submission"] \in Nat
      BY <3>1 DEF Counter
    <3> QED
      BY <1>1, <2>3, <3>2 DEF Counted
  <2>5. Counted(nb', job_state', state', ack_of_dynamic_jobs')
    BY <1>1, <2>1, <2>3, <2>4 DEF Counted
  <2> QED
    BY <2>5, CountedThen
<1>5. CASE DispatchSimulationEnds \/ DispatchJobKilled \/ DispatchRequestedCall \/ DispatchNotify \/ DispatchNoMoreEvents
  BY <1>2, <1>5 DEF DispatchSimulationEnds, DispatchJobKilled, DispatchRequestedCall, DispatchNotify,
                    DispatchNoMoreEvents, api_vars, job_vars
<1> QED
  BY <1>3, <1>4, <1>5, SubmissionCounted, CompletionCounted, CallCounted
     DEF BatsimNext, Library, Dispatch, ClientNext, Terminated
-----------------------------------------------------------------------------
\* A completed job, and a killed one

\* A job that has come to its end stays as it is: no event and no call about
\* it is left.
LEMMA EndedKept ==
  ASSUME ConstantsAssumption, LoopInv, [BatsimNext]_batsim_vars, NEW j \in Job, job_state[j] \in Ended
  PROVE  job_state'[j] = job_state[j]
<1>1. job_state \in [Job -> JobState \cup {"NONE"}] /\ state[j] = "RUNNING"
  BY DEF LoopInv, TypeInv, TypeOK, JobTypeOK, WayInv, JobInv, Table
<1>2. CASE DispatchJobSubmitted
  <2>1. PICK k \in Job : Submitted(k) \in ToSet(Inbox) /\ job_state' = [job_state EXCEPT ![k] = "SUBMITTED"]
    BY <1>2, SubmittedDispatched
  <2>2. Fresh(k)
    BY <2>1 DEF LoopInv, WayInv, JobInv, Incoming
  <2>3. k # j
    BY <1>1, <2>2 DEF Fresh, Touched
  <2> QED
    BY <1>1, <2>1, <2>3
<1>3. CASE DispatchJobCompleted
  <2>1. PICK k \in Job, o \in Outcomes \cup {"COMPLETED_KILLED"} :
          Head(Inbox) \in ToSet(Inbox) \cap Completions(k) /\ job_state' = [job_state EXCEPT ![k] = StateNamed(o)]
    BY <1>3, CompletionDispatched
  <2>2. job_state[k] \notin Ended
    BY <2>1 DEF LoopInv, WayInv, JobInv, Incoming
  <2> QED
    BY <1>1, <2>1, <2>2
<1>4. CASE ClientCall
  <2>1. ASSUME NEW K \in SUBSET Job, \A k \in K : Alive(k), KillJobs(K) PROVE job_state'[j] = job_state[j]
    BY <2>1 DEF KillJobs, Alive, Ended
  <2>2. ASSUME NEW k \in Dynamic, job_state[k] = "NONE", RegisterJob(k) PROVE job_state'[j] = job_state[j]
    BY <1>1, <2>2 DEF RegisterJob, Ended, Completed
  <2> QED
    BY <1>4, <2>1, <2>2
       DEF ClientCall, ExecuteJobs, RejectJobs, ChangeJobState, NotifyRegistrationFinished, WakeMeUpAt, Call, job_vars
<1>5. CASE Sim
  BY <1>5, SimBoxes
<1>6. CASE \/ Receive \/ Timeout \/ SendReply \/ ClientConsume \/ ClientReturn \/ UNCHANGED batsim_vars
           \/ DispatchSimulationBegins \/ DispatchSimulationEnds \/ DispatchJobKilled \/ DispatchRequestedCall
           \/ DispatchNotify \/ DispatchNoMoreEvents
  BY <1>6 DEF Receive, Timeout, SendReply, ClientConsume, ClientReturn, batsim_vars, job_vars,
              DispatchSimulationBegins, DispatchSimulationEnds, DispatchJobKilled, DispatchRequestedCall,
              DispatchNotify, DispatchNoMoreEvents
<1> QED
  BY <1>2, <1>3, <1>4, <1>5, <1>6 DEF BatsimNext, Library, Dispatch, ClientNext, Terminated

\* The explanation of a kill survives: what the table says of a killed job
\* stays, other events come, and a completion goes when it is in the table.
LEMMA Explanations ==
  ASSUME NEW q \in Seq(SimEvent), NEW f, NEW g, Explained(q, f),
         \A j \in Job : f[j] = "COMPLETED_KILLED" => g[j] = "COMPLETED_KILLED"
  PROVE  /\ Explained(q, g)
         /\ \A x \in SimEvent : x.type # "JOB_KILLED" => Explained(Append(q, x), g)
         /\ /\ q # <<>>
            /\ \A j \in Job : Head(q) = JobCompleted(j, "COMPLETED_KILLED") => g[j] = "COMPLETED_KILLED"
            => Explained(Tail(q), g)
<1>1. Explained(q, g)
  BY DEF Explained
<1>2. ASSUME NEW x \in SimEvent, x.type # "JOB_KILLED" PROVE Explained(Append(q, x), g)
  <2> DEFINE a == Append(q, x)
  <2>1. ToSet(a) = ToSet(q) \cup {x} /\ \A e, f1 : Preceded(q, e, f1) /\ (x = e => f1 \in ToSet(q)) => Preceded(a, e, f1)
    BY OneMore
  <2> HIDE DEF a
  <2> SUFFICES ASSUME NEW e \in ToSet(a), NEW j \in Job, e.type = "JOB_KILLED", j \in e.progress
               PROVE  g[j] = "COMPLETED_KILLED" \/ Preceded(a, e, JobCompleted(j, "COMPLETED_KILLED"))
    BY DEF Explained, a
  <2>2. e \in ToSet(q) /\ x # e
    BY <1>2, <2>1
  <2> QED
    BY <1>1, <2>1, <2>2 DEF Explained
<1>3. ASSUME q # <<>>, \A j \in Job : Head(q) = JobCompleted(j, "COMPLETED_KILLED") => g[j] = "COMPLETED_KILLED"
      PROVE  Explained(Tail(q), g)
  <2> SUFFICES ASSUME NEW e \in ToSet(Tail(q)), NEW j \in Job, e.type = "JOB_KILLED", j \in e.progress
               PROVE  g[j] = "COMPLETED_KILLED" \/ Preceded(Tail(q), e, JobCompleted(j, "COMPLETED_KILLED"))
    BY DEF Explained
  <2>1. e \in ToSet(q)
    BY <1>3, HeadGone
  <2>2. g[j] = "COMPLETED_KILLED" \/ Preceded(q, e, JobCompleted(j, "COMPLETED_KILLED"))
    BY <1>1, <2>1 DEF Explained
  <2>3. Preceded(q, e, JobCompleted(j, "COMPLETED_KILLED")) /\ Head(q) # JobCompleted(j, "COMPLETED_KILLED")
        => Preceded(Tail(q), e, JobCompleted(j, "COMPLETED_KILLED"))
    BY <1>3, HeadGone
  <2> QED
    BY <1>3, <2>2, <2>3
<1> QED
  BY <1>1, <1>2, <1>3

\* A kill is told after the completions of the jobs it hit.
LEMMA KillExplained ==
  ASSUME ConstantsAssumption, TypeInv, InjectKill, NEW f, Explained(mailbox, f)
  PROVE  Explained(mailbox', f)
<1>1. PICK K \in SUBSET Job, hit \in SUBSET Job, b \in Seq(SimEvent) :
        /\ ToSet(b) = {JobCompleted(j, "COMPLETED_KILLED") : j \in hit}
        /\ mailbox' = Append(mailbox \o b, Killed(K, hit))
  BY KillEffect
<1> DEFINE q == mailbox \o b
           x == Killed(K, hit)
<1>2. /\ q \in Seq(SimEvent) /\ ToSet(q) = ToSet(mailbox) \cup ToSet(b) /\ x \in SimEvent
      /\ \A e, c : Preceded(mailbox, e, c) /\ e \notin ToSet(b) => Preceded(q, e, c)
  BY EventsExist, SeveralMore DEF TypeInv
<1>3. mailbox' = Append(q, x)
  BY <1>1
<1>4. x.type = "JOB_KILLED" /\ x.progress = hit /\ \A e \in ToSet(b) : e.type = "JOB_COMPLETED"
  BY <1>1, EventFields
<1> HIDE DEF q, x
<1>5. /\ ToSet(mailbox') = ToSet(q) \cup {x}
      /\ \A e, c : Preceded(q, e, c) /\ (x = e => c \in ToSet(q)) => Preceded(mailbox', e, c)
  BY <1>2, <1>3, OneMore
<1> SUFFICES ASSUME NEW e \in ToSet(mailbox'), NEW j \in Job, e.type = "JOB_KILLED", j \in e.progress
             PROVE  f[j] = "COMPLETED_KILLED" \/ Preceded(mailbox', e, JobCompleted(j, "COMPLETED_KILLED"))
  BY DEF Explained
<1> DEFINE c == JobCompleted(j, "COMPLETED_KILLED")
<1>6. e \notin ToSet(b)
  BY <1>4
<1>7. CASE e \in ToSet(mailbox)
  <2>1. f[j] = "COMPLETED_KILLED" \/ Preceded(mailbox, e, c)
    BY <1>7 DEF Explained
  <2>2. Preceded(mailbox, e, c) => c \in ToSet(mailbox)
    BY <1>7, Members DEF TypeInv
  <2> HIDE DEF c
  <2>3. Preceded(mailbox, e, c) => Preceded(q, e, c) /\ c \in ToSet(q)
    BY <1>2, <1>6, <2>2
  <2>4. Preceded(mailbox, e, c) => Preceded(mailbox', e, c)
    BY <1>5, <2>3
  <2> QED
    BY <2>1, <2>4 DEF c
<1>8. CASE e \notin ToSet(mailbox)
  <2>1. e = x
    BY <1>2, <1>5, <1>6, <1>8
  <2>2. c \in ToSet(q)
    BY <1>1, <1>2, <1>4, <2>1
  <2>3. Preceded(mailbox, e, c)
    BY <1>8, Members DEF TypeInv
  <2> HIDE DEF c
  <2>4. Preceded(q, e, c)
    BY <1>2, <1>6, <2>3
  <2>5. Preceded(mailbox', e, c)
    BY <1>5, <2>2, <2>4
  <2> QED
    BY <2>5 DEF c
<1> QED
  BY <1>7, <1>8

\* Every kill under way stays explained.
LEMMA KillsStep ==
  ASSUME ConstantsAssumption, LoopInv, KillsTold, [BatsimNext]_batsim_vars
  PROVE  KillsTold'
<1> DEFINE f == job_state
           g == job_state'
           Kept == Explained(Inbox', g)
<1>1. /\ TypeInv /\ Inbox \in Seq(SimEvent) /\ Explained(Inbox, f)
      /\ \A j \in Job : f[j] = "COMPLETED_KILLED" => g[j] = "COMPLETED_KILLED"
  BY EndedKept, BoxTypes DEF LoopInv, KillsTold, Ended, Completed
<1> HIDE DEF f, g
<1>2. /\ Explained(Inbox, g)
      /\ \A x \in SimEvent : x.type # "JOB_KILLED" => Explained(Append(Inbox, x), g)
      /\ /\ Inbox # <<>>
         /\ \A j \in Job : Head(Inbox) = JobCompleted(j, "COMPLETED_KILLED") => g[j] = "COMPLETED_KILLED"
         => Explained(Tail(Inbox), g)
  BY <1>1, Explanations
<1>3. \A q, x : q = Inbox /\ x \in SimEvent /\ x.type # "JOB_KILLED" => Explained(Append(q, x), g)
  BY <1>2
<1>4. CASE Sim
  <2>1. Inbox = mailbox /\ Inbox' = mailbox' /\ f = g
    BY <1>4, SimBoxes DEF f, g
  <2>2. ASSUME SimTick \/ InjectExecute \/ InjectReject \/ InjectChange \/ InjectNotify \/ InjectCallMeLater PROVE Kept
    <3>1. mailbox' = mailbox
      BY <2>2 DEF SimTick, InjectExecute, InjectReject, InjectChange, InjectNotify, InjectCallMeLater, sim_vars
    <3> QED
      BY <1>2, <2>1, <3>1
  <2>3. ASSUME NEW j \in Job, SimSubmit(j) PROVE Kept
    <3>1. /\ Submitted(j) \in SimEvent /\ Submitted(j).type # "JOB_KILLED"
          /\ Signal("NOTIFY") \in SimEvent /\ Signal("NOTIFY").type # "JOB_KILLED"
      BY EventsExist, EventFields
    <3> DEFINE q == Append(mailbox, Submitted(j))
    <3>2. q \in Seq(SimEvent) /\ Explained(q, g)
      BY <1>1, <1>2, <2>1, <3>1, OneMore
    <3>3. mailbox' = q \/ mailbox' = Append(q, Signal("NOTIFY"))
      BY <1>1, <2>3, SubmitEffect
    <3> HIDE DEF q
    <3>4. Explained(Append(q, Signal("NOTIFY")), g)
      BY <3>1, <3>2, Explanations
    <3> QED
      BY <2>1, <3>2, <3>3, <3>4
  <2>4. ASSUME NEW j \in Job, NEW o \in Outcomes, SimComplete(j, o) PROVE Kept
    <3>1. JobCompleted(j, o) \in SimEvent /\ JobCompleted(j, o).type # "JOB_KILLED"
      BY EventsExist, EventFields
    <3>2. mailbox' = Append(mailbox, JobCompleted(j, o))
      BY <2>4 DEF SimComplete
    <3> QED
      BY <1>2, <2>1, <3>1, <3>2
  <2>5. ASSUME SimCall PROVE Kept
    <3>1. Signal("REQUESTED_CALL") \in SimEvent /\ Signal("REQUESTED_CALL").type # "JOB_KILLED"
      BY EventsExist, EventFields
    <3>2. mailbox' = Append(mailbox, Signal("REQUESTED_CALL"))
      BY <2>5 DEF SimCall
    <3> QED
      BY <1>2, <2>1, <3>1, <3>2
  <2>6. ASSUME SimEnd PROVE Kept
    <3>1. Ends \in SimEvent /\ Ends.type # "JOB_KILLED"
      BY EventsExist, EventFields DEF Ends
    <3>2. mailbox = <<>> /\ mailbox' = <<Ends>>
      BY <2>6 DEF SimEnd, Finished, Ends
    <3>3. mailbox' = Append(mailbox, Ends)
      BY <3>2
    <3> QED
      BY <1>2, <2>1, <3>1, <3>3
  <2>7. ASSUME InjectRegister PROVE Kept
    <3>1. PICK j \in Dynamic : mailbox' = IF ack_of_dynamic_jobs THEN Append(mailbox, Submitted(j)) ELSE mailbox
      BY <2>7, RegisterEffect
    <3>2. Submitted(j) \in SimEvent /\ Submitted(j).type # "JOB_KILLED"
      BY EventsExist, EventFields DEF Job
    <3> QED
      BY <1>2, <2>1, <3>1, <3>2
  <2>8. ASSUME InjectKill PROVE Kept
    BY <1>1, <2>1, <2>8, KillExplained
  <2> HIDE DEF Kept
  <2>9. Kept
    BY <1>4, <2>2, <2>3, <2>4, <2>5, <2>6, <2>7, <2>8 DEF Sim, Inject
  <2> QED
    BY <2>9 DEF KillsTold, g, Kept
<1>5. CASE Receive \/ Timeout \/ SendReply \/ ClientConsume \/ ClientReturn \/ ClientCall \/ UNCHANGED batsim_vars
  <2>0. Alternating
    BY DEF LoopInv, WayInv
  <2>1. Receive \/ Timeout \/ SendReply => Inbox' = Inbox
    BY <2>0, Boxes DEF Alternating, Receive, Timeout, SendReply, sim_vars
  <2>2. ClientConsume \/ ClientCall \/ UNCHANGED batsim_vars => Inbox' = Inbox
    BY DEF Inbox, Undealt, ClientConsume, ClientCall, batsim_vars, sim_vars, loop_vars
  <2>4. ClientReturn => Inbox' = Inbox
    BY <2>0, Boxes DEF Alternating, ClientReturn, CallbackReturns, InitReturns, sim_vars
  <2>3. Inbox' = Inbox
    BY <1>5, <2>1, <2>2, <2>4
  <2> QED
    BY <1>2, <2>3 DEF KillsTold, g
<1>6. CASE Dispatch
  <2>1. CASE DispatchNoMoreEvents
    <3>1. Inbox' = Inbox
      BY <2>1, Boxes DEF DispatchNoMoreEvents
    <3> QED
      BY <1>2, <3>1 DEF KillsTold, g
  <2>2. CASE DispatchJobCompleted
    <3>1. PICK j \in Job, o \in Outcomes \cup {"COMPLETED_KILLED"} :
            /\ Inbox # <<>> /\ Head(Inbox) = JobCompleted(j, o) /\ Inbox' = Tail(Inbox)
            /\ g = [f EXCEPT ![j] = StateNamed(o)] /\ (o = "COMPLETED_KILLED" <=> StateNamed(o) = "COMPLETED_KILLED")
      BY <2>2, CompletionDispatched DEF f, g
    <3>2. f \in [Job -> JobState \cup {"NONE"}]
      BY <1>1 DEF TypeInv, TypeOK, JobTypeOK, f
    <3>3. ASSUME NEW k \in Job, Head(Inbox) = JobCompleted(k, "COMPLETED_KILLED") PROVE g[k] = "COMPLETED_KILLED"
      <4>1. {k} = {j} /\ o = "COMPLETED_KILLED"
        <5>1. JobCompleted(j, o) = JobCompleted(k, "COMPLETED_KILLED")
          BY <3>1, <3>3
        <5>2. JobCompleted(j, o).jobs = JobCompleted(k, "COMPLETED_KILLED").jobs
          BY <5>1
        <5>3. JobCompleted(j, o).state = JobCompleted(k, "COMPLETED_KILLED").state
          BY <5>1
        <5>4. JobCompleted(j, o).jobs = {j} /\ JobCompleted(j, o).state = o
          BY EventFields
        <5>5. /\ JobCompleted(k, "COMPLETED_KILLED").jobs = {k}
              /\ JobCompleted(k, "COMPLETED_KILLED").state = "COMPLETED_KILLED"
          BY EventFields
        <5> QED
          BY <5>2, <5>3, <5>4, <5>5
      <4>2. k = j
        BY <4>1
      <4> QED
        BY <3>1, <3>2, <4>1, <4>2
    <3> QED
      BY <1>2, <3>1, <3>3 DEF KillsTold, g
  <2>3. ASSUME NEW t, Dispatching(t), t # "JOB_COMPLETED", Inbox' = Tail(events) PROVE Kept
    <3>1. Inbox = events /\ Inbox # <<>> /\ Head(Inbox).type = t
      BY <2>3, Boxes DEF Dispatching
    <3>2. \A j : Head(Inbox) # JobCompleted(j, "COMPLETED_KILLED")
      BY <2>3, <3>1, EventFields
    <3> QED
      BY <1>2, <2>3, <3>1, <3>2
  <2>4. CASE DispatchSimulationBegins \/ DispatchSimulationEnds \/ DispatchJobSubmitted \/ DispatchJobKilled
             \/ DispatchRequestedCall \/ DispatchNotify
    <3>1. PICK t \in {"SIMULATION_BEGINS", "SIMULATION_ENDS", "JOB_SUBMITTED", "JOB_KILLED", "REQUESTED_CALL", "NOTIFY"} :
            Dispatching(t)
      BY <2>4 DEF DispatchSimulationBegins, DispatchSimulationEnds, DispatchJobSubmitted, DispatchJobKilled,
                  DispatchRequestedCall, DispatchNotify
    <3>2. events # <<>> /\ phase = "events"
      BY <3>1 DEF Dispatching
    <3>3. \/ phase' = "handler" /\ events' = events
          \/ phase' = phase /\ events' = Tail(events)
          \/ phase' = "exception" /\ events' = events
      BY <2>4 DEF DispatchSimulationBegins, DispatchSimulationEnds, DispatchJobSubmitted, DispatchJobKilled,
                  DispatchRequestedCall, DispatchNotify
    <3>4. CASE phase' # "exception"
      <4>1. Inbox' = Tail(events)
        BY <3>2, <3>3, <3>4, Boxes
      <4>2. Kept
        BY <2>3, <3>1, <4>1
      <4> QED
        BY <4>2 DEF KillsTold, g
    <3>5. CASE phase' = "exception"
      <4>1. Inbox' = Inbox
        BY <3>2, <3>3, <3>5, Boxes
      <4> QED
        BY <1>2, <4>1 DEF KillsTold, g
    <3> QED
      BY <3>4, <3>5
  <2> QED
    BY <1>6, <2>1, <2>2, <2>4 DEF Dispatch
<1> QED
  BY <1>4, <1>5, <1>6 DEF BatsimNext, Library, ClientNext, Terminated

\* onJobsKilled is told what is in the table.
LEMMA CallbackStep ==
  ASSUME ConstantsAssumption, LoopInv, KillsTold, KilledCallbackOnlyForKilled, [BatsimNext]_batsim_vars
  PROVE  KilledCallbackOnlyForKilled'
<1> SUFFICES ASSUME phase' = "handler", events' # <<>>, Head(events').type = "JOB_KILLED", NEW j \in Head(events').jobs
             PROVE  job_state'[j] = "COMPLETED_KILLED"
  BY DEF KilledCallbackOnlyForKilled, Handling
<1>1. CASE phase = "handler" /\ events' = events
  <2>1. job_state[j] = "COMPLETED_KILLED"
    BY <1>1 DEF KilledCallbackOnlyForKilled, Handling
  <2>2. j \in Job
    <3>1. Head(events) \in SimEvent
      BY <1>1, HeadGone DEF LoopInv, TypeInv
    <3>2. PICK K \in SUBSET Job, P \in SUBSET Job : Head(events) = Killed(K, P)
      BY <1>1, <3>1, EventKinds
    <3> QED
      BY <1>1, <3>2, EventFields
  <2> QED
    BY <2>1, <2>2, EndedKept DEF Ended, Completed
<1>2. CASE DispatchJobKilled
  <2>1. /\ phase = "events" /\ events # <<>> /\ events' = events
        /\ Head(events).jobs \subseteq Head(events).progress /\ job_state' = job_state
    BY <1>2 DEF DispatchJobKilled, Dispatching, job_vars
  <2>2. Inbox = events /\ events \in Seq(SimEvent)
    BY <2>1, Boxes DEF LoopInv, TypeInv
  <2>3. /\ Head(events) \in SimEvent /\ Head(events) \in ToSet(events)
        /\ \A f : ~Preceded(events, Head(events), f)
    BY <2>1, <2>2, HeadGone
  <2>4. PICK K \in SUBSET Job, P \in SUBSET Job : Head(events) = Killed(K, P)
    BY <2>1, <2>3, EventKinds
  <2>5. j \in Job /\ j \in Head(events).progress
    BY <2>1, <2>4, EventFields
  <2>6. job_state[j] = "COMPLETED_KILLED"
    BY <2>1, <2>2, <2>3, <2>5 DEF KillsTold, Explained
  <2> QED
    BY <2>1, <2>6
<1>3. CASE phase # "handler" /\ ~DispatchJobKilled
  <2>1. Dispatch
    BY <1>3 DEF BatsimNext, Library, ClientNext, Terminated, Sim, SimTick, SimSubmit, SimComplete, SimCall, SimEnd,
         Inject, InjectExecute, InjectReject, InjectChange, InjectKill, InjectRegister, InjectNotify, InjectCallMeLater,
         Injecting, Injected, Waiting, Receive, Timeout, SendReply, ClientCall, ClientConsume, ClientReturn,
         CallbackReturns, InitReturns, batsim_vars, loop_vars
  <2> QED
    BY <1>3, <2>1
       DEF Dispatch, DispatchSimulationBegins, DispatchSimulationEnds, DispatchJobSubmitted, DispatchJobCompleted,
           DispatchRequestedCall, DispatchNotify, DispatchNoMoreEvents, Dispatching
<1>4. phase = "handler" => events' = events
  BY DEF BatsimNext, Library, ClientNext, Terminated, Sim, SimTick, SimSubmit, SimComplete, SimCall, SimEnd,
         Inject, InjectExecute, InjectReject, InjectChange, InjectKill, InjectRegister, InjectNotify, InjectCallMeLater,
         Injecting, Injected, Waiting, Receive, Timeout, SendReply, ClientCall, ClientConsume, ClientReturn,
         CallbackReturns, InitReturns, batsim_vars, loop_vars, Dispatch, Dispatching,
         DispatchSimulationBegins, DispatchSimulationEnds, DispatchJobSubmitted, DispatchJobCompleted,
         DispatchJobKilled, DispatchRequestedCall, DispatchNotify, DispatchNoMoreEvents
<1> QED
  BY <1>1, <1>2, <1>3, <1>4
-----------------------------------------------------------------------------
\* Theorems that hold even if commands are lost

\* At the start only the first message is under way.
LEMMA LoopInit ==
  ASSUME ConstantsAssumption, BatsimInit
  PROVE  LoopInv /\ KillsTold /\ KilledCallbackOnlyForKilled
<1> DEFINE first == <<Begins>>
<1>1. /\ mailbox = first /\ Inbox = first /\ commands = <<>> /\ events_to_send = <<>> /\ events = <<>> /\ Outbox = <<>>
      /\ phase = "recv"
  BY DEF BatsimInit, Inbox, Outbox, Begins
<1>2. first \in Seq(SimEvent) /\ ToSet(first) = {Begins} /\ ToSet(Outbox) = {} /\ Outbox \in Seq(ApiCommand)
  <2>1. Begins \in SimEvent
    BY EventsExist
  <2>2. ToSet(<<>>) = {}
    BY DEF ToSet
  <2> QED
    BY <1>1, <2>1, <2>2 DEF ToSet
<1>3. TypeInv
  <2>1. mailbox \in Seq(EventSet)
    BY <1>1, <1>2, Formats
  <2>2. "NONE" \in JobState \cup {"NONE"}
    OBVIOUS
  <2> HIDE DEF first
  <2>3. SimTypeOK /\ now \in Nat
    <3>1. commands \in Seq(CommandSet)
      BY <1>1
    <3>2. /\ truth = [j \in Job |-> "absent"] /\ batsim = "running" /\ registration = TRUE /\ wakes = 0 /\ now = 0
      BY DEF BatsimInit
    <3> QED
      <4>1. truth \in [Job -> {"absent", "queued", "running", "changed", "done", "rejected"}]
        BY <3>2
      <4>2. registration \in BOOLEAN /\ wakes \in Nat /\ now \in Nat /\ batsim \in {"running", "ending", "ended", "aborted"}
        BY <3>2
      <4> QED
        BY <2>1, <3>1, <4>1, <4>2 DEF SimTypeOK
  <2>4. LoopTypeOK
    <3>1. phase = "recv" /\ events \in Seq(EventSet)
      BY <1>1
    <3>2. initialised = FALSE /\ running_simulation = FALSE /\ no_more_static_jobs = FALSE /\ ack_of_dynamic_jobs = FALSE
      BY Zenon DEF BatsimInit
    <3> QED
      BY <3>1, <3>2 DEF LoopTypeOK
  <2>5. ApiTypeOK
    BY <1>1 DEF BatsimInit, ApiTypeOK
  <2>6. JobTypeOK
    BY <2>2 DEF BatsimInit, JobTypeOK
  <2> QED
    BY <1>1, <1>2, <2>3, <2>4, <2>5, <2>6 DEF TypeInv, TypeOK
<1>4. Begins.type = "SIMULATION_BEGINS" /\ \A j, o : Begins # Submitted(j) /\ Begins # JobCompleted(j, o)
  BY EventFields DEF Begins
<1> HIDE DEF first
<1>5. Alternating /\ Starting
  BY <1>1 DEF Alternating, Starting, BatsimInit, first
<1>6. ASSUME NEW j \in Job PROVE JobInv(j)
  <2>1. truth[j] = "absent" /\ job_state[j] = "NONE" /\ state[j] = "NONE" /\ jobs_manually_changed = {}
    BY DEF BatsimInit
  <2>2. Submitted(j) \notin ToSet(Inbox) /\ ToSet(Inbox) \cap Completions(j) = {}
    BY <1>1, <1>2, <1>4 DEF Completions
  <2>3. Incoming(j)
    <3>1. AtMostOne(Inbox, {Submitted(j)}) /\ AtMostOne(Inbox, Completions(j))
      BY <1>1, <1>2, <2>2, Members
    <3> QED
      BY <2>2, <3>1 DEF Incoming
  <2>4. Outgoing(j)
    <3>1. AtMostOne(Outbox, {Registering(j)}) /\ AllBefore(Outbox, Registering(j), Notice)
      BY <1>2, Members
    <3> QED
      BY <1>2, <3>1 DEF Outgoing
  <2>5. Table(j)
    BY <2>1 DEF Table, Touched, Ended, Completed
  <2>6. Wished(j)
    BY <2>1 DEF Wished
  <2> QED
    BY <2>3, <2>4, <2>5, <2>6 DEF JobInv
<1>7. CountInv
  <2>1. \A S : "NONE" \notin S => Num(job_state, S) = 0 /\ Num(state, S) = 0
    <3>1. \A S : "NONE" \notin S => {k \in Job : job_state[k] \in S} = {} /\ {k \in Job : state[k] \in S} = {}
      BY DEF BatsimInit
    <3> QED
      BY <3>1, FS_EmptySet DEF Num
  <2>2. "NONE" \notin JobState /\ "NONE" \notin Ended
    BY DEF JobState, Ended, Completed
  <2>3. \A c \in Counter : nb[c] = 0
    BY DEF BatsimInit
  <2>4. Counted(nb, job_state, state, ack_of_dynamic_jobs)
    BY <2>1, <2>2, <2>3 DEF Counted, Counter
  <2> QED
    BY <2>4, CountedNow
<1>8. KillsTold
  BY <1>1, <1>2, <1>4 DEF KillsTold, Explained
<1>9. KilledCallbackOnlyForKilled
  BY <1>1 DEF KilledCallbackOnlyForKilled, Handling
<1> QED
  BY <1>3, <1>5, <1>6, <1>7, <1>8, <1>9 DEF LoopInv, WayInv

\* The first layer is an invariant, and with it what is told of kills.
LEMMA FirstLayer ==
  BatsimSpec => [](LoopInv /\ KillsTold /\ KilledCallbackOnlyForKilled)
<1>1. BatsimInit => LoopInv /\ KillsTold /\ KilledCallbackOnlyForKilled
  BY LoopInit, ConstantsAssumption
<1>2. LoopInv /\ KillsTold /\ KilledCallbackOnlyForKilled /\ [BatsimNext]_batsim_vars
        => LoopInv' /\ KillsTold' /\ KilledCallbackOnlyForKilled'
  BY TypeStep, WayStep, CountStep, KillsStep, CallbackStep, ConstantsAssumption DEF LoopInv
<1> QED
  BY <1>1, <1>2, PTL DEF BatsimSpec

\* Every variable keeps its type, whatever the scheduler calls and whatever
\* the simulator does: in particular no counter becomes negative.
THEOREM TypesKept == BatsimSpec => []TypeOK
<1>1. LoopInv => TypeOK
  BY DEF LoopInv, TypeInv
<1> QED
  BY <1>1, FirstLayer, PTL

\* The counters of class Batsim are what one gets by counting the jobs in its
\* job table.
THEOREM CountersAgree == BatsimSpec => []Accounting
<1>1. LoopInv => Accounting
  BY DEF LoopInv, CountInv
<1> QED
  BY <1>1, FirstLayer, PTL

\* onJobsKilled is told of no job that completed by itself.
THEOREM OnlyKilledToldKilled == BatsimSpec => []KilledCallbackOnlyForKilled
  BY FirstLayer, PTL

\* A job seen completed stays completed the way it did.
THEOREM CompletionIsFinal == BatsimSpec => CompletedIsFinal
<1>1. LoopInv /\ [BatsimNext]_batsim_vars
        => [\A j \in Job : job_state[j] \in Completed => job_state'[j] = job_state[j]]_batsim_vars
  BY EndedKept, ConstantsAssumption DEF Ended
<1> QED
  BY <1>1, FirstLayer, PTL DEF BatsimSpec, CompletedIsFinal
-----------------------------------------------------------------------------
\* The second layer is kept, if no command is issued before the loop starts

Obeyed(k) == Ordered(k) /\ UnderWay(k)

\* Nothing happens to k.
LEMMA BystanderObeyed ==
  ASSUME TypeInv, NEW k \in Job, Obeyed(k), StatusKept(k),
         \/ Outbox' = Outbox
         \/ Outbox # <<>> /\ Head(Outbox) \notin CommandsOf(k) /\ Outbox' = Tail(Outbox)
         \/ \E x \in ApiCommand : x \notin CommandsOf(k) /\ Outbox' = Append(Outbox, x)
  PROVE  Obeyed(k)'
<1>1. Outbox \in Seq(ApiCommand)
  BY BoxTypes
<1>2. SameOut(Outbox, Outbox', k)
  BY <1>1, SameOutStep
<1> QED
  BY <1>2, FrameObey DEF Obeyed

\* What a job that has started, and one nothing was commanded for, imply for
\* the commands under way.
LEMMA NoneLeft ==
  ASSUME LoopInv, NEW k \in Job, Obeyed(k)
  PROVE  /\ truth[k] \in {"running", "done", "rejected"} =>
              ToSet(Outbox) \cap Deciding(k) = {} /\ Completing(k) \notin ToSet(Outbox)
         /\ ~Touched(k) => /\ truth[k] \in {"absent", "queued"}
                           /\ ToSet(Outbox) \cap Deciding(k) = {} /\ Completing(k) \notin ToSet(Outbox)
         /\ truth[k] \notin {"running", "done"} =>
              \A K \in SUBSET Job : k \in K => Preceded(Outbox, Killing(K), Executing(k))
<1>1. JobInv(k) /\ Outbox \in Seq(ApiCommand)
  BY BoxTypes DEF LoopInv, WayInv
<1>2. truth[k] \in {"absent", "queued", "running", "changed", "done", "rejected"}
  BY DEF LoopInv, TypeInv, TypeOK, SimTypeOK
<1>3. truth[k] \in {"running", "done", "rejected"} =>
        ToSet(Outbox) \cap Deciding(k) = {} /\ Completing(k) \notin ToSet(Outbox)
  <2>1. Marking(k) \in Deciding(k)
    BY DEF Deciding
  <2>2. Preceded(Outbox, Completing(k), Marking(k)) /\ Completing(k) \in ToSet(Outbox) => Marking(k) \in ToSet(Outbox)
    BY <1>1, Members
  <2> QED
    BY <2>1, <2>2 DEF Obeyed, Ordered
<1>4. ~Touched(k) => ToSet(Outbox) \cap Deciding(k) = {} /\ Completing(k) \notin ToSet(Outbox)
  BY <1>1 DEF JobInv, Outgoing, Touched, Deciding
<1>5. ~Touched(k) => truth[k] \in {"absent", "queued"}
  BY <1>1, <1>2 DEF JobInv, Wished, Incoming, Table, Touched
<1>6. truth[k] \notin {"running", "done"} =>
        \A K \in SUBSET Job : k \in K => Preceded(Outbox, Killing(K), Executing(k))
  BY <1>1, Members DEF Obeyed, Ordered
<1> QED
  BY <1>3, <1>4, <1>5, <1>6

\* A job that runs, or has come to its end, comes to its end.
LEMMA DoneObeyed ==
  ASSUME LoopInv, NEW k \in Job, Obeyed(k), truth[k] \in {"running", "done"}, truth'[k] = "done",
         Outbox' \in Seq(ApiCommand), ToSet(Outbox') \subseteq ToSet(Outbox)
  PROVE  Obeyed(k)'
<1>1. ToSet(Outbox') \cap Deciding(k) = {} /\ Completing(k) \notin ToSet(Outbox')
  BY NoneLeft
<1>2. AtMostOne(Outbox', Deciding(k)) /\ AtMostOne(Outbox', {Completing(k)})
  BY <1>1, Members
<1> QED
  BY <1>1, <1>2, PrimedObey DEF Obeyed

\* The simulator obeys a command about one job: it can.
LEMMA OneObeyed ==
  ASSUME LoopInv, \A k \in Job : Obeyed(k), InjectExecute \/ InjectReject \/ InjectChange, phase' = phase
  PROVE  batsim' = batsim /\ \A k \in Job : Obeyed(k)'
<1>0. TypeInv
  BY DEF LoopInv
<1>1. PICK j \in Job, from \in {"queued", "changed"}, to \in {"running", "rejected", "changed", "done"} :
        /\ commands # <<>> /\ Head(commands).jobs = {j} /\ Head(commands) \in ToSet(commands)
        /\ \/ Head(commands) = Executing(j) /\ from = "queued" /\ to = "running"
           \/ Head(commands) = Rejecting(j) /\ from = "queued" /\ to = "rejected"
           \/ Head(commands) = Marking(j) /\ from = "queued" /\ to = "changed"
           \/ Head(commands) = Completing(j) /\ from = "changed" /\ to = "done"
        /\ commands' = Tail(commands) /\ mailbox' = mailbox
        /\ IF truth[j] = from THEN truth' = [truth EXCEPT ![j] = to] /\ batsim' = batsim
                              ELSE truth' = truth /\ batsim' = "aborted"
  BY <1>0, ObeyOne
<1>2. /\ Outbox = commands /\ Outbox' = Tail(Outbox) /\ Outbox # <<>> /\ Outbox \in Seq(ApiCommand)
      /\ UNCHANGED <<state, jobs_manually_changed, job_state>>
      /\ truth \in [Job -> {"absent", "queued", "running", "changed", "done", "rejected"}]
  <2>1. UNCHANGED <<state, jobs_manually_changed, job_state>> /\ phase = "recv"
    BY DEF InjectExecute, InjectReject, InjectChange, Injecting, Injected, Waiting, api_vars
  <2>2. Outbox = commands /\ Outbox' = commands'
    BY <2>1, Boxes
  <2>3. truth \in [Job -> {"absent", "queued", "running", "changed", "done", "rejected"}] /\ commands \in Seq(ApiCommand)
    BY <1>0 DEF TypeInv, TypeOK, SimTypeOK
  <2> QED
    BY <1>1, <2>1, <2>2, <2>3
<1> DEFINE c == Head(Outbox)
<1>3. /\ c \in ToSet(Outbox) /\ ToSet(Outbox) = {c} \cup ToSet(Outbox') /\ Outbox' \in Seq(ApiCommand)
      /\ \A E : AtMostOne(Outbox, E) => AtMostOne(Outbox', E) /\ (c \in E => ToSet(Outbox') \cap E = {})
      /\ \A e, f : Preceded(Outbox, e, f) => c # e /\ (c # f => Preceded(Outbox', e, f))
  BY <1>2, HeadGone
<1>4. Obeyed(j)
  OBVIOUS
<1>5. truth[j] = from
  <2>1. CASE c \in Deciding(j)
    <3>1. from = "queued"
      BY <1>1, <1>2, <2>1, CommandFields DEF Deciding
    <3>2. truth[j] = "queued" \/ Preceded(Outbox, c, Registering(j))
      BY <1>3, <1>4, <2>1 DEF Obeyed, Ordered
    <3> QED
      BY <1>3, <3>1, <3>2
  <2>2. CASE c = Completing(j)
    <3>1. from = "changed"
      BY <1>1, <1>2, <2>2, CommandFields
    <3>2. truth[j] = "changed" \/ Preceded(Outbox, c, Marking(j))
      BY <1>3, <1>4, <2>2 DEF Obeyed, Ordered
    <3> QED
      BY <1>3, <3>1, <3>2
  <2> QED
    BY <1>1, <1>2, <2>1, <2>2 DEF Deciding
<1>6. batsim' = batsim /\ truth'[j] = to /\ \A k \in Job : k # j => truth'[k] = truth[k]
  BY <1>1, <1>2, <1>5
<1>7. ASSUME NEW k \in Job, k # j PROVE Obeyed(k)'
  <2>1. c \notin CommandsOf(k)
    BY <1>1, <1>2, <1>7, AboutOthers
  <2>2. StatusKept(k)
    BY <1>2, <1>6, <1>7 DEF StatusKept
  <2> QED
    BY <1>0, <1>2, <2>1, <2>2, BystanderObeyed
<1>8. Obeyed(j)'
  <2>1. \A K : c # Killing(K)
    BY <1>1, <1>2, CommandFields
  <2>2. CASE c = Completing(j)
    <3>1. from = "changed" /\ to = "done"
      BY <1>1, <1>2, <2>2, CommandFields
    <3>2. ToSet(Outbox') \cap Deciding(j) = {}
      BY <1>3, <1>4, <1>5, <3>1 DEF Obeyed, Ordered
    <3>3. AtMostOne(Outbox', Deciding(j)) /\ AtMostOne(Outbox', {Completing(j)}) /\ Completing(j) \notin ToSet(Outbox')
      BY <1>3, <1>4, <2>2 DEF Obeyed, Ordered
    <3> QED
      BY <1>6, <3>1, <3>2, <3>3, PrimedObey DEF Obeyed
  <2>3. CASE c \in Deciding(j)
    <3>1. /\ from = "queued" /\ to \in {"running", "rejected", "changed"}
          /\ c = Marking(j) => to = "changed"
          /\ c = Executing(j) => to = "running"
      <4>1. \/ c = Executing(j) /\ from = "queued" /\ to = "running"
            \/ c = Rejecting(j) /\ from = "queued" /\ to = "rejected"
            \/ c = Marking(j) /\ from = "queued" /\ to = "changed"
            \/ c = Completing(j) /\ from = "changed" /\ to = "done"
        BY <1>1, <1>2
      <4>2. /\ Executing(j) # Rejecting(j) /\ Executing(j) # Marking(j) /\ Rejecting(j) # Marking(j)
            /\ Completing(j) \notin {Executing(j), Rejecting(j), Marking(j)}
        BY CommandFields
      <4> HIDE DEF c
      <4> QED
        BY <2>3, <4>1, <4>2 DEF Deciding
    <3>2. /\ AtMostOne(Outbox', Deciding(j)) /\ AtMostOne(Outbox', {Completing(j)})
          /\ ToSet(Outbox') \cap Deciding(j) = {}
      BY <1>3, <1>4, <2>3 DEF Obeyed, Ordered
    <3>3. Completing(j) \in ToSet(Outbox') => truth'[j] = "changed" \/ Preceded(Outbox', Completing(j), Marking(j))
      <4>1. Completing(j) \in ToSet(Outbox') => Preceded(Outbox, Completing(j), Marking(j))
        BY <1>3, <1>4, <1>5, <3>1 DEF Obeyed, Ordered
      <4> QED
        BY <1>3, <1>6, <3>1, <4>1
    <3>4. ASSUME NEW K \in SUBSET Job, Killing(K) \in ToSet(Outbox'), j \in K
          PROVE  truth'[j] = "running" \/ Preceded(Outbox', Killing(K), Executing(j))
      <4>1. Preceded(Outbox, Killing(K), Executing(j))
        BY <1>3, <1>4, <1>5, <3>1, <3>4 DEF Obeyed, Ordered
      <4> QED
        BY <1>3, <1>6, <3>1, <4>1
    <3>5. job_state'[j] = "IN_KILLING" => \E K \in SUBSET Job : j \in K /\ Killing(K) \in ToSet(Outbox')
      <4>1. job_state[j] = "IN_KILLING" => \E K \in SUBSET Job : j \in K /\ Killing(K) \in ToSet(Outbox)
        BY <1>4, <1>5, <3>1 DEF Obeyed, UnderWay
      <4> QED
        BY <1>2, <1>3, <2>1, <4>1
    <3>6. truth'[j] \notin {"absent", "queued"}
      BY <1>6, <3>1
    <3> QED
      BY <3>2, <3>3, <3>4, <3>5, <3>6, PrimedObey DEF Obeyed
  <2> QED
    BY <1>1, <1>2, <2>2, <2>3 DEF Deciding
<1> QED
  BY <1>6, <1>7, <1>8

\* A kill reaches the simulator: the jobs it is about have been started.
LEMMA KillObeyed ==
  ASSUME ConstantsAssumption, LoopInv, \A k \in Job : Obeyed(k), InjectKill, phase' = phase
  PROVE  batsim' = batsim /\ \A k \in Job : Obeyed(k)'
<1>0. TypeInv
  BY DEF LoopInv
<1>1. PICK K \in SUBSET Job, hit \in SUBSET Job :
        /\ commands # <<>> /\ Head(commands) = Killing(K) /\ commands' = Tail(commands)
        /\ hit = {j \in K : truth[j] = "running"}
        /\ truth' = [j \in Job |-> IF j \in hit THEN "done" ELSE truth[j]] /\ batsim' = batsim
  BY <1>0, KillEffect
<1>2. /\ Outbox = commands /\ Outbox' = Tail(Outbox) /\ Outbox # <<>> /\ Outbox \in Seq(ApiCommand)
      /\ UNCHANGED <<state, jobs_manually_changed, job_state>>
  <2>1. UNCHANGED <<state, jobs_manually_changed, job_state>> /\ phase = "recv"
    BY DEF InjectKill, Injecting, Injected, Waiting, api_vars
  <2>2. Outbox = commands /\ Outbox' = commands'
    BY <2>1, Boxes
  <2> QED
    BY <1>0, <1>1, <2>1, <2>2 DEF TypeInv
<1>3. /\ Killing(K) \in ToSet(Outbox) /\ ToSet(Outbox') \subseteq ToSet(Outbox) /\ Outbox' \in Seq(ApiCommand)
      /\ \A f : ~Preceded(Outbox, Killing(K), f)
  BY <1>1, <1>2, HeadGone
<1>4. ASSUME NEW k \in Job, k \in K PROVE Obeyed(k)'
  <2>1. truth[k] \in {"running", "done"}
    BY <1>3, <1>4 DEF Obeyed, Ordered
  <2>2. truth'[k] = "done"
    BY <1>1, <1>4, <2>1
  <2> QED
    BY <1>3, <2>1, <2>2, DoneObeyed
<1>5. ASSUME NEW k \in Job, k \notin K PROVE Obeyed(k)'
  <2>1. Killing(K) \notin CommandsOf(k)
    BY <1>5, AboutOthers
  <2>2. StatusKept(k)
    BY <1>1, <1>2, <1>5 DEF StatusKept
  <2> QED
    BY <1>0, <1>1, <1>2, <2>1, <2>2, BystanderObeyed
<1> QED
  BY <1>1, <1>4, <1>5
\* A registration reaches the simulator: the job is now in its queue.
LEMMA RegisterObeyed ==
  ASSUME LoopInv, \A k \in Job : Obeyed(k), InjectRegister, phase' = phase
  PROVE  batsim' = batsim /\ \A k \in Job : Obeyed(k)'
<1>0. TypeInv
  BY DEF LoopInv
<1>1. PICK j \in Dynamic :
        /\ commands # <<>> /\ Head(commands) = Registering(j) /\ commands' = Tail(commands)
        /\ truth[j] = "absent" /\ truth' = [truth EXCEPT ![j] = "queued"] /\ batsim' = batsim
  BY RegisterEffect
<1>2. /\ j \in Job /\ Outbox = commands /\ Outbox' = Tail(Outbox) /\ Outbox # <<>> /\ Outbox \in Seq(ApiCommand)
      /\ UNCHANGED <<state, jobs_manually_changed, job_state>>
      /\ truth \in [Job -> {"absent", "queued", "running", "changed", "done", "rejected"}]
  <2>1. UNCHANGED <<state, jobs_manually_changed, job_state>> /\ phase = "recv"
    BY DEF InjectRegister, Injecting, Injected, Waiting, api_vars
  <2>2. Outbox = commands /\ Outbox' = commands'
    BY <2>1, Boxes
  <2>3. truth \in [Job -> {"absent", "queued", "running", "changed", "done", "rejected"}] /\ commands \in Seq(ApiCommand)
    BY <1>0 DEF TypeInv, TypeOK, SimTypeOK
  <2> QED
    BY <1>1, <2>1, <2>2, <2>3 DEF Job
<1> DEFINE c == Head(Outbox)
<1>3. /\ ToSet(Outbox) = {c} \cup ToSet(Outbox')
      /\ \A E : AtMostOne(Outbox, E) => AtMostOne(Outbox', E)
      /\ \A e, f : Preceded(Outbox, e, f) /\ c # f => Preceded(Outbox', e, f)
  BY <1>2, HeadGone
<1>4. c = Registering(j) /\ truth'[j] = "queued" /\ \A k \in Job : k # j => truth'[k] = truth[k]
  BY <1>1, <1>2
<1>5. ASSUME NEW k \in Job, k # j PROVE Obeyed(k)'
  <2>1. c \notin CommandsOf(k)
    BY <1>4, <1>5, AboutOthers
  <2>2. StatusKept(k)
    BY <1>2, <1>4, <1>5 DEF StatusKept
  <2> QED
    BY <1>0, <1>2, <2>1, <2>2, BystanderObeyed
<1>6. Obeyed(j)'
  <2>1. Obeyed(j)
    BY <1>2
  <2>2. /\ c \notin {Executing(j), Rejecting(j), Marking(j), Completing(j)} /\ c \notin Deciding(j)
        /\ \A K : c # Killing(K)
    BY <1>4, CommandFields DEF Deciding
  <2>3. AtMostOne(Outbox', Deciding(j)) /\ AtMostOne(Outbox', {Completing(j)})
    BY <1>3, <2>1 DEF Obeyed, Ordered
  <2>4. Completing(j) \in ToSet(Outbox') => Preceded(Outbox', Completing(j), Marking(j))
    <3>1. Completing(j) \in ToSet(Outbox) => Preceded(Outbox, Completing(j), Marking(j))
      BY <1>1, <2>1 DEF Obeyed, Ordered
    <3> QED
      BY <1>3, <2>2, <3>1
  <2>5. ASSUME NEW K \in SUBSET Job, Killing(K) \in ToSet(Outbox'), j \in K
        PROVE  Preceded(Outbox', Killing(K), Executing(j))
    <3>1. Preceded(Outbox, Killing(K), Executing(j))
      BY <1>1, <1>3, <2>1, <2>5 DEF Obeyed, Ordered
    <3> QED
      BY <1>3, <2>2, <3>1
  <2>6. /\ Touched(j)' => ToSet(Outbox') \cap Deciding(j) # {}
        /\ job_state'[j] = "IN_KILLING" => \E K \in SUBSET Job : j \in K /\ Killing(K) \in ToSet(Outbox')
    <3>1. /\ Touched(j) => ToSet(Outbox) \cap Deciding(j) # {}
          /\ job_state[j] = "IN_KILLING" => \E K \in SUBSET Job : j \in K /\ Killing(K) \in ToSet(Outbox)
      BY <1>1, <2>1 DEF Obeyed, UnderWay
    <3>2. Touched(j)' <=> Touched(j)
      BY <1>2 DEF Touched
    <3> QED
      BY <1>2, <1>3, <2>2, <3>1, <3>2
  <2>7. Ordered(j)'
    BY <1>2, <1>4, <2>3, <2>4, <2>5, PrimedObey
  <2>8. UnderWay(j)'
    BY <1>2, <1>4, <2>6, PrimedObey
  <2> QED
    BY <2>7, <2>8 DEF Obeyed
<1> QED
  BY <1>1, <1>5, <1>6

\* A job of the workload reaches the simulator's queue.
LEMMA SubmitObeyed ==
  ASSUME LoopInv, \A k \in Job : Obeyed(k), NEW j \in Job, SimSubmit(j), phase' = phase
  PROVE  \A k \in Job : Obeyed(k)'
<1>1. /\ TypeInv /\ Outbox' = Outbox /\ truth[j] = "absent" /\ truth' = [truth EXCEPT ![j] = "queued"]
      /\ UNCHANGED <<state, jobs_manually_changed, job_state>>
      /\ truth \in [Job -> {"absent", "queued", "running", "changed", "done", "rejected"}]
  BY Boxes DEF SimSubmit, Waiting, api_vars, LoopInv, TypeInv, TypeOK, SimTypeOK
<1>2. truth'[j] = "queued" /\ \A k \in Job : k # j => truth'[k] = truth[k]
  BY <1>1
<1>3. ASSUME NEW k \in Job, k # j PROVE Obeyed(k)'
  <2>1. StatusKept(k)
    BY <1>1, <1>2, <1>3 DEF StatusKept
  <2> QED
    BY <1>1, <2>1, BystanderObeyed
<1>4. Obeyed(j)'
  <2>1. Touched(j)' <=> Touched(j)
    BY <1>1 DEF Touched
  <2> QED
    BY <1>1, <1>2, <2>1, PrimedObey DEF Obeyed, Ordered, UnderWay
<1> QED
  BY <1>3, <1>4

\* The simulator obeys, and what it does leaves the rest of the commands obeyable.
LEMMA SimObeyed ==
  ASSUME ConstantsAssumption, LoopInv, \A k \in Job : Obeyed(k), Sim
  PROVE  batsim' # "aborted" /\ \A k \in Job : Obeyed(k)'
<1> DEFINE Kept == batsim' # "aborted" /\ \A k \in Job : Obeyed(k)'
<1>1. /\ TypeInv /\ phase' = phase /\ batsim = "running"
      /\ Outbox = commands /\ Outbox' = commands' /\ Outbox \in Seq(ApiCommand)
      /\ UNCHANGED <<state, jobs_manually_changed, job_state>>
  BY SimBoxes, BoxTypes DEF LoopInv, api_vars
<1>2. ASSUME truth' = truth, Outbox' = Outbox, batsim' # "aborted" PROVE Kept
  <2>1. \A k \in Job : StatusKept(k)
    BY <1>1, <1>2 DEF StatusKept
  <2> QED
    BY <1>1, <1>2, <2>1, BystanderObeyed
<1>3. SimTick \/ SimCall \/ SimEnd => Kept
  BY <1>1, <1>2 DEF SimTick, SimCall, SimEnd, sim_vars
<1>4. ASSUME NEW j \in Job, SimSubmit(j) PROVE Kept
  <2>1. batsim' = batsim
    BY <1>4 DEF SimSubmit
  <2>2. \A k \in Job : Obeyed(k)'
    BY <1>1, <1>4, SubmitObeyed
  <2> QED
    BY <1>1, <2>1, <2>2
<1>5. ASSUME NEW j \in Job, NEW o \in Outcomes, SimComplete(j, o) PROVE Kept
  <2>1. /\ truth[j] = "running" /\ truth' = [truth EXCEPT ![j] = "done"] /\ batsim' = batsim /\ Outbox' = Outbox
        /\ truth \in [Job -> {"absent", "queued", "running", "changed", "done", "rejected"}]
    BY <1>1, <1>5 DEF SimComplete, TypeInv, TypeOK, SimTypeOK
  <2>2. truth'[j] = "done" /\ \A k \in Job : k # j => truth'[k] = truth[k]
    BY <2>1
  <2>3. Obeyed(j)'
    BY <1>1, <2>1, <2>2, DoneObeyed
  <2>4. ASSUME NEW k \in Job, k # j PROVE Obeyed(k)'
    <3>1. StatusKept(k)
      BY <1>1, <2>2, <2>4 DEF StatusKept
    <3> QED
      BY <1>1, <2>1, <3>1, BystanderObeyed
  <2> QED
    BY <1>1, <2>1, <2>3, <2>4
<1>6. ASSUME InjectNotify \/ InjectCallMeLater PROVE Kept
  <2> DEFINE c == Head(commands)
  <2>1. /\ commands # <<>> /\ commands' = Tail(commands) /\ truth' = truth /\ batsim' = batsim
        /\ c.type = "NOTIFY" \/ c.type = "CALL_ME_LATER"
    BY <1>6 DEF InjectNotify, InjectCallMeLater, Injecting
  <2>2. c \in ApiCommand
    BY <1>1, <2>1, HeadGone
  <2>3. c = Notice \/ c = WakeUp
    BY <2>1, <2>2, CommandKinds
  <2>4. \A k \in Job : c \notin CommandsOf(k)
    BY <2>3, AboutOthers
  <2>5. \A k \in Job : StatusKept(k)
    BY <1>1, <2>1 DEF StatusKept
  <2> QED
    BY <1>1, <2>1, <2>4, <2>5, BystanderObeyed
<1>7. InjectExecute \/ InjectReject \/ InjectChange \/ InjectKill \/ InjectRegister => Kept
  BY <1>1, OneObeyed, KillObeyed, RegisterObeyed
<1> HIDE DEF Kept
<1>8. Kept
  BY <1>3, <1>4, <1>5, <1>6, <1>7 DEF Sim, Inject
<1> QED
  BY <1>8 DEF Kept

\* A message dispatched changes the table of a job in the way the second layer
\* allows: a job just submitted was not commanded anything, and a completed
\* one is over.
LEMMA DispatchObeyed ==
  ASSUME ConstantsAssumption, LoopInv, \A k \in Job : Obeyed(k), Dispatch
  PROVE  \A k \in Job : Obeyed(k)'
<1>1. TypeInv /\ truth' = truth
  BY DEF LoopInv, Dispatch, DispatchSimulationBegins, DispatchSimulationEnds, DispatchJobSubmitted, DispatchJobCompleted,
         DispatchJobKilled, DispatchRequestedCall, DispatchNotify, DispatchNoMoreEvents, sim_vars
<1>2. Outbox' = Outbox
  BY Boxes DEF Dispatch, DispatchSimulationBegins, DispatchSimulationEnds, DispatchJobSubmitted, DispatchJobCompleted,
         DispatchJobKilled, DispatchRequestedCall, DispatchNotify, DispatchNoMoreEvents, Dispatching, api_vars
<1>3. ASSUME NEW k \in Job, job_state'[k] = job_state[k], state'[k] = state[k],
             jobs_manually_changed' = jobs_manually_changed
      PROVE  Obeyed(k)'
  <2>1. StatusKept(k)
    BY <1>1, <1>3 DEF StatusKept
  <2> QED
    BY <1>1, <1>2, <2>1, BystanderObeyed
<1>4. job_state \in [Job -> JobState \cup {"NONE"}] /\ state \in [Job -> {"NONE", "RUNNING", "REJECTED"}]
  BY <1>1 DEF TypeInv, TypeOK, JobTypeOK, ApiTypeOK
<1>5. ASSUME NEW k \in Job PROVE Ordered(k)'
  BY <1>1, <1>2, PrimedObey DEF Obeyed, Ordered
<1>6. CASE DispatchJobSubmitted
  <2>1. PICK j \in Job :
          /\ Submitted(j) \in ToSet(Inbox) /\ job_state' = [job_state EXCEPT ![j] = "SUBMITTED"]
          /\ state' = [state EXCEPT ![j] = "NONE"] /\ jobs_manually_changed' = jobs_manually_changed
    BY <1>6, SubmittedDispatched
  <2>2. truth[j] = "queued" /\ ~Touched(j)
    BY <2>1 DEF LoopInv, WayInv, JobInv, Incoming, Fresh
  <2>3. truth'[j] = "queued" /\ job_state'[j] = "SUBMITTED" /\ ~Touched(j)'
    BY <1>1, <1>4, <2>1, <2>2 DEF Touched
  <2>4. UnderWay(j)'
    BY <2>3, PrimedObey
  <2>5. \A k \in Job : k # j => Obeyed(k)'
    BY <1>3, <1>4, <2>1
  <2> QED
    BY <1>5, <2>4, <2>5 DEF Obeyed
<1>7. CASE DispatchJobCompleted
  <2>1. PICK j \in Job, o \in Outcomes \cup {"COMPLETED_KILLED"} :
          /\ Head(Inbox) \in ToSet(Inbox) \cap Completions(j) /\ job_state' = [job_state EXCEPT ![j] = StateNamed(o)]
          /\ UNCHANGED <<state, jobs_manually_changed>>
    BY <1>7, CompletionDispatched
  <2>2. truth'[j] = "done"
    BY <1>1, <2>1 DEF LoopInv, WayInv, JobInv, Incoming
  <2>3. UnderWay(j)'
    BY <2>2, PrimedObey
  <2>4. \A k \in Job : k # j => Obeyed(k)'
    BY <1>3, <1>4, <2>1
  <2> QED
    BY <1>5, <2>3, <2>4 DEF Obeyed
<1>8. CASE DispatchSimulationBegins \/ DispatchSimulationEnds \/ DispatchJobKilled \/ DispatchRequestedCall
           \/ DispatchNotify \/ DispatchNoMoreEvents
  <2>1. UNCHANGED <<job_state, state, jobs_manually_changed>>
    BY <1>8 DEF DispatchSimulationBegins, DispatchSimulationEnds, DispatchJobKilled, DispatchRequestedCall,
                DispatchNotify, DispatchNoMoreEvents, api_vars, job_vars
  <2> QED
    BY <1>3, <2>1
<1> QED
  BY <1>6, <1>7, <1>8 DEF Dispatch

\* No message comes or goes, nor is any command lost.
LEMMA LoopObeyed ==
  ASSUME LoopInv, ObeyInv, Receive \/ Timeout \/ SendReply \/ ClientConsume \/ ClientReturn \/ UNCHANGED batsim_vars
  PROVE  \A k \in Job : Obeyed(k)'
<1>1. TypeInv /\ Alternating /\ Starting /\ NothingLost /\ \A k \in Job : Obeyed(k)
  BY DEF LoopInv, WayInv, ObeyInv, Obeyed
<1>2. UNCHANGED <<truth, job_state, state, jobs_manually_changed>>
  BY DEF Receive, Timeout, SendReply, ClientConsume, ClientReturn, batsim_vars, sim_vars, api_vars, job_vars
<1>3. Receive \/ Timeout => Outbox' = Outbox
  BY Boxes DEF Receive, Timeout, sim_vars
<1>4. SendReply => Outbox' = Outbox
  <2> SUFFICES ASSUME SendReply PROVE Outbox' = Outbox
    OBVIOUS
  <2>1. /\ phase = "handler" /\ commands' = events_to_send /\ events_to_send' = <<>>
        /\ phase' \in {"init", "ended", "recv"} /\ (phase' = "init" => ~initialised)
    BY DEF SendReply, Reply
  <2>2. Outbox = events_to_send /\ (phase' = "init" => Outbox' = <<>>) /\ (phase' # "init" => Outbox' = events_to_send)
    BY <2>1, Boxes
  <2> QED
    BY <1>1, <2>1, <2>2 DEF Starting
<1>5. ClientConsume \/ UNCHANGED batsim_vars => Outbox' = Outbox
  BY DEF ClientConsume, batsim_vars, Outbox, sim_vars, loop_vars, api_vars
<1>6. ClientReturn => Outbox' = Outbox
  BY <1>1, Boxes DEF ClientReturn, CallbackReturns, InitReturns, sim_vars, api_vars, Alternating, NothingLost
<1>7. Outbox' = Outbox /\ \A k \in Job : StatusKept(k)
  BY <1>2, <1>3, <1>4, <1>5, <1>6 DEF StatusKept
<1> QED
  BY <1>1, <1>7, BystanderObeyed
\* A call adds a command the simulator will be able to obey.
LEMMA CallObeyed ==
  ASSUME ConstantsAssumption, LoopInv, \A k \in Job : Obeyed(k), ClientCall
  PROVE  \A k \in Job : Obeyed(k)'
<1>1. /\ TypeInv /\ \A k \in Job : JobInv(k)
      /\ job_state \in [Job -> JobState \cup {"NONE"}] /\ state \in [Job -> {"NONE", "RUNNING", "REJECTED"}]
      /\ truth \in [Job -> {"absent", "queued", "running", "changed", "done", "rejected"}]
  BY DEF LoopInv, WayInv, TypeInv, TypeOK, JobTypeOK, ApiTypeOK, SimTypeOK
<1>2. /\ Outbox = events_to_send /\ Outbox' = events_to_send' /\ truth' = truth /\ Outbox \in Seq(ApiCommand)
  BY <1>1, CallBoxes, BoxTypes DEF sim_vars
<1>3. ASSUME NEW k \in Job, NEW x \in ApiCommand, x \notin CommandsOf(k), Outbox' = Append(Outbox, x),
             job_state'[k] = job_state[k], state'[k] = state[k],
             k \in jobs_manually_changed' <=> k \in jobs_manually_changed
      PROVE  Obeyed(k)'
  <2>1. StatusKept(k)
    BY <1>2, <1>3 DEF StatusKept
  <2> QED
    BY <1>1, <1>3, <2>1, BystanderObeyed
<1>4. ASSUME NEW j \in Job, Untouched(j), ExecuteJobs(<<j>>) \/ RejectJobs(<<j>>) \/ ChangeJobState(j, "RUNNING")
      PROVE  \A k \in Job : Obeyed(k)'
  <2>1. PICK x \in {Executing(j), Rejecting(j), Marking(j)} :
          /\ Outbox' = Append(Outbox, x) /\ job_state' = job_state
          /\ \A k \in Job : k # j => state'[k] = state[k] /\ (k \in jobs_manually_changed' <=> k \in jobs_manually_changed)
    <3>1. CASE ExecuteJobs(<<j>>)
      <4>1. events_to_send' = Append(events_to_send, Executing(j)) /\ ToSet(<<j>>) = {j}
        BY <1>2, <3>1, OneJob DEF ExecuteJobs
      <4>2. \A k \in Job : k # j => state'[k] = state[k]
        BY <3>1, <4>1 DEF ExecuteJobs
      <4> QED
        BY <1>2, <3>1, <4>1, <4>2 DEF ExecuteJobs
    <3>2. CASE RejectJobs(<<j>>)
      <4>1. events_to_send' = Append(events_to_send, Rejecting(j)) /\ ToSet(<<j>>) = {j}
        BY <1>2, <3>2, OneJob DEF RejectJobs
      <4>2. \A k \in Job : k # j => state'[k] = state[k]
        BY <3>2, <4>1 DEF RejectJobs
      <4> QED
        BY <1>2, <3>2, <4>1, <4>2 DEF RejectJobs
    <3>3. CASE ChangeJobState(j, "RUNNING")
      BY <1>2, <3>3 DEF ChangeJobState, Marking, job_vars
    <3> QED
      BY <1>4, <3>1, <3>2, <3>3
  <2>2. x \in ApiCommand /\ x \in Deciding(j)
    BY CommandsExist DEF Deciding
  <2>3. ASSUME NEW k \in Job, k # j PROVE Obeyed(k)'
    <3>1. x \notin CommandsOf(k)
      BY <2>1, <2>3, AboutOthers
    <3> QED
      BY <1>3, <2>1, <2>2, <2>3, <3>1
  <2>4. Obeyed(j)'
    <3>1. ~Touched(j) /\ job_state[j] \notin {"NONE", "IN_KILLING"}
      BY <1>4 DEF Untouched, Touched
    <3>2. /\ truth[j] \in {"absent", "queued"}
          /\ ToSet(Outbox) \cap Deciding(j) = {} /\ Completing(j) \notin ToSet(Outbox)
          /\ \A K \in SUBSET Job : j \in K => Preceded(Outbox, Killing(K), Executing(j))
      BY <3>1, NoneLeft
    <3>3. truth[j] = "absent" => Registering(j) \in ToSet(Outbox)
      BY <3>1 DEF Obeyed, UnderWay
    <3>4. x # Completing(j) /\ \A K : x # Killing(K)
      BY <2>1, CommandFields
    <3>5. /\ ToSet(Outbox') = ToSet(Outbox) \cup {x}
          /\ AtMostOne(Outbox, Deciding(j)) => AtMostOne(Outbox', Deciding(j))
          /\ AtMostOne(Outbox, {Completing(j)}) => AtMostOne(Outbox', {Completing(j)})
      BY <1>2, <2>1, <2>2, <3>2, <3>4, OneMore
    <3>6. \A K \in SUBSET Job : j \in K => Preceded(Outbox', Killing(K), Executing(j))
      <4>1. \A e, f : Preceded(Outbox, e, f) /\ x # e => Preceded(Outbox', e, f)
        BY <1>2, <2>1, <2>2, OneMore
      <4> QED
        BY <3>2, <3>4, <4>1
    <3>7. ToSet(Outbox') \cap Deciding(j) = {x} /\ Completing(j) \notin ToSet(Outbox')
      BY <2>2, <3>2, <3>4, <3>5
    <3>8. truth[j] = "absent" => Preceded(Outbox', x, Registering(j))
      <4>1. x \notin ToSet(Outbox)
        BY <2>2, <3>2
      <4>2. \A f : Preceded(Outbox, x, f)
        BY <1>2, <4>1, Members
      <4> QED
        BY <1>2, <2>1, <2>2, <3>3, <4>2, OneMore
    <3>9. Ordered(j)'
      <4>1. AtMostOne(Outbox', Deciding(j)) /\ AtMostOne(Outbox', {Completing(j)})
        BY <3>5 DEF Obeyed, Ordered
      <4>2. \A c \in ToSet(Outbox') \cap Deciding(j) :
              truth'[j] = "queued" \/ (truth'[j] = "absent" /\ Preceded(Outbox', c, Registering(j)))
        BY <1>2, <3>2, <3>7, <3>8
      <4> QED
        BY <3>6, <3>7, <4>1, <4>2, PrimedObey
    <3>10. UnderWay(j)'
      BY <1>2, <2>1, <3>1, <3>3, <3>5, <3>7, PrimedObey
    <3> QED
      BY <3>9, <3>10 DEF Obeyed
  <2> QED
    BY <2>3, <2>4
<1>5. ASSUME NEW j \in jobs_manually_changed,
             Pending("CHANGE_JOB_STATE", "RUNNING", j) \/ truth[j] = "changed",
             ~Pending("CHANGE_JOB_STATE", "COMPLETED_SUCCESSFULLY", j),
             ChangeJobState(j, "COMPLETED_SUCCESSFULLY")
      PROVE  \A k \in Job : Obeyed(k)'
  <2> DEFINE x == Completing(j)
  <2>1. /\ j \in Job /\ Outbox' = Append(Outbox, x) /\ x \in ApiCommand
        /\ jobs_manually_changed' = jobs_manually_changed /\ UNCHANGED <<state, job_state>>
    <3>1. j \in Job
      BY <1>1 DEF TypeInv, TypeOK, ApiTypeOK
    <3> QED
      BY <1>2, <1>5, <3>1, CommandsExist DEF ChangeJobState, Completing, job_vars
  <2>2. ASSUME NEW k \in Job, k # j PROVE Obeyed(k)'
    <3>1. x \notin CommandsOf(k)
      BY <2>2, AboutOthers
    <3> QED
      BY <1>3, <2>1, <2>2, <3>1
  <2>3. Obeyed(j)'
    <3>1. x \notin ToSet(Outbox)
      BY <1>2, <1>5 DEF Pending, Completing, ToSet
    <3>2. truth[j] = "changed" \/ Marking(j) \in ToSet(Outbox)
      BY <1>2, <1>5 DEF Pending, Marking, ToSet
    <3>3. x \notin Deciding(j) /\ x # Registering(j) /\ \A K : x # Killing(K)
      BY CommandFields DEF Deciding
    <3>4. \A f : Preceded(Outbox, x, f)
      BY <1>2, <3>1, Members
    <3>5. Ordered(j) /\ UnderWay(j)
      BY <2>1 DEF Obeyed
    <3>6. Touched(j)' <=> Touched(j)
      BY <2>1 DEF Touched
    <3>14. x = Completing(j)
      OBVIOUS
    <3> HIDE DEF x
    <3>7. /\ ToSet(Outbox') = ToSet(Outbox) \cup {x}
          /\ AtMostOne(Outbox, Deciding(j)) => AtMostOne(Outbox', Deciding(j))
          /\ AtMostOne(Outbox, {x}) => AtMostOne(Outbox', {x})
      BY <1>2, <2>1, <3>1, <3>3, OneMore
    <3>8. /\ \A e, f : Preceded(Outbox, e, f) /\ x # e => Preceded(Outbox', e, f)
          /\ \A f \in ToSet(Outbox) : Preceded(Outbox', x, f)
      BY <1>2, <2>1, <3>4, OneMore
    <3>9. AtMostOne(Outbox', Deciding(j)) /\ AtMostOne(Outbox', {x})
      BY <3>5, <3>7, <3>14 DEF Ordered
    <3>10. \A c \in ToSet(Outbox') \cap Deciding(j) :
             truth'[j] = "queued" \/ (truth'[j] = "absent" /\ Preceded(Outbox', c, Registering(j)))
      BY <1>2, <3>3, <3>5, <3>7, <3>8 DEF Ordered
    <3>11. truth'[j] = "changed" \/ Preceded(Outbox', x, Marking(j))
      BY <1>2, <3>2, <3>8
    <3>12. \A K \in SUBSET Job : Killing(K) \in ToSet(Outbox') /\ j \in K =>
             truth'[j] \in {"running", "done"} \/ Preceded(Outbox', Killing(K), Executing(j))
      BY <1>2, <3>3, <3>5, <3>7, <3>8 DEF Ordered
    <3>13. Ordered(j)'
      BY <2>1, <3>9, <3>10, <3>11, <3>12, <3>14, PrimedObey
    <3>15. UnderWay(j)'
      BY <1>2, <2>1, <3>5, <3>6, <3>7, PrimedObey DEF UnderWay
    <3> QED
      BY <3>13, <3>15 DEF Obeyed
  <2> QED
    BY <2>2, <2>3
<1>6. ASSUME NEW K \in SUBSET Job, \A k \in K : Alive(k), KillJobs(K)
      PROVE  \A k \in Job : Obeyed(k)'
  <2>1. /\ Outbox' = Append(Outbox, Killing(K)) /\ Killing(K) \in ApiCommand
        /\ \A k \in Job : job_state'[k] = IF k \in K THEN "IN_KILLING" ELSE job_state[k]
        /\ UNCHANGED <<state, jobs_manually_changed>>
    BY <1>2, <1>6, CommandsExist DEF KillJobs, Killing
  <2>2. ASSUME NEW k \in Job, k \notin K PROVE Obeyed(k)'
    <3>1. Killing(K) \notin CommandsOf(k)
      BY <2>2, AboutOthers
    <3> QED
      BY <1>3, <2>1, <2>2, <3>1
  <2>3. ASSUME NEW k \in Job, k \in K PROVE Obeyed(k)'
    <3> DEFINE x == Killing(K)
    <3>1. Ordered(k) /\ UnderWay(k)
      BY DEF Obeyed
    <3>2. /\ state[k] = "RUNNING" /\ Touched(k) /\ job_state[k] # "NONE" /\ k \notin jobs_manually_changed
      BY <1>1, <1>6, <2>3 DEF Alive, Touched, JobInv, Table
    <3>3. truth[k] \in {"running", "done", "absent", "queued"}
      BY <1>1, <3>2 DEF JobInv, Wished
    <3>4. truth[k] \in {"absent", "queued"} => Executing(k) \in ToSet(Outbox)
      <4>1. Rejecting(k) \notin ToSet(Outbox) /\ Marking(k) \notin ToSet(Outbox)
        BY <1>1, <3>2 DEF JobInv, Outgoing
      <4> QED
        BY <3>1, <3>2, <4>1 DEF UnderWay, Deciding
    <3>5. x \notin Deciding(k) /\ x # Registering(k) /\ x # Completing(k)
      BY CommandFields DEF Deciding
    <3> HIDE DEF x
    <3>6. /\ ToSet(Outbox') = ToSet(Outbox) \cup {x}
          /\ AtMostOne(Outbox, Deciding(k)) => AtMostOne(Outbox', Deciding(k))
          /\ AtMostOne(Outbox, {Completing(k)}) => AtMostOne(Outbox', {Completing(k)})
      <4>1. Outbox' = Append(Outbox, x) /\ x \in ApiCommand
        BY <2>1 DEF x
      <4> QED
        BY <1>2, <3>5, <4>1, OneMore
    <3>7. \A e, f : Preceded(Outbox, e, f) /\ (x = e => f \in ToSet(Outbox)) => Preceded(Outbox', e, f)
      <4>1. Outbox' = Append(Outbox, x) /\ x \in ApiCommand
        BY <2>1 DEF x
      <4> QED
        BY <1>2, <4>1, OneMore
    <3>8. AtMostOne(Outbox', Deciding(k)) /\ AtMostOne(Outbox', {Completing(k)})
      BY <3>1, <3>6 DEF Ordered
    <3>9. \A c \in ToSet(Outbox') \cap Deciding(k) :
            truth'[k] = "queued" \/ (truth'[k] = "absent" /\ Preceded(Outbox', c, Registering(k)))
      BY <1>2, <3>1, <3>5, <3>6, <3>7 DEF Ordered
    <3>10. Completing(k) \in ToSet(Outbox') => truth'[k] = "changed" \/ Preceded(Outbox', Completing(k), Marking(k))
      BY <1>2, <3>1, <3>5, <3>6, <3>7 DEF Ordered
    <3>11. ASSUME NEW L \in SUBSET Job, k \in L
           PROVE  truth'[k] \in {"running", "done"} \/ Preceded(Outbox', Killing(L), Executing(k))
      <4>1. truth[k] \notin {"running", "done"} => Preceded(Outbox, Killing(L), Executing(k)) /\ Executing(k) \in ToSet(Outbox)
        BY <3>3, <3>4, <3>11, NoneLeft
      <4> QED
        BY <1>2, <3>7, <4>1
    <3>12. Ordered(k)'
      BY <3>8, <3>9, <3>10, <3>11, PrimedObey
    <3>13. UnderWay(k)'
      <4>1. Touched(k)' <=> Touched(k)
        BY <2>1 DEF Touched
      <4>2. Killing(K) \in ToSet(Outbox')
        BY <3>6 DEF x
      <4>3. truth[k] = "absent" => Registering(k) \in ToSet(Outbox')
        BY <3>1, <3>2, <3>6 DEF UnderWay
      <4>4. truth[k] \in {"absent", "queued"} => ToSet(Outbox') \cap Deciding(k) # {}
        BY <3>1, <3>2, <3>6 DEF UnderWay
      <4> QED
        BY <1>2, <2>3, <4>2, <4>3, <4>4, PrimedObey
    <3> QED
      BY <3>12, <3>13 DEF Obeyed
  <2> QED
    BY <2>2, <2>3
<1>7. ASSUME NEW j \in Dynamic, job_state[j] = "NONE", RegisterJob(j)
      PROVE  \A k \in Job : Obeyed(k)'
  <2> DEFINE x == Registering(j)
  <2>1. /\ j \in Job /\ Outbox' = Append(Outbox, x) /\ x \in ApiCommand
        /\ job_state' = [job_state EXCEPT ![j] = "IN_SUBMISSON"] /\ state' = [state EXCEPT ![j] = "NONE"]
        /\ UNCHANGED jobs_manually_changed
    <3>1. j \in Job
      BY DEF Job
    <3> QED
      BY <1>2, <1>7, <3>1, CommandsExist DEF RegisterJob, Registering
  <2>2. ASSUME NEW k \in Job, k # j PROVE Obeyed(k)'
    <3>1. x \notin CommandsOf(k)
      BY <2>2, AboutOthers
    <3> QED
      BY <1>1, <1>3, <2>1, <2>2, <3>1
  <2>3. Obeyed(j)'
    <3>1. ~Touched(j) /\ truth[j] = "absent"
      BY <1>1, <1>7, <2>1 DEF JobInv, Table
    <3>2. /\ job_state'[j] = "IN_SUBMISSON" /\ ~Touched(j)'
      BY <1>1, <2>1, <3>1 DEF Touched
    <3>3. /\ ToSet(Outbox) \cap Deciding(j) = {} /\ Completing(j) \notin ToSet(Outbox)
          /\ \A K \in SUBSET Job : j \in K => Preceded(Outbox, Killing(K), Executing(j))
      BY <2>1, <3>1, NoneLeft
    <3>4. x \notin Deciding(j) /\ x # Completing(j) /\ \A K : x # Killing(K)
      BY CommandFields DEF Deciding
    <3> HIDE DEF x
    <3>5. ToSet(Outbox') = ToSet(Outbox) \cup {x} /\ Outbox' \in Seq(ApiCommand)
      BY <1>2, <2>1, OneMore
    <3>6. ToSet(Outbox') \cap Deciding(j) = {} /\ Completing(j) \notin ToSet(Outbox')
      BY <3>3, <3>4, <3>5
    <3>7. AtMostOne(Outbox', Deciding(j)) /\ AtMostOne(Outbox', {Completing(j)})
      BY <3>5, <3>6, Members
    <3>8. \A K \in SUBSET Job : j \in K => Preceded(Outbox', Killing(K), Executing(j))
      <4>1. \A e, f : Preceded(Outbox, e, f) /\ x # e => Preceded(Outbox', e, f)
        BY <1>2, <2>1, OneMore
      <4> QED
        BY <3>3, <3>4, <4>1
    <3>9. Ordered(j)'
      BY <2>1, <3>6, <3>7, <3>8, PrimedObey
    <3>10. UnderWay(j)'
      <4>1. Registering(j) \in ToSet(Outbox')
        BY <3>5 DEF x
      <4> QED
        BY <2>1, <3>2, <4>1, PrimedObey
    <3> QED
      BY <3>9, <3>10 DEF Obeyed
  <2> QED
    BY <2>2, <2>3
<1>8. ASSUME NotifyRegistrationFinished \/ WakeMeUpAt
      PROVE  \A k \in Job : Obeyed(k)'
  <2>1. PICK x \in {Notice, WakeUp} : Outbox' = Append(Outbox, x)
    BY <1>2, <1>8 DEF NotifyRegistrationFinished, WakeMeUpAt, Call, Notice, WakeUp
  <2>2. UNCHANGED <<state, jobs_manually_changed, job_state>>
    BY <1>8 DEF NotifyRegistrationFinished, WakeMeUpAt, Call, job_vars
  <2>3. x \in ApiCommand /\ \A k \in Job : x \notin CommandsOf(k)
    BY CommandsExist, AboutOthers
  <2> QED
    BY <1>3, <2>1, <2>2, <2>3
<1> QED
  BY <1>4, <1>5, <1>6, <1>7, <1>8 DEF ClientCall

\* If nothing is called before the loop starts, the second layer is kept.
LEMMA ObeyStep ==
  ASSUME ConstantsAssumption, ~InitCalls, LoopInv, ObeyInv, [BatsimNext]_batsim_vars
  PROVE  ObeyInv'
<1> DEFINE Kept == \A k \in Job : Obeyed(k)'
<1>1. \A k \in Job : Obeyed(k)
  BY DEF ObeyInv, Obeyed
<1>2. Sim => Kept /\ batsim' # "aborted"
  BY <1>1, SimObeyed
<1>3. Dispatch => Kept
  BY <1>1, DispatchObeyed
<1>4. ClientCall => Kept
  BY <1>1, CallObeyed
<1>5. Receive \/ Timeout \/ SendReply \/ ClientConsume \/ ClientReturn \/ UNCHANGED batsim_vars => Kept
  BY LoopObeyed
<1> HIDE DEF Kept
<1>6. Kept
  BY <1>2, <1>3, <1>4, <1>5 DEF BatsimNext, Library, ClientNext, Terminated
<1>7. NeverAborted'
  <2>1. batsim # "aborted"
    BY DEF ObeyInv, NeverAborted
  <2>2. CASE Sim
    BY <1>2, <2>2 DEF NeverAborted
  <2>3. CASE Receive
    BY <2>1, <2>3 DEF Receive, NeverAborted
  <2>4. CASE Dispatch
    BY <2>1, <2>4 DEF Dispatch, DispatchSimulationBegins, DispatchSimulationEnds, DispatchJobSubmitted, DispatchJobCompleted,
         DispatchJobKilled, DispatchRequestedCall, DispatchNotify, DispatchNoMoreEvents, sim_vars, NeverAborted
  <2>5. CASE Timeout \/ SendReply \/ ClientCall \/ ClientConsume \/ ClientReturn \/ UNCHANGED batsim_vars
    BY <2>1, <2>5 DEF Timeout, SendReply, ClientCall, ClientConsume, ClientReturn, batsim_vars, sim_vars, NeverAborted
  <2> QED
    BY <2>2, <2>3, <2>4, <2>5 DEF BatsimNext, Library, ClientNext, Terminated
<1>8. NothingLost'
  <2>1. NothingLost
    BY DEF ObeyInv
  <2>2. CASE Sim
    BY <2>1, <2>2, SimBoxes DEF NothingLost, api_vars
  <2>3. CASE Dispatch
    BY <2>3 DEF Dispatch, DispatchSimulationBegins, DispatchSimulationEnds, DispatchJobSubmitted, DispatchJobCompleted,
         DispatchJobKilled, DispatchRequestedCall, DispatchNotify, DispatchNoMoreEvents, Dispatching, NothingLost
  <2>4. CASE ClientCall
    BY <2>4 DEF ClientCall, Listening, loop_vars, NothingLost
  <2>5. CASE Receive \/ SendReply
    BY <2>5 DEF Receive, SendReply, NothingLost
  <2>6. CASE Timeout \/ ClientConsume \/ ClientReturn \/ UNCHANGED batsim_vars
    BY <2>1, <2>6 DEF Timeout, ClientConsume, ClientReturn, CallbackReturns, InitReturns, batsim_vars, loop_vars,
                      api_vars, NothingLost
  <2> QED
    BY <2>2, <2>3, <2>4, <2>5, <2>6 DEF BatsimNext, Library, ClientNext, Terminated
<1> QED
  BY <1>6, <1>7, <1>8 DEF Kept, ObeyInv, Obeyed

\* At the start nothing has been commanded.
LEMMA ObeyInit ==
  ASSUME BatsimInit
  PROVE  ObeyInv
<1>1. /\ Outbox = <<>> /\ events_to_send = <<>> /\ batsim = "running" /\ jobs_manually_changed = {}
      /\ \A j \in Job : truth[j] = "absent" /\ job_state[j] = "NONE" /\ state[j] = "NONE"
  BY DEF BatsimInit, Outbox
<1>2. ToSet(Outbox) = {} /\ Outbox \in Seq(ApiCommand)
  BY <1>1 DEF ToSet
<1>3. ASSUME NEW j \in Job PROVE Ordered(j) /\ UnderWay(j)
  <2>1. AtMostOne(Outbox, Deciding(j)) /\ AtMostOne(Outbox, {Completing(j)})
    BY <1>2, Members
  <2> QED
    BY <1>1, <1>2, <2>1 DEF Ordered, UnderWay, Touched
<1> QED
  BY <1>1, <1>3 DEF ObeyInv, NeverAborted, NothingLost

\* Both layers are invariants of a scheduler that issues no command in
\* onAfterBatsimInit (those would be lost).
LEMMA SecondLayer ==
  ASSUME ~InitCalls
  PROVE  BatsimSpec => [](LoopInv /\ ObeyInv)
<1>1. BatsimInit => ObeyInv
  BY ObeyInit
<1>2. LoopInv /\ ObeyInv /\ [BatsimNext]_batsim_vars => ObeyInv'
  BY ObeyStep, ConstantsAssumption
<1> QED
  BY <1>1, <1>2, FirstLayer, PTL DEF BatsimSpec

\* No command of a scheduler that respects the API reaches the simulator
\* twice, too early or in the wrong order.
THEOREM NothingAborted ==
  ASSUME ~InitCalls
  PROVE  BatsimSpec => []NeverAborted
<1>1. ObeyInv => NeverAborted
  BY DEF ObeyInv
<1> QED
  BY <1>1, SecondLayer, PTL

\* If nothing about j is under way, no message of j is.
LEMMA Unmentioned ==
  ASSUME LoopInv, phase = "recv", NEW j \in Job, ~Mentions(mailbox, j), ~Mentions(commands, j)
  PROVE  /\ Submitted(j) \notin ToSet(Inbox) /\ ToSet(Inbox) \cap Completions(j) = {}
         /\ Registering(j) \notin ToSet(Outbox) /\ ToSet(Outbox) \cap Deciding(j) = {}
         /\ \A K \in SUBSET Job : j \in K => Killing(K) \notin ToSet(Outbox)
<1>1. Inbox = mailbox /\ Outbox = commands
  BY Boxes
<1>2. /\ \A e \in ToSet(mailbox) : j \notin e.jobs
      /\ \A c \in ToSet(commands) : j \notin c.jobs
  BY DEF Mentions, ToSet
<1>3. j \in Submitted(j).jobs /\ \A e \in Completions(j) : j \in e.jobs
  BY EventFields DEF Completions
<1>4. /\ j \in Registering(j).jobs /\ \A c \in Deciding(j) : j \in c.jobs
      /\ \A K \in SUBSET Job : Killing(K).jobs = K
  BY CommandFields DEF Deciding
<1> QED
  BY <1>1, <1>2, <1>3, <1>4

\* While pybatsim waits, its job table says what really happened to every job
\* about which no message is under way.
THEOREM MirrorHolds ==
  ASSUME ~InitCalls
  PROVE  BatsimSpec => []MirrorAgrees
<1>1. ASSUME LoopInv, ObeyInv PROVE MirrorAgrees
  <2> SUFFICES ASSUME phase = "recv", NEW j \in Job, ~Mentions(mailbox, j), ~Mentions(commands, j)
               PROVE  CASE truth[j] = "absent"   -> job_state[j] = "NONE"
                        [] truth[j] = "queued"   -> Untouched(j)
                        [] truth[j] = "running"  -> Alive(j)
                        [] truth[j] = "changed"  -> j \in jobs_manually_changed
                        [] truth[j] = "rejected" -> state[j] = "REJECTED"
                        [] truth[j] = "done"     -> \/ job_state[j] \in Completed \cup {"UNKNOWN"}
                                                    \/ j \in jobs_manually_changed
    BY DEF MirrorAgrees
  <2>1. /\ Submitted(j) \notin ToSet(Inbox) /\ ToSet(Inbox) \cap Completions(j) = {}
        /\ Registering(j) \notin ToSet(Outbox) /\ ToSet(Outbox) \cap Deciding(j) = {}
        /\ \A K \in SUBSET Job : j \in K => Killing(K) \notin ToSet(Outbox)
    BY <1>1, Unmentioned
  <2>2. JobInv(j) /\ UnderWay(j)
    BY <1>1 DEF LoopInv, WayInv, ObeyInv
  <2>3. truth[j] \in {"absent", "queued", "running", "changed", "done", "rejected"}
    BY <1>1 DEF LoopInv, TypeInv, TypeOK, SimTypeOK
  <2>4. truth[j] = "absent" => job_state[j] = "NONE"
    BY <2>1, <2>2 DEF UnderWay
  <2>5. truth[j] = "queued" => Untouched(j)
    BY <2>1, <2>2 DEF UnderWay, JobInv, Wished
  <2>6. truth[j] = "running" => Alive(j)
    BY <2>1, <2>2 DEF UnderWay, JobInv, Wished, Table, Ended, Alive
  <2>7. /\ truth[j] = "changed" => j \in jobs_manually_changed
        /\ truth[j] = "rejected" => state[j] = "REJECTED"
        /\ truth[j] = "done" => job_state[j] \in Completed \cup {"UNKNOWN"} \/ j \in jobs_manually_changed
    BY <2>1, <2>2 DEF JobInv, Wished, Ended
  <2> QED
    BY <2>3, <2>4, <2>5, <2>6, <2>7
<1> QED
  BY <1>1, SecondLayer, PTL

-----------------------------------------------------------------------------
\* The end

\* The simulator never ends before everything is settled.
LEMMA SimEnding ==
  ASSUME ConstantsAssumption, LoopInv, Ending, Sim
  PROVE  Ending'
<1>1. /\ phase = "recv" /\ phase' = "recv" /\ batsim = "running"
      /\ Inbox = mailbox /\ Inbox' = mailbox' /\ UNCHANGED <<initialised, running_simulation>>
  BY SimBoxes DEF loop_vars
<1>2. /\ Ends \notin ToSet(Inbox)
      /\ ~(initialised' /\ ~running_simulation')
  BY <1>1 DEF Ending
<1>3. Ends \in ToSet(mailbox') => batsim' = "ending"
  BY <1>1, <1>2, SimEvents
<1>4. CASE SimEnd
  <2>1. batsim' = "ending" /\ mailbox' = <<Ends>> /\ commands' = <<>> /\ truth' = truth /\ Settled
    BY <1>4 DEF SimEnd, Finished, Settled, Ends
  <2> QED
    BY <1>1, <1>2, <2>1 DEF Ending, Settled
<1>5. CASE ~SimEnd
  <2>1. batsim' \in {"running", "aborted"}
    BY <1>1, <1>5 DEF Sim, SimTick, SimSubmit, SimComplete, SimCall, Inject, InjectExecute, InjectReject,
         InjectChange, InjectKill, InjectRegister, InjectNotify, InjectCallMeLater, Move, sim_vars
  <2> QED
    BY <1>1, <1>2, <1>3, <2>1 DEF Ending
<1> QED
  BY <1>4, <1>5

\* Once the simulator has ended there is nothing to dispatch but its last
\* message.
LEMMA DispatchEnding ==
  ASSUME ConstantsAssumption, LoopInv, Ending, Dispatch
  PROVE  Ending'
<1>1. /\ phase = "events" /\ Inbox = events /\ phase' \in {"events", "handler", "exception"}
      /\ UNCHANGED <<truth, batsim, mailbox, commands, events_to_send, initialised>>
  BY Boxes DEF Dispatch, DispatchSimulationBegins, DispatchSimulationEnds, DispatchJobSubmitted, DispatchJobCompleted,
         DispatchJobKilled, DispatchRequestedCall, DispatchNotify, DispatchNoMoreEvents, Dispatching, sim_vars, api_vars
<1>2. events \in Seq(SimEvent)
  BY DEF LoopInv, TypeInv
<1>3. /\ ToSet(Inbox') \subseteq ToSet(Inbox)
      /\ Inbox = <<>> => Inbox' = <<>>
      /\ phase' = "handler" /\ events # <<>> => Inbox' = Tail(events)
  <2>1. events # <<>> => Tail(events) \in Seq(SimEvent) /\ ToSet(Tail(events)) \subseteq ToSet(events)
    BY <1>2, HeadGone
  <2>2. CASE events' = events
    BY <1>1, <2>1, <2>2, Boxes
  <2>3. CASE events' # events
    <3>1. DispatchJobKilled /\ phase' = "events" /\ events # <<>> /\ events' = Tail(events)
      BY <2>3, <1>1 DEF Dispatch, DispatchSimulationBegins, DispatchSimulationEnds, DispatchJobSubmitted, DispatchJobCompleted,
         DispatchJobKilled, DispatchRequestedCall, DispatchNotify, DispatchNoMoreEvents, Dispatching
    <3> QED
      BY <1>1, <2>1, <3>1, Boxes
  <2> QED
    BY <2>2, <2>3
<1>4. running_simulation' = running_simulation \/ DispatchSimulationBegins \/ DispatchSimulationEnds
  BY DEF Dispatch, DispatchSimulationBegins, DispatchSimulationEnds, DispatchJobSubmitted, DispatchJobCompleted,
         DispatchJobKilled, DispatchRequestedCall, DispatchNotify, DispatchNoMoreEvents
<1>5. DispatchSimulationBegins => ~initialised /\ batsim = "running"
  BY FirstMessage DEF DispatchSimulationBegins, LoopInv, WayInv, Starting
<1>6. DispatchSimulationEnds => batsim = "ended" /\ ~running_simulation' /\ phase' = "handler" /\ events # <<>>
  <2>1. DispatchSimulationEnds => Ends \in ToSet(Inbox)
    <3>1. DispatchSimulationEnds => events # <<>> /\ Head(events).type = "SIMULATION_ENDS"
      BY DEF DispatchSimulationEnds, Dispatching
    <3>2. events # <<>> => Head(events) \in SimEvent /\ Head(events) \in ToSet(events)
      BY <1>2, HeadGone
    <3> QED
      BY <1>1, <3>1, <3>2, EventKinds
  <2>2. Ends \in ToSet(Inbox) => batsim = "ended"
    BY <1>1 DEF Ending
  <2> QED
    BY <2>1, <2>2 DEF DispatchSimulationEnds, Dispatching
<1>7. batsim = "ended" => ~running_simulation' /\ Inbox' = <<>>
  <2>1. ASSUME batsim = "ended", events = <<Ends>> PROVE DispatchSimulationEnds
    <3>1. Head(events).type = "SIMULATION_ENDS" /\ events # <<>>
      BY <2>1, EventFields DEF Ends
    <3> QED
      BY <3>1 DEF Dispatch, DispatchSimulationBegins, DispatchJobSubmitted, DispatchJobCompleted,
         DispatchJobKilled, DispatchRequestedCall, DispatchNotify, DispatchNoMoreEvents, Dispatching
  <2>2. ASSUME batsim = "ended", events = <<Ends>> PROVE ~running_simulation' /\ Inbox' = <<>>
    BY <2>1, <2>2, <1>3, <1>6
  <2>3. ASSUME batsim = "ended", events # <<Ends>> PROVE ~running_simulation' /\ Inbox' = <<>>
    <3>1. ~running_simulation /\ Inbox = <<>>
      BY <2>3 DEF Ending
    <3> QED
      BY <1>1, <1>3, <1>4, <1>5, <1>6, <2>3, <3>1
  <2> QED
    BY <2>2, <2>3
<1>8. Ends \in ToSet(Inbox') => batsim' \in {"ending", "ended"}
  BY <1>1, <1>3 DEF Ending
<1>9. initialised' /\ ~running_simulation' => batsim' = "ended"
  BY <1>1, <1>4, <1>5, <1>6 DEF Ending
<1> QED
  BY <1>1, <1>7, <1>8, <1>9 DEF Ending, Settled

\* The end, and what comes after it.
LEMMA EndingStep ==
  ASSUME ConstantsAssumption, ~InitCalls, LoopInv, ObeyInv, Ending, [BatsimNext]_batsim_vars
  PROVE  Ending'
<1>1. CASE Receive
  <2>1. /\ phase = "recv" /\ phase' = "events" /\ Inbox = mailbox /\ Inbox' = mailbox /\ events' = mailbox /\ mailbox # <<>>
        /\ mailbox' = <<>> /\ commands' = <<>> /\ events_to_send' = <<>>
        /\ UNCHANGED <<truth, initialised, running_simulation>>
        /\ batsim' = IF batsim = "ending" THEN "ended" ELSE batsim
    BY <1>1, Boxes DEF Receive
  <2>2. batsim # "ended"
    BY <2>1 DEF Ending
  <2> QED
    BY <2>1, <2>2 DEF Ending, Settled
<1>2. CASE SendReply
  <2>1. /\ phase = "handler" /\ events = <<>> /\ Inbox = <<>> /\ Inbox' = mailbox' /\ mailbox' = mailbox
        /\ commands' = events_to_send /\ events_to_send' = <<>> /\ initialised' = TRUE
        /\ phase' = CASE ~initialised -> "init" [] initialised /\ ~running_simulation -> "ended" [] OTHER -> "recv"
        /\ UNCHANGED <<truth, batsim, running_simulation>>
    BY <1>2, Boxes DEF SendReply, Reply
  <2>2. mailbox = <<>>
    BY <2>1 DEF LoopInv, WayInv, Alternating
  <2>3. ~initialised => running_simulation
    BY <2>1 DEF LoopInv, WayInv, Starting
  <2>4. Ends \notin ToSet(<<>>)
    BY DEF ToSet
  <2> QED
    BY <2>1, <2>2, <2>3, <2>4 DEF Ending, Settled
<1>3. CASE ClientCall
  <2>1. /\ Inbox' = Inbox /\ UNCHANGED <<sim_vars, loop_vars>> /\ running_simulation /\ initialised
        /\ phase = "handler"
    BY <1>3, CallBoxes DEF ClientCall, Listening
  <2>2. batsim # "ended" /\ batsim # "ending"
    BY <2>1 DEF Ending
  <2> QED
    BY <2>1, <2>2 DEF Ending, sim_vars, loop_vars
<1>4. CASE ClientReturn
  <2>1. /\ UNCHANGED <<sim_vars, api_vars, initialised, running_simulation>>
        /\ \/ phase = "handler" /\ events # <<>> /\ phase' = "events" /\ events' = Tail(events)
           \/ phase = "init" /\ phase' = "recv" /\ events' = events
    BY <1>4 DEF ClientReturn, CallbackReturns, InitReturns
  <2>2. Inbox' = Inbox /\ truth' = truth /\ batsim' = batsim /\ mailbox' = mailbox /\ commands' = commands
        /\ events_to_send' = events_to_send
    BY <2>1, Boxes DEF sim_vars, api_vars
  <2> QED
    BY <2>1, <2>2 DEF Ending, Settled
<1>5. CASE Timeout
  <2>1. Inbox' = Inbox /\ UNCHANGED <<sim_vars, api_vars, initialised, running_simulation>> /\ phase' = "deadlock" /\ phase = "recv"
        /\ running_simulation /\ batsim \in {"running", "aborted"}
    BY <1>5, Boxes DEF Timeout, sim_vars
  <2> QED
    BY <2>1 DEF Ending, sim_vars
<1>6. CASE ClientConsume \/ UNCHANGED batsim_vars
  <2>1. UNCHANGED <<sim_vars, loop_vars, api_vars>>
    BY <1>6 DEF ClientConsume, batsim_vars
  <2>2. Inbox' = Inbox
    BY <2>1, Boxes DEF sim_vars, loop_vars
  <2> QED
    BY <2>1, <2>2 DEF Ending, Settled, sim_vars, loop_vars, api_vars
<1> QED
  BY <1>1, <1>2, <1>3, <1>4, <1>5, <1>6, SimEnding, DispatchEnding DEF BatsimNext, Library, ClientNext, Terminated

\* When the loop ends, the job table is partitioned by what the scheduler did.
LEMMA Partition ==
  ASSUME ConstantsAssumption, LoopInv, ObeyInv, Ending, phase = "ended"
  PROVE  CleanExit
<1>1. batsim = "ended" /\ Settled /\ Inbox = <<>> /\ Outbox = <<>>
  <2>1. batsim = "ended" /\ phase # "events" /\ commands = <<>>
    BY DEF Ending
  <2> QED
    BY <2>1, Boxes DEF Ending
<1>2. ToSet(Inbox) = {} /\ ToSet(Outbox) = {}
  BY <1>1 DEF ToSet
<1>3. TypeOK /\ Accounting
  BY DEF LoopInv, TypeInv, CountInv
<1> DEFINE All == {j \in Job : job_state[j] \in JobState}
           Ran == {j \in Job : state[j] = "RUNNING"}
           Denied == {j \in Job : state[j] = "REJECTED"}
<1>4. ASSUME NEW j \in Job
      PROVE  /\ job_state[j] \in JobState <=> Touched(j)
             /\ state[j] # "NONE" => j \notin jobs_manually_changed
             /\ ack_of_dynamic_jobs => job_state[j] # "IN_SUBMISSON"
  <2>1. JobInv(j) /\ UnderWay(j) /\ (truth[j] \in {"done", "rejected"} \/ truth[j] = "absent")
    BY <1>1 DEF LoopInv, WayInv, ObeyInv, Settled
  <2>2. job_state[j] \in JobState <=> job_state[j] # "NONE"
    BY <1>3 DEF TypeOK, JobTypeOK, JobState, Completed
  <2>3. job_state[j] # "NONE" <=> Touched(j)
    BY <1>2, <2>1 DEF JobInv, Wished, UnderWay, Table, Touched
  <2> QED
    BY <2>1, <2>2, <2>3 DEF JobInv, Table
<1>5. All = Ran \cup Denied \cup jobs_manually_changed
  <2>1. ASSUME NEW j \in Job PROVE state[j] # "NONE" <=> state[j] = "RUNNING" \/ state[j] = "REJECTED"
    BY <1>3 DEF TypeOK, ApiTypeOK
  <2>2. jobs_manually_changed \subseteq Job
    BY <1>3 DEF TypeOK, ApiTypeOK
  <2> QED
    BY <1>4, <2>1, <2>2 DEF Touched
<1>6. IsFiniteSet(Job) /\ jobs_manually_changed \subseteq Job /\ Ran \subseteq Job /\ Denied \subseteq Job
  <2>1. IsFiniteSet(Job)
    BY FS_Union, ConstantsAssumption DEF ConstantsAssumption, Job
  <2> QED
    BY <1>3, <2>1 DEF TypeOK, ApiTypeOK
<1>7. IsFiniteSet(jobs_manually_changed) /\ IsFiniteSet(Ran) /\ IsFiniteSet(Denied)
  BY <1>6, FS_Subset
<1>8. /\ Ran \cap Denied = {}
      /\ (Ran \cup Denied) \cap jobs_manually_changed = {}
  BY <1>4
<1> HIDE DEF All, Ran, Denied
<1>9. Cardinality(All) = Cardinality(Ran) + Cardinality(Denied) + Cardinality(jobs_manually_changed)
  <2>1. Cardinality(Ran) \in Nat /\ Cardinality(Denied) \in Nat /\ Cardinality(jobs_manually_changed) \in Nat
    <3>1. Cardinality(Ran) \in Nat
      BY <1>7, FS_CardinalityType
    <3>2. Cardinality(Denied) \in Nat
      BY <1>7, FS_CardinalityType
    <3>3. Cardinality(jobs_manually_changed) \in Nat
      BY <1>7, FS_CardinalityType
    <3> QED
      BY <3>1, <3>2, <3>3
  <2>2. Cardinality(Ran \cap Denied) = 0
    BY Zenon, <1>8, FS_EmptySet
  <2> DEFINE Decided == Ran \cup Denied
  <2>3. /\ IsFiniteSet(Decided)
        /\ Cardinality(Decided) = Cardinality(Ran) + Cardinality(Denied) - Cardinality(Ran \cap Denied)
    BY <1>7, FS_Union
  <2>4. Decided \cap jobs_manually_changed = {} /\ All = Decided \cup jobs_manually_changed
    BY <1>5, <1>8
  <2> HIDE DEF Decided
  <2>5. Cardinality(Decided) = Cardinality(Ran) + Cardinality(Denied)
    BY <2>1, <2>2, <2>3
  <2>6. Cardinality(Decided \cup jobs_manually_changed) =
          Cardinality(Decided) + Cardinality(jobs_manually_changed) - Cardinality(Decided \cap jobs_manually_changed)
    BY <1>7, <2>3, FS_Union
  <2>7. Cardinality(Decided \cap jobs_manually_changed) = 0
    BY Zenon, <2>4, FS_EmptySet
  <2>8. Cardinality(All) = Cardinality(Decided \cup jobs_manually_changed)
    BY Zenon, <2>4
  <2> QED
    BY <2>1, <2>5, <2>6, <2>7, <2>8
<1>10. nb["in_submission"] = 0
  <2>1. ack_of_dynamic_jobs => {j \in Job : job_state[j] \in {"IN_SUBMISSON"}} = {}
    BY <1>4
  <2> QED
    BY <1>3, <2>1, FS_EmptySet DEF Accounting, InState, LoopInv, CountInv
<1>11. /\ nb["submitted"] + nb["in_submission"] = Cardinality(All)
       /\ nb["rejected"] = Cardinality(Denied) /\ nb["scheduled"] = Cardinality(Ran)
  BY <1>3 DEF Accounting, InState, All, Ran, Denied
<1>12. nb["submitted"] \in Nat /\ nb["rejected"] \in Nat /\ nb["scheduled"] \in Nat
  BY <1>3 DEF TypeOK, JobTypeOK, Counter
<1> QED
  BY <1>9, <1>10, <1>11, <1>12 DEF CleanExit

\* launch_scheduler exits with 0: at the end every submitted job has been
\* scheduled, rejected or changed, and none counted twice.
THEOREM ExitIsClean ==
  ASSUME ~InitCalls
  PROVE  BatsimSpec => []CleanExit
<1>1. BatsimInit => Ending
  <2>1. ASSUME BatsimInit PROVE Ending
    <3>1. /\ batsim = "running" /\ phase = "recv" /\ initialised = FALSE /\ mailbox = <<Begins>>
      BY <2>1 DEF BatsimInit, Begins
    <3>2. Inbox = mailbox /\ Begins # Ends
      BY <3>1, Boxes, EventFields DEF Begins, Ends
    <3>3. Ends \notin ToSet(Inbox)
      BY <3>1, <3>2 DEF ToSet
    <3> QED
      BY <3>1, <3>3 DEF Ending
  <2> QED
    BY <2>1
<1>2. LoopInv /\ ObeyInv /\ Ending /\ [BatsimNext]_batsim_vars => Ending'
  BY EndingStep, ConstantsAssumption
<1>3. LoopInv /\ ObeyInv /\ Ending => CleanExit
  BY Partition, ConstantsAssumption DEF CleanExit
<1> QED
  BY <1>1, <1>2, <1>3, SecondLayer, PTL DEF BatsimSpec
=============================================================================

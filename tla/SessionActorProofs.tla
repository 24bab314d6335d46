------------------------- MODULE SessionActorProofs -------------------------
(***************************************************************************)
(* The session actor, for any number of requests, of script calls and of   *)
(* database failures, and for any set of request kinds.                    *)
(*                                                                         *)
(* Core says whom the actor's state keeps waiting, which tasks and reports *)
(* belong to which generation, and what a job needs of the agent; with     *)
(* NoRequestDropped it is inductive.  Book adds where a user message is,   *)
(* from its arrival until it is in the history or refused.                 *)
(* QueueInv puts the queue, the line of messages on their way to it and    *)
(* the history into the order of arrival; RestInv says what an idle actor  *)
(* has left undone.                                                        *)
(*                                                                         *)
(* A step of the actor either leaves its job as it is, or the job is over: *)
(* then only streams that were told to end are left of earlier jobs, and   *)
(* the actor rests or has begun another job with a new generation.         *)
(***************************************************************************)
EXTENDS SessionActor, FiniteSetTheorems, SequenceTheorems, TLAPS

-----------------------------------------------------------------------------
(* The inductive invariant. *)

JobOf == [prep |-> "preparing", stream |-> "streaming", script |-> "running"]

(* The message reports that a task has ended. *)
IsEnd(m) == m.tag \in {"prepared", "streamEnded", "scriptEnded"}

(* Whom the actor's state keeps waiting. *)
StateInv ==
    /\ st.kind = "idle" => st = Idle
    /\ st.kind = "approval" => st.gen = 0
    /\ st.kind # "preparing" => st.req = 0
    /\ st.kind \notin {"preparing", "running"} => st.waiters = {}
    /\ st.kind = "preparing" /\ ~st.cancelled => st.waiters = {}
    /\ HasChild => st.gen # 0

(* Whom the waiting handler keeps waiting. *)
WaitInv ==
    /\ wait.for = "none" => wait = NoWait
    /\ wait.for = "join" => st = Idle /\ wait.req = 0 /\ wait.next \in {"cancel", "delete"}
    /\ wait.for = "claim" => /\ wait.req \in Requests /\ wait.waiters = {}
                             /\ wait.next \in {"busy", "queue", "send"}
                             /\ wait.next # "busy" => st = Idle

(* What an actor leaves behind. *)
PhaseInv ==
    /\ phase = "none" => mailbox = <<>>
    /\ phase # "running" => wait = NoWait /\ deferred = <<>> /\ ~HasChild
    /\ phase # "running" => \A t \in tasks : t.kind = "stream" /\ t.told /\ closed
    /\ stopping => closed
    /\ \A i \in DOMAIN mailbox : mailbox[i].tag = "stop" => closed

(* Tasks and their reports. *)
TaskInv ==
    /\ \A t, u \in tasks : t.gen = u.gen => t = u
    /\ \A i \in DOMAIN mailbox : mailbox[i].tag \in DOMAIN Reports => mailbox[i].n \in 1..gen
    /\ \A i \in DOMAIN mailbox, t \in tasks : IsEnd(mailbox[i]) => mailbox[i].n # t.gen
    /\ \A i, j \in DOMAIN mailbox :
          IsEnd(mailbox[i]) /\ IsEnd(mailbox[j]) /\ mailbox[i].n = mailbox[j].n => i = j

(* The current job and its task. *)
JobInv ==
    phase = "running" =>
        /\ \A t \in tasks : /\ t.gen = st.gen => st.kind = JobOf[t.kind]
                            /\ t.kind # "stream" \/ ~t.told => t.gen = st.gen
        /\ \A i \in DOMAIN mailbox :
              mailbox[i].tag \in DOMAIN Reports /\ mailbox[i].n = st.gen =>
                  st.kind = Reports[mailbox[i].tag]
        /\ HasChild => \/ \E t \in tasks : t.gen = st.gen
                       \/ \E i \in DOMAIN mailbox : IsEnd(mailbox[i]) /\ mailbox[i].n = st.gen

(* What a job needs of the agent. *)
LeaseInv ==
    /\ active => leased
    /\ \A t \in tasks : t.kind = "prep" /\ t.step = "commit" => leased
    /\ phase = "running" =>
          /\ st.kind = "streaming" => live /\ active
          /\ st.kind = "preparing" /\ st.origin = "continue" => active
          /\ \A i \in DOMAIN mailbox :
                mailbox[i].tag = "prepared" /\ mailbox[i].n = st.gen /\ mailbox[i].out = "ok"
                    => live /\ active

Core == TypeOK /\ StateInv /\ WaitInv /\ PhaseInv /\ TaskInv /\ JobInv /\ LeaseInv

IInv == Core /\ NoRequestDropped

-----------------------------------------------------------------------------
(* Sequences. *)

LEMMA TailOf ==
    ASSUME NEW S, NEW s \in Seq(S), s # <<>>
    PROVE  /\ Tail(s) \in Seq(S)
           /\ Head(s) \in S
           /\ Head(s) = s[1] /\ 1 \in DOMAIN s
           /\ \A i \in DOMAIN Tail(s) : i + 1 \in DOMAIN s /\ Tail(s)[i] = s[i + 1]
           /\ \A i \in DOMAIN s : i # 1 => i - 1 \in DOMAIN Tail(s) /\ Tail(s)[i - 1] = s[i]
           /\ \A i \in DOMAIN s \cup DOMAIN Tail(s) : i \in Nat
BY HeadTailProperties, LenProperties, EmptySeq

LEMMA AppendOf ==
    ASSUME NEW S, NEW s \in Seq(S), NEW x \in S
    PROVE  /\ Append(s, x) \in Seq(S)
           /\ Append(s, x) # <<>>
           /\ Len(s) + 1 \in DOMAIN Append(s, x) /\ Append(s, x)[Len(s) + 1] = x
           /\ \A i \in DOMAIN s : i \in DOMAIN Append(s, x) /\ Append(s, x)[i] = s[i]
           /\ \A i \in DOMAIN Append(s, x) : i = Len(s) + 1 \/ i \in DOMAIN s
           /\ Len(s) + 1 \notin DOMAIN s
<1>1. /\ Append(s, x) \in Seq(S) /\ Len(Append(s, x)) = Len(s) + 1
      /\ \A i \in 1..Len(s) : Append(s, x)[i] = s[i]
      /\ Append(s, x)[Len(s) + 1] = x
  BY AppendProperties
<1>2. Len(s) \in Nat /\ DOMAIN s = 1..Len(s) /\ DOMAIN Append(s, x) = 1..(Len(s) + 1)
  BY <1>1, LenProperties
<1>3. Append(s, x) # <<>>
  BY <1>1, <1>2, EmptySeq
<1> QED BY <1>1, <1>2, <1>3

LEMMA MessagesTyped ==
    ASSUME NEW q \in Seq(EntryType)
    PROVE  Messages(q) \in Seq(Requests) /\ Range(Messages(q)) \subseteq Requests
<1>1. Len(q) \in Nat /\ DOMAIN q = 1..Len(q) /\ \A i \in DOMAIN q : q[i] \in EntryType
  BY LenProperties
<1>2. \A i \in DOMAIN q : q[i].req \in Requests
  BY <1>1 DEF EntryType
<1>3. Messages(q) \in [1..Len(q) -> Requests]
  BY <1>1, <1>2 DEF Messages
<1>4. Messages(q) \in Seq(Requests)
  BY <1>1, <1>3, SeqDef
<1> QED BY <1>3, <1>4, <1>1 DEF Range

LEMMA ThroughTyped ==
    ASSUME NEW q \in Seq(EntryType)
    PROVE  Through(q) \in Int /\ Through(q) >= -1
<1>1. CASE q = <<>>
  BY <1>1 DEF Through
<1>2. CASE q # <<>>
  <2>1. Len(q) \in Nat \ {0} /\ q[Len(q)] \in EntryType
    BY <1>2, LenProperties, EmptySeq
  <2>2. q[Len(q)].seq \in Nat
    BY <2>1 DEF EntryType
  <2> QED BY <2>2, <1>2 DEF Through, Last
<1> QED BY <1>1, <1>2

LEMMA ConsumedTyped ==
    ASSUME TypeOK, NEW through \in Int
    PROVE  Consumed(through) \in Seq(EntryType)
<1> DEFINE S == {i \in DOMAIN queue : queue[i].seq <= through}
<1>1. queue \in Seq(EntryType) /\ Len(queue) \in Nat /\ DOMAIN queue = 1..Len(queue)
      /\ \A i \in 1..Len(queue) : queue[i] \in EntryType
  BY LenProperties DEF TypeOK
<1>2. IsFiniteSet(1..Len(queue))
  BY <1>1, FS_Interval
<1>3. IsFiniteSet(S) /\ Cardinality(S) \in Nat
  BY <1>1, <1>2, FS_Subset, FS_CardinalityType
<1> HIDE DEF S
<1>4. \A i \in 1 + Cardinality(S)..Len(queue) : queue[i] \in EntryType
  BY <1>1, <1>3
<1>5. SubSeq(queue, 1 + Cardinality(S), Len(queue)) \in Seq(EntryType)
  BY <1>1, <1>3, <1>4, SubSeqProperties
<1> QED BY <1>5 DEF Consumed, S

LEMMA EnqueuedTyped ==
    ASSUME TypeOK, NEW r \in Requests
    PROVE  Enqueued(r) \in Seq(EntryType)
<1>1. queue \in Seq(EntryType) /\ Through(queue) \in Int /\ Through(queue) >= -1
  BY ThroughTyped DEF TypeOK
<1>2. [seq |-> Through(queue) + 1, req |-> r] \in EntryType
  BY <1>1 DEF EntryType
<1> QED BY <1>1, <1>2, AppendProperties DEF Enqueued

-----------------------------------------------------------------------------
(* Records. *)

LEMMA IdleFacts ==
    /\ Idle \in JobType
    /\ Idle.kind = "idle" /\ Idle.gen = 0 /\ Idle.req = 0 /\ Idle.waiters = {}
    /\ Idle.origin = "none"
BY SessionActorAssumption DEF Idle, JobType, Requests

LEMMA JobFacts ==
    ASSUME NEW k \in {"preparing", "streaming", "approval", "running"}, NEW g \in Nat
    PROVE  /\ Job(k, g) \in JobType
           /\ Job(k, g).kind = k /\ Job(k, g).gen = g /\ Job(k, g).req = 0
           /\ Job(k, g).waiters = {} /\ Job(k, g).origin = "none"
BY IdleFacts DEF Job, JobType

LEMMA NoWaitFacts ==
    /\ NoWait \in WaitType
    /\ NoWait.for = "none" /\ NoWait.req = 0 /\ NoWait.waiters = {}
BY SessionActorAssumption DEF NoWait, WaitType, Requests

LEMMA ClaimingFacts ==
    ASSUME NEW next \in {"busy", "queue", "send"}, NEW r \in Requests
    PROVE  /\ Claiming(next, r) \in WaitType
           /\ Claiming(next, r).for = "claim" /\ Claiming(next, r).next = next
           /\ Claiming(next, r).req = r /\ Claiming(next, r).waiters = {}
<1>1. r \in 0..MaxRequests
  BY SessionActorAssumption DEF Requests
<1> QED BY <1>1, NoWaitFacts DEF Claiming, WaitType

LEMMA JoiningFacts ==
    ASSUME NEW next \in {"cancel", "delete"}, NEW rs \in SUBSET Requests
    PROVE  /\ Joining(next, rs) \in WaitType
           /\ Joining(next, rs).for = "join" /\ Joining(next, rs).next = next
           /\ Joining(next, rs).req = 0 /\ Joining(next, rs).waiters = rs
BY NoWaitFacts DEF Joining, WaitType

LEMMA TaskFacts ==
    ASSUME NEW k \in {"stream", "script", "prep"}, NEW g \in Nat
    PROVE  /\ Task(k, g) \in TaskType
           /\ Task(k, g).kind = k /\ Task(k, g).gen = g /\ Task(k, g).step = "run"
           /\ Task(k, g).told = FALSE
<1>1. <<>> \in Seq(Requests)
  BY EmptySeq
<1> QED BY <1>1 DEF Task, TaskType

LEMMA MessageFacts ==
    ASSUME NEW tag \in {"request", "stop", "prepared", "event", "streamEnded", "scriptEnded"},
           NEW n \in Nat,
           NEW out \in {"none", "ok", "error", "stopped", "text", "result", "prompt", "run"}
    PROVE  /\ Message(tag, n, out) \in MessageType
           /\ Message(tag, n, out).tag = tag /\ Message(tag, n, out).n = n
           /\ Message(tag, n, out).out = out
BY DEF Message, MessageType

-----------------------------------------------------------------------------
(* What is left of earlier jobs: streams that were told to end and have    *)
(* not reported.                                                           *)
Leftover(ts, g) ==
    /\ ts \subseteq TaskType
    /\ \A u \in ts : /\ u.kind = "stream" /\ u.told /\ u.gen \in 1..g
                     /\ \A i \in DOMAIN mailbox : IsEnd(mailbox[i]) => mailbox[i].n # u.gen
    /\ \A u, v \in ts : u.gen = v.gen => u = v

(* The actor's job is over, and it rests ... *)
Rested(ts) ==
    /\ st' = Idle /\ tasks' = ts
    /\ gen' \in {gen, gen + 1}
    /\ Leftover(ts, gen')

(* ... or has begun another one. *)
Began(ts) ==
    /\ gen' = gen + 1
    /\ Leftover(ts, gen)
    /\ st' \in JobType /\ st'.gen = gen + 1 /\ st'.waiters = {}
    /\ st'.kind # "preparing" => st'.req = 0
    /\ \E t \in TaskType : /\ tasks' = ts \cup {t}
                           /\ t.gen = gen + 1 /\ st'.kind = JobOf[t.kind]
                           /\ t.kind = "prep" /\ t.step = "commit" => st'.origin = "continue"

Moved(ts) == Rested(ts) \/ Began(ts)

(* The mailbox as it was, or without its first message. *)
Shrinks == mailbox' = mailbox \/ (mailbox # <<>> /\ mailbox' = Tail(mailbox))

(* What a handler does not touch. *)
Stays == phase = "running" /\ phase' = "running" /\ closed' = closed /\ Shrinks

JobsTyped ==
    /\ gen \in Nat /\ st \in JobType /\ st.gen <= gen
    /\ tasks \subseteq TaskType /\ \A t \in tasks : t.gen \in 1..gen

LEMMA ShrinkFacts ==
    ASSUME TypeOK, Shrinks
    PROVE  /\ mailbox' \in Seq(MessageType)
           /\ \A i \in DOMAIN mailbox' : \E j \in DOMAIN mailbox : mailbox'[i] = mailbox[j]
           /\ \A i, k \in DOMAIN mailbox' : i # k =>
                 \E j, l \in DOMAIN mailbox : j # l /\ mailbox'[i] = mailbox[j] /\ mailbox'[k] = mailbox[l]
<1>1. mailbox \in Seq(MessageType)
  BY DEF TypeOK
<1>2. CASE mailbox' = mailbox
  BY <1>1, <1>2
<1>3. CASE mailbox # <<>> /\ mailbox' = Tail(mailbox)
  <2>1. /\ Tail(mailbox) \in Seq(MessageType)
        /\ \A i \in DOMAIN Tail(mailbox) : i + 1 \in DOMAIN mailbox /\ Tail(mailbox)[i] = mailbox[i + 1]
        /\ \A i \in DOMAIN Tail(mailbox) : i \in Nat
    BY <1>1, <1>3, TailOf
  <2> QED BY <2>1, <1>3
<1> QED BY <1>2, <1>3 DEF Shrinks

LEMMA PhaseStays ==
    ASSUME Core, Stays, stopping' => closed
    PROVE  PhaseInv'
<1>1. \A i \in DOMAIN mailbox' : \E j \in DOMAIN mailbox : mailbox'[i] = mailbox[j]
  BY ShrinkFacts DEF Core, Stays
<1>2. \A j \in DOMAIN mailbox : mailbox[j].tag = "stop" => closed
  BY DEF Core, PhaseInv
<1> QED BY <1>1, <1>2 DEF PhaseInv, Stays

LEMMA RestedKeeps ==
    ASSUME Core, Stays, NEW ts, Rested(ts), active' => leased'
    PROVE  JobsTyped' /\ StateInv' /\ TaskInv' /\ JobInv' /\ LeaseInv'
<1>1. gen \in Nat /\ gen' \in Nat /\ gen <= gen'
  BY DEF Rested, Core, TypeOK
<1>2. /\ st' \in JobType /\ st'.kind = "idle" /\ st'.gen = 0 /\ st'.req = 0 /\ st'.waiters = {}
      /\ st' = Idle
  BY IdleFacts DEF Rested
<1>3. /\ \A i \in DOMAIN mailbox' : \E j \in DOMAIN mailbox : mailbox'[i] = mailbox[j]
      /\ \A i, k \in DOMAIN mailbox' : i # k =>
           \E j, l \in DOMAIN mailbox : j # l /\ mailbox'[i] = mailbox[j] /\ mailbox'[k] = mailbox[l]
  BY ShrinkFacts DEF Core, Stays
<1>4. /\ tasks' \subseteq TaskType
      /\ \A u \in tasks' : /\ u.kind = "stream" /\ u.told /\ u.gen \in 1..gen'
                           /\ \A i \in DOMAIN mailbox : IsEnd(mailbox[i]) => mailbox[i].n # u.gen
      /\ \A u, v \in tasks' : u.gen = v.gen => u = v
  BY DEF Rested, Leftover
<1>5. /\ \A i \in DOMAIN mailbox : mailbox[i].tag \in DOMAIN Reports => mailbox[i].n \in 1..gen
      /\ \A i, j \in DOMAIN mailbox :
          IsEnd(mailbox[i]) /\ IsEnd(mailbox[j]) /\ mailbox[i].n = mailbox[j].n => i = j
  BY DEF Core, TaskInv
<1>6. JobsTyped'
  BY <1>1, <1>2, <1>4 DEF JobsTyped
<1>7. StateInv'
  BY <1>2 DEF StateInv, HasChild
<1>8. TaskInv'
  <2>1. \A i \in DOMAIN mailbox' : mailbox'[i].tag \in DOMAIN Reports => mailbox'[i].n \in 1..gen'
    BY <1>1, <1>3, <1>5
  <2>2. \A i \in DOMAIN mailbox', t \in tasks' : IsEnd(mailbox'[i]) => mailbox'[i].n # t.gen
    BY <1>3, <1>4
  <2>3. \A i, j \in DOMAIN mailbox' :
          IsEnd(mailbox'[i]) /\ IsEnd(mailbox'[j]) /\ mailbox'[i].n = mailbox'[j].n => i = j
    BY <1>3, <1>5
  <2> QED BY <2>1, <2>2, <2>3, <1>4 DEF TaskInv, IsEnd
<1>9. \A i \in DOMAIN mailbox' : mailbox'[i].tag \in DOMAIN Reports => mailbox'[i].n # st'.gen
  BY <1>1, <1>2, <1>3, <1>5
<1>10. JobInv'
  <2>1. \A t \in tasks' : t.gen # st'.gen
    BY <1>1, <1>2, <1>4
  <2> QED BY <2>1, <1>4, <1>9, <1>2 DEF JobInv, HasChild
<1>11. LeaseInv'
  <2>1. \A i \in DOMAIN mailbox' : mailbox'[i].tag = "prepared" => mailbox'[i].n # st'.gen
    BY <1>9 DEF Reports
  <2> QED BY <2>1, <1>2, <1>4 DEF LeaseInv
<1> QED BY <1>6, <1>7, <1>8, <1>10, <1>11

LEMMA BeganKeeps ==
    ASSUME Core, Stays, NEW ts, Began(ts),
           active' => leased',
           st'.kind = "streaming" => live' /\ active',
           st'.kind = "preparing" /\ st'.origin = "continue" => active'
    PROVE  JobsTyped' /\ StateInv' /\ TaskInv' /\ JobInv' /\ LeaseInv'
<1>1. gen \in Nat /\ gen' = gen + 1
  BY DEF Began, Core, TypeOK
<1>2. /\ st' \in JobType /\ st'.gen = gen + 1 /\ st'.waiters = {}
      /\ st'.kind # "preparing" => st'.req = 0
  BY DEF Began
<1>3. /\ \A i \in DOMAIN mailbox' : \E j \in DOMAIN mailbox : mailbox'[i] = mailbox[j]
      /\ \A i, k \in DOMAIN mailbox' : i # k =>
           \E j, l \in DOMAIN mailbox : j # l /\ mailbox'[i] = mailbox[j] /\ mailbox'[k] = mailbox[l]
  BY ShrinkFacts DEF Core, Stays
<1>4. /\ ts \subseteq TaskType
      /\ \A u \in ts : /\ u.kind = "stream" /\ u.told /\ u.gen \in 1..gen
                       /\ \A i \in DOMAIN mailbox : IsEnd(mailbox[i]) => mailbox[i].n # u.gen
      /\ \A u, v \in ts : u.gen = v.gen => u = v
  BY DEF Began, Leftover
<1>5. /\ \A i \in DOMAIN mailbox : mailbox[i].tag \in DOMAIN Reports => mailbox[i].n \in 1..gen
      /\ \A i, j \in DOMAIN mailbox :
          IsEnd(mailbox[i]) /\ IsEnd(mailbox[j]) /\ mailbox[i].n = mailbox[j].n => i = j
  BY DEF Core, TaskInv
<1>6. PICK t \in TaskType : /\ tasks' = ts \cup {t}
                            /\ t.gen = gen + 1 /\ st'.kind = JobOf[t.kind]
                            /\ t.kind = "prep" /\ t.step = "commit" => st'.origin = "continue"
  BY DEF Began
<1>7. st'.kind \in {"preparing", "streaming", "running"} /\ t.kind \in {"prep", "stream", "script"}
      /\ (t.kind = "prep" => st'.kind = "preparing")
  BY <1>6 DEF TaskType, JobOf
<1>8. JobsTyped'
  BY <1>1, <1>2, <1>4, <1>6 DEF JobsTyped
<1>9. StateInv'
  BY <1>1, <1>2, <1>7 DEF StateInv, HasChild
<1>a. \A i \in DOMAIN mailbox : IsEnd(mailbox[i]) => mailbox[i].tag \in DOMAIN Reports
  BY DEF IsEnd, Reports
<1>10. TaskInv'
  <2>1. \A i \in DOMAIN mailbox' : mailbox'[i].tag \in DOMAIN Reports => mailbox'[i].n \in 1..gen'
    BY <1>1, <1>3, <1>5
  <2>2. \A i \in DOMAIN mailbox', u \in tasks' : IsEnd(mailbox'[i]) => mailbox'[i].n # u.gen
    BY <1>1, <1>3, <1>4, <1>5, <1>6, <1>a
  <2>3. \A i, j \in DOMAIN mailbox' :
          IsEnd(mailbox'[i]) /\ IsEnd(mailbox'[j]) /\ mailbox'[i].n = mailbox'[j].n => i = j
    BY <1>3, <1>5
  <2>4. \A u, v \in tasks' : u.gen = v.gen => u = v
    BY <1>1, <1>4, <1>6
  <2> QED BY <2>1, <2>2, <2>3, <2>4 DEF TaskInv, IsEnd
<1>11. \A i \in DOMAIN mailbox' : mailbox'[i].tag \in DOMAIN Reports => mailbox'[i].n # st'.gen
  BY <1>1, <1>2, <1>3, <1>5
<1>12. JobInv'
  <2>1. \A u \in tasks' : u.gen = st'.gen => u = t
    BY <1>1, <1>2, <1>4, <1>6
  <2>2. \A u \in tasks' : /\ u.gen = st'.gen => st'.kind = JobOf[u.kind]
                          /\ u.kind # "stream" \/ ~u.told => u.gen = st'.gen
    BY <2>1, <1>2, <1>4, <1>6
  <2>3. \E u \in tasks' : u.gen = st'.gen
    BY <1>2, <1>6
  <2> QED BY <2>2, <2>3, <1>11 DEF JobInv, HasChild
<1>13. LeaseInv'
  <2>1. \A i \in DOMAIN mailbox' : mailbox'[i].tag = "prepared" => mailbox'[i].n # st'.gen
    BY <1>11 DEF Reports
  <2>2. \A u \in tasks' : u.kind = "prep" /\ u.step = "commit" => leased'
    BY <1>4, <1>6, <1>7
  <2> QED BY <2>1, <2>2 DEF LeaseInv
<1> QED BY <1>8, <1>9, <1>10, <1>12, <1>13

(* A task with its cancellation token cancelled. *)
Tell(t, g) == IF t.gen = g THEN [t EXCEPT !.told = TRUE] ELSE t

LEMMA TellFacts ==
    ASSUME NEW t \in TaskType, NEW g
    PROVE  /\ Tell(t, g) \in TaskType
           /\ Tell(t, g).kind = t.kind /\ Tell(t, g).gen = t.gen /\ Tell(t, g).step = t.step
           /\ t.told => Tell(t, g).told
           /\ t.gen = g => Tell(t, g).told
           /\ Tell(t, g).told => t.told \/ t.gen = g
BY DEF Tell, TaskType

(* The tasks, or the tasks with those of the current job told to end. *)
Same(ts) == ts = tasks \/ ts = Told(st.gen)

LEMMA SameFacts ==
    ASSUME Core, NEW ts, Same(ts)
    PROVE  /\ ts \subseteq TaskType
           /\ \A u \in ts : \E t \in tasks : /\ u.kind = t.kind /\ u.gen = t.gen /\ u.step = t.step
                                             /\ t.told => u.told
           /\ \A t \in tasks : \E u \in ts : u.gen = t.gen
           /\ \A u, v \in ts : u.gen = v.gen => u = v
<1>1. tasks \subseteq TaskType /\ \A t, u \in tasks : t.gen = u.gen => t = u
  BY DEF Core, TypeOK, TaskInv
<1>2. CASE ts = tasks
  BY <1>1, <1>2
<1>3. CASE ts = Told(st.gen)
  <2>1. ts = {Tell(t, st.gen) : t \in tasks}
    BY <1>3 DEF Told, Tell
  <2> QED BY <2>1, <1>1, TellFacts
<1> QED BY <1>2, <1>3 DEF Same

(* Once the report of the current job is received nothing but leftovers    *)
(* remains ...                                                             *)
LEMMA LeftoverAtRest ==
    ASSUME Core, phase = "running",
           \/ st.kind \notin {"preparing", "streaming", "running"}
           \/ mailbox # <<>> /\ IsEnd(Head(mailbox)) /\ Head(mailbox).n = st.gen,
           NEW ts, Same(ts)
    PROVE  Leftover(ts, gen)
<1>1. \A t \in tasks : t.gen # st.gen
  <2>1. CASE st.kind \notin {"preparing", "streaming", "running"}
    <3>1. st.kind \in {"idle", "approval"} /\ st.gen = 0
      BY <2>1, IdleFacts DEF Core, StateInv, TypeOK, JobType
    <3> QED BY <3>1 DEF Core, TypeOK
  <2>2. CASE mailbox # <<>> /\ IsEnd(Head(mailbox)) /\ Head(mailbox).n = st.gen
    <3>1. 1 \in DOMAIN mailbox /\ Head(mailbox) = mailbox[1]
      BY <2>2, TailOf DEF Core, TypeOK
    <3> QED BY <3>1, <2>2 DEF Core, TaskInv
  <2> QED BY <2>1, <2>2
<1>2. \A t \in tasks : t.kind = "stream" /\ t.told
  BY <1>1 DEF Core, JobInv
<1>3. \A t \in tasks : t.gen \in 1..gen
  BY DEF Core, TypeOK
<1>4. \A t \in tasks : \A i \in DOMAIN mailbox : IsEnd(mailbox[i]) => mailbox[i].n # t.gen
  BY DEF Core, TaskInv
<1> QED BY SameFacts, <1>2, <1>3, <1>4 DEF Leftover

(* ... and so it is once the current stream is told to end. *)
LEMMA LeftoverOnceTold ==
    ASSUME Core, phase = "running", st.kind = "streaming"
    PROVE  Leftover(Told(st.gen), gen)
<1>1. \A t \in tasks : t.kind = "stream" /\ (t.told \/ t.gen = st.gen)
  <2>1. \A t \in tasks : t.kind \in {"prep", "stream", "script"}
    BY DEF Core, TypeOK, TaskType
  <2> QED BY <2>1 DEF Core, JobInv, JobOf
<1>2. \A u \in Told(st.gen) : u.told
  <2>1. Told(st.gen) = {Tell(t, st.gen) : t \in tasks}
    BY DEF Told, Tell
  <2>2. tasks \subseteq TaskType
    BY DEF Core, TypeOK
  <2> QED BY <2>1, <2>2, <1>1, TellFacts
<1>3. \A t \in tasks : t.gen \in 1..gen
  BY DEF Core, TypeOK
<1>4. \A t \in tasks : \A i \in DOMAIN mailbox : IsEnd(mailbox[i]) => mailbox[i].n # t.gen
  BY DEF Core, TaskInv
<1>5. Same(Told(st.gen))
  BY DEF Same
<1>6. /\ Told(st.gen) \subseteq TaskType
      /\ \A u \in Told(st.gen) : \E t \in tasks : u.kind = t.kind /\ u.gen = t.gen
      /\ \A u, v \in Told(st.gen) : u.gen = v.gen => u = v
  BY <1>5, SameFacts
<1> QED BY <1>1, <1>2, <1>3, <1>4, <1>6 DEF Leftover

(* The handler leaves the job as it is. *)
LEMMA QuietKeeps ==
    ASSUME Core, Stays,
           \/ mailbox' = mailbox
           \/ ~(HasChild /\ IsEnd(Head(mailbox)) /\ Head(mailbox).n = st.gen),
           st' \in JobType, st'.kind = st.kind, st'.gen = st.gen, st'.origin = st.origin,
           gen' = gen, Same(tasks'),
           active' => leased', leased => leased',
           st.kind = "streaming" \/ st.kind = "preparing" => active' = active /\ live' = live
    PROVE  JobsTyped' /\ TaskInv' /\ JobInv' /\ LeaseInv'
<1>1. gen \in Nat /\ st.gen <= gen /\ \A t \in tasks : t.gen \in 1..gen
  BY DEF Core, TypeOK
<1>2. /\ \A i \in DOMAIN mailbox' : \E j \in DOMAIN mailbox : mailbox'[i] = mailbox[j]
      /\ \A i, k \in DOMAIN mailbox' : i # k =>
           \E j, l \in DOMAIN mailbox : j # l /\ mailbox'[i] = mailbox[j] /\ mailbox'[k] = mailbox[l]
  BY ShrinkFacts DEF Core, Stays
<1>3. /\ tasks' \subseteq TaskType
      /\ \A u \in tasks' : \E t \in tasks : /\ u.kind = t.kind /\ u.gen = t.gen /\ u.step = t.step
                                            /\ t.told => u.told
      /\ \A t \in tasks : \E u \in tasks' : u.gen = t.gen
      /\ \A u, v \in tasks' : u.gen = v.gen => u = v
  BY SameFacts
<1>4. /\ \A i \in DOMAIN mailbox : mailbox[i].tag \in DOMAIN Reports => mailbox[i].n \in 1..gen
      /\ \A i \in DOMAIN mailbox, t \in tasks : IsEnd(mailbox[i]) => mailbox[i].n # t.gen
      /\ \A i, j \in DOMAIN mailbox :
          IsEnd(mailbox[i]) /\ IsEnd(mailbox[j]) /\ mailbox[i].n = mailbox[j].n => i = j
  BY DEF Core, TaskInv
<1>5. /\ \A t \in tasks : /\ t.gen = st.gen => st.kind = JobOf[t.kind]
                          /\ t.kind # "stream" \/ ~t.told => t.gen = st.gen
      /\ \A i \in DOMAIN mailbox :
           mailbox[i].tag \in DOMAIN Reports /\ mailbox[i].n = st.gen => st.kind = Reports[mailbox[i].tag]
      /\ HasChild => \/ \E t \in tasks : t.gen = st.gen
                     \/ \E i \in DOMAIN mailbox : IsEnd(mailbox[i]) /\ mailbox[i].n = st.gen
  BY DEF Core, JobInv, Stays
<1>6. JobsTyped'
  BY <1>1, <1>3 DEF JobsTyped
<1>7. TaskInv'
  <2>1. \A i \in DOMAIN mailbox' : mailbox'[i].tag \in DOMAIN Reports => mailbox'[i].n \in 1..gen'
    BY <1>2, <1>4
  <2>2. \A i \in DOMAIN mailbox', t \in tasks' : IsEnd(mailbox'[i]) => mailbox'[i].n # t.gen
    BY <1>2, <1>3, <1>4
  <2>3. \A i, j \in DOMAIN mailbox' :
          IsEnd(mailbox'[i]) /\ IsEnd(mailbox'[j]) /\ mailbox'[i].n = mailbox'[j].n => i = j
    BY <1>2, <1>4
  <2> QED BY <2>1, <2>2, <2>3, <1>3 DEF TaskInv, IsEnd
<1>8. JobInv'
  <2>1. \A t \in tasks' : /\ t.gen = st'.gen => st'.kind = JobOf[t.kind]
                          /\ t.kind # "stream" \/ ~t.told => t.gen = st'.gen
    BY <1>3, <1>5
  <2>2. \A i \in DOMAIN mailbox' :
           mailbox'[i].tag \in DOMAIN Reports /\ mailbox'[i].n = st'.gen => st'.kind = Reports[mailbox'[i].tag]
    BY <1>2, <1>5
  <2>3. ASSUME HasChild, NEW i \in DOMAIN mailbox, IsEnd(mailbox[i]), mailbox[i].n = st.gen
        PROVE  \E j \in DOMAIN mailbox' : IsEnd(mailbox'[j]) /\ mailbox'[j].n = st.gen
    <3>1. CASE mailbox' = mailbox
      BY <2>3, <3>1
    <3>2. CASE mailbox # <<>> /\ mailbox' = Tail(mailbox) /\ mailbox' # mailbox
      <4>1. Head(mailbox) = mailbox[1] /\ \A j \in DOMAIN mailbox : j # 1 => j - 1 \in DOMAIN Tail(mailbox) /\ Tail(mailbox)[j - 1] = mailbox[j]
        BY <3>2, TailOf DEF Core, TypeOK
      <4>2. i # 1
        BY <4>1, <2>3, <3>2
      <4> QED BY <4>1, <4>2, <2>3, <3>2
    <3> QED BY <3>1, <3>2 DEF Stays, Shrinks
  <2>4. HasChild => \/ \E t \in tasks' : t.gen = st'.gen
                    \/ \E i \in DOMAIN mailbox' : IsEnd(mailbox'[i]) /\ mailbox'[i].n = st'.gen
    BY <2>3, <1>3, <1>5
  <2> QED BY <2>1, <2>2, <2>4 DEF JobInv, HasChild, IsEnd
<1>9. LeaseInv'
  <2>1. /\ \A t \in tasks : t.kind = "prep" /\ t.step = "commit" => leased
        /\ st.kind = "streaming" => live /\ active
        /\ st.kind = "preparing" /\ st.origin = "continue" => active
        /\ \A i \in DOMAIN mailbox :
              mailbox[i].tag = "prepared" /\ mailbox[i].n = st.gen /\ mailbox[i].out = "ok" => live /\ active
    BY DEF Core, LeaseInv, Stays
  <2>2. \A t \in tasks' : t.kind = "prep" /\ t.step = "commit" => leased'
    BY <2>1, <1>3
  <2>3. \A i \in DOMAIN mailbox : mailbox[i].tag = "prepared" /\ mailbox[i].n = st.gen => st.kind = "preparing"
    BY <1>5 DEF Reports
  <2>4. \A i \in DOMAIN mailbox' :
          mailbox'[i].tag = "prepared" /\ mailbox'[i].n = st'.gen /\ mailbox'[i].out = "ok" => live' /\ active'
    BY <2>1, <2>3, <1>2
  <2> QED BY <2>1, <2>2, <2>4 DEF LeaseInv
<1> QED BY <1>6, <1>7, <1>8, <1>9

(* The agent's state fits the job. *)
AgentFits ==
    /\ active' \in BOOLEAN /\ live' \in BOOLEAN /\ leased' \in BOOLEAN
    /\ active' => leased'
    /\ st'.kind = "streaming" => live' /\ active'
    /\ st'.kind = "preparing" /\ st'.origin = "continue" => active'

(* The actor's job is over, and no one waits for what follows. *)
Settles(ts) == Moved(ts) /\ AgentFits /\ st'.req = 0 /\ st'.waiters = {}

LEMMA MovedKeeps ==
    ASSUME Core, Stays, NEW ts, Moved(ts), AgentFits
    PROVE  JobsTyped' /\ StateInv' /\ TaskInv' /\ JobInv' /\ LeaseInv'
BY RestedKeeps, BeganKeeps DEF Moved, AgentFits

LEMMA BeginPreparationBegins ==
    ASSUME Core, NEW ts, Leftover(ts, gen),
           NEW origin \in {"send", "continue", "queue"}, NEW r, origin = "send" => r \in Requests,
           NEW q \in Seq(EntryType), NEW a \in BOOLEAN, NEW b \in BOOLEAN,
           BeginPreparation(ts, origin, r, q, a, b)
    PROVE  /\ Began(ts)
           /\ st'.kind = "preparing" /\ st'.origin = origin
           /\ st'.req = (IF origin = "send" THEN r ELSE 0) /\ st'.waiters = {}
<1> DEFINE job == Job("preparing", gen + 1)
           task == Task("prep", gen + 1)
           req == IF origin = "send" THEN r ELSE 0
           step == IF origin = "continue" /\ q = <<>> THEN "commit" ELSE "run"
           take == IF origin = "send" THEN <<r>> ELSE Messages(q)
           through == Through(q)
           t == [task EXCEPT !.step = step, !.take = take, !.through = through]
<1>1. gen \in Nat /\ gen + 1 \in Nat
  BY DEF Core, TypeOK
<1>2. /\ job \in JobType /\ job.kind = "preparing" /\ job.gen = gen + 1 /\ job.waiters = {}
  BY <1>1, JobFacts
<1>3. task \in TaskType /\ task.kind = "prep" /\ task.gen = gen + 1
  BY <1>1, TaskFacts
<1>4. req \in 0..MaxRequests
  BY SessionActorAssumption DEF Requests
<1>5. step \in {"run", "claim", "commit", "failing"} /\ (step = "commit" => origin = "continue")
  OBVIOUS
<1>6. take \in Seq(Requests)
  <2>1. CASE origin = "send"
    <3>1. <<r>> \in Seq(Requests)
      BY <2>1
    <3> QED BY <2>1, <3>1
  <2>2. CASE origin # "send"
    BY <2>2, MessagesTyped
  <2> QED BY <2>1, <2>2
<1>7. through \in Int
  BY ThroughTyped
<1>8. /\ gen' = gen + 1
      /\ tasks' = ts \cup {t}
      /\ st' = [job EXCEPT !.origin = origin, !.req = req, !.intercepted = a, !.retried = b]
  BY DEF BeginPreparation
<1> HIDE DEF job, task, req, step, take, through
<1>9. t \in TaskType /\ t.gen = gen + 1 /\ t.kind = "prep" /\ t.step = step
  BY <1>3, <1>5, <1>6, <1>7 DEF TaskType
<1>10. st' \in JobType /\ st'.gen = gen + 1 /\ st'.kind = "preparing" /\ st'.origin = origin
       /\ st'.req = req /\ st'.waiters = {}
  BY <1>2, <1>4, <1>8 DEF JobType
<1>11. JobOf["prep"] = "preparing"
  BY DEF JobOf
<1> HIDE DEF t
<1>12. Began(ts)
  BY <1>5, <1>8, <1>9, <1>10, <1>11 DEF Began
<1> QED BY <1>10, <1>12 DEF req

LEMMA RestRests ==
    ASSUME NEW ts, Leftover(ts, gen), Rest(ts)
    PROVE  Rested(ts) /\ st'.kind = "idle" /\ st'.req = 0 /\ st'.waiters = {}
BY IdleFacts DEF Rest, Rested

LEMMA DrainMoves ==
    ASSUME Core, NEW ts, Leftover(ts, gen), NEW q \in Seq(EntryType), Drain(ts, q)
    PROVE  /\ Moved(ts) /\ st'.req = 0 /\ st'.waiters = {}
           /\ st'.kind # "streaming"
           /\ ~(st'.kind = "preparing" /\ st'.origin = "continue")
<1>1. CASE stopping \/ q = <<>>
  <2>1. Rest(ts)
    BY <1>1 DEF Drain
  <2> QED BY <2>1, RestRests DEF Moved
<1>2. CASE ~(stopping \/ q = <<>>)
  <2>1. BeginPreparation(ts, "queue", 0, q, FALSE, FALSE)
    BY <1>2 DEF Drain
  <2>2. /\ Began(ts) /\ st'.kind = "preparing" /\ st'.origin = "queue"
        /\ st'.req = 0 /\ st'.waiters = {}
    BY <2>1, BeginPreparationBegins
  <2> QED BY <2>2 DEF Moved
<1> QED BY <1>1, <1>2

LEMMA FinishAndDrainSettles ==
    ASSUME Core, NEW ts, Leftover(ts, gen), NEW q \in Seq(EntryType), FinishAndDrain(ts, q)
    PROVE  Settles(ts)
<1>1. active' = FALSE /\ live' = FALSE /\ leased' = FALSE /\ Drain(ts, q)
  BY DEF FinishAndDrain, FinishTurn
<1> QED BY <1>1, DrainMoves DEF Settles, AgentFits

LEMMA FaultTyped ==
    ASSUME TypeOK, Fault PROVE faults' \in 0..MaxFaults
BY SessionActorAssumption DEF Fault, TypeOK

LEMMA FlagFacts ==
    ASSUME TypeOK
    PROVE  /\ closed \in BOOLEAN /\ stopping \in BOOLEAN /\ active \in BOOLEAN
           /\ live \in BOOLEAN /\ leased \in BOOLEAN /\ deleted \in BOOLEAN
           /\ failed \in BOOLEAN /\ refused \in BOOLEAN /\ renumbered \in BOOLEAN
BY Zenon DEF TypeOK

LEMMA StartContinuationSettles ==
    ASSUME Core, active, NEW ts, Leftover(ts, gen), NEW b \in BOOLEAN, StartContinuation(ts, b)
    PROVE  Settles(ts) /\ faults' \in 0..MaxFaults
<1>1. live' = FALSE /\ active' = active /\ leased' = leased /\ leased
  BY DEF StartContinuation, Core, LeaseInv
<1>2. active \in BOOLEAN /\ leased \in BOOLEAN
  BY FlagFacts DEF Core
<1>3. CASE BeginPreparation(ts, "continue", 0, queue, queue # <<>>, b) /\ faults' = faults
  <2>1. queue \in Seq(EntryType) /\ (queue # <<>>) \in BOOLEAN
    BY DEF Core, TypeOK
  <2>2. PICK c \in BOOLEAN : c = (queue # <<>>)
    BY <2>1
  <2>3. Began(ts) /\ st'.kind = "preparing" /\ st'.req = 0 /\ st'.waiters = {}
    BY <1>3, <2>1, <2>2, BeginPreparationBegins
  <2>4. AgentFits
    BY <1>1, <1>2, <2>3 DEF AgentFits
  <2>5. faults' \in 0..MaxFaults
    BY <1>3 DEF Core, TypeOK
  <2> QED BY <2>3, <2>4, <2>5 DEF Settles, Moved
<1>4. CASE Fault /\ Rest(ts)
  <2>1. Rested(ts) /\ st'.kind = "idle" /\ st'.req = 0 /\ st'.waiters = {}
    BY <1>4, RestRests
  <2>2. AgentFits
    BY <1>1, <1>2, <2>1 DEF AgentFits
  <2> QED BY <1>4, <2>1, <2>2, FaultTyped DEF Settles, Moved, Core
<1> QED BY <1>3, <1>4 DEF StartContinuation

LEMMA FinalizeScriptSettles ==
    ASSUME Core, NEW ts, Leftover(ts, gen), FinalizeScript(ts)
    PROVE  Settles(ts) /\ faults' \in 0..MaxFaults
<1>1. CASE active /\ StartContinuation(ts, FALSE)
  BY <1>1, StartContinuationSettles
<1>2. CASE FinishAndDrain(ts, queue) /\ faults' = faults
  BY <1>2, FinishAndDrainSettles DEF Core, TypeOK
<1> QED BY <1>1, <1>2 DEF FinalizeScript

LEMMA StreamFailedSettles ==
    ASSUME Core, NEW ts, Leftover(ts, gen), StreamFailed(ts)
    PROVE  Settles(ts) /\ faults' \in 0..MaxFaults
<1>1. CASE FinishAndDrain(ts, queue) /\ faults' = faults
  BY <1>1, FinishAndDrainSettles DEF Core, TypeOK
<1>2. CASE Fault /\ Rest(ts) /\ UNCHANGED agent
  <2>1. Rested(ts) /\ st'.kind = "idle" /\ st'.req = 0 /\ st'.waiters = {}
    BY <1>2, RestRests
  <2>2. active' = active /\ live' = live /\ leased' = leased /\ (active => leased)
    BY <1>2 DEF agent, Core, LeaseInv
  <2>3. active \in BOOLEAN /\ live \in BOOLEAN /\ leased \in BOOLEAN
    BY FlagFacts DEF Core
  <2>4. AgentFits
    BY <2>1, <2>2, <2>3 DEF AgentFits
  <2> QED BY <1>2, <2>1, <2>4, FaultTyped DEF Settles, Moved, Core
<1> QED BY <1>1, <1>2 DEF StreamFailed

LEMMA StartScriptSettles ==
    ASSUME Core, Leftover(tasks, gen), StartScript, active' = active, leased' = leased, live' \in BOOLEAN
    PROVE  Settles(tasks)
<1>1. gen \in Nat /\ gen + 1 \in Nat
  BY DEF Core, TypeOK
<1>2. /\ Task("script", gen + 1) \in TaskType /\ Task("script", gen + 1).kind = "script"
      /\ Task("script", gen + 1).gen = gen + 1
  BY <1>1, TaskFacts
<1>3. /\ Job("running", gen + 1) \in JobType
      /\ Job("running", gen + 1).kind = "running" /\ Job("running", gen + 1).gen = gen + 1
      /\ Job("running", gen + 1).req = 0 /\ Job("running", gen + 1).waiters = {}
  BY <1>1, JobFacts
<1>4. JobOf["script"] = "running"
  BY DEF JobOf
<1>5. Began(tasks)
  BY <1>2, <1>3, <1>4 DEF StartScript, Began
<1>6. active \in BOOLEAN /\ leased \in BOOLEAN /\ (active => leased)
  BY FlagFacts DEF Core, LeaseInv
<1>7. AgentFits
  BY <1>3, <1>6 DEF AgentFits, StartScript
<1> QED BY <1>3, <1>5, <1>7 DEF Settles, Moved, StartScript

-----------------------------------------------------------------------------
(* What the steps of handlers have in common.                              *)

FlagsTyped ==
    {closed, stopping, active, live, leased, deleted, failed, refused, renumbered} \subseteq BOOLEAN

DataTyped ==
    /\ queue \in Seq(EntryType)
    /\ history \in Seq(Requests)
    /\ asked \in [Requests -> Kinds \cup {"none"}]
    /\ answer \in [Requests -> {"none", "started", "queued", "ok", "error"}]
    /\ scripts \in 0..MaxScripts
    /\ faults \in 0..MaxFaults
    /\ discarded \subseteq Requests

LEMMA HandlerKeeps ==
    ASSUME Core, Stays, stopping' => closed,
           JobsTyped', StateInv', TaskInv', JobInv', LeaseInv', WaitInv',
           FlagsTyped', DataTyped', wait' \in WaitType, deferred' \in Seq(Requests)
    PROVE  Core'
<1>1. PhaseInv'
  BY PhaseStays
<1>2. mailbox' \in Seq(MessageType)
  BY ShrinkFacts DEF Core, Stays
<1>3. TypeOK'
  BY <1>2 DEF TypeOK, JobsTyped, FlagsTyped, DataTyped, Stays
<1> QED BY <1>1, <1>3 DEF Core

LEMMA IdleWaits ==
    ASSUME wait' = NoWait
    PROVE  WaitInv' /\ wait' \in WaitType
BY NoWaitFacts DEF WaitInv

LEMMA SettledKeeps ==
    ASSUME Core, Stays, NEW ts, Settles(ts), wait' = NoWait, deferred' = deferred,
           stopping' = stopping, deleted' = deleted, failed' = failed, refused' = refused,
           renumbered' = renumbered, DataTyped'
    PROVE  Core'
<1>1. JobsTyped' /\ StateInv' /\ TaskInv' /\ JobInv' /\ LeaseInv'
  BY MovedKeeps DEF Settles
<1>2. WaitInv' /\ wait' \in WaitType
  BY IdleWaits
<1>3. (stopping' => closed) /\ deferred' \in Seq(Requests)
  BY DEF Core, PhaseInv, TypeOK
<1>4. FlagsTyped'
  <2>1. active' \in BOOLEAN /\ live' \in BOOLEAN /\ leased' \in BOOLEAN
    BY DEF Settles, AgentFits
  <2>2. closed' = closed
    BY DEF Stays
  <2>3. /\ closed \in BOOLEAN /\ stopping \in BOOLEAN /\ deleted \in BOOLEAN
        /\ failed \in BOOLEAN /\ refused \in BOOLEAN /\ renumbered \in BOOLEAN
    BY FlagFacts DEF Core
  <2> QED BY <2>1, <2>2, <2>3, Zenon DEF FlagsTyped
<1> QED BY <1>1, <1>2, <1>3, <1>4, HandlerKeeps

LEMMA QuietCore ==
    ASSUME Core, Stays,
           \/ mailbox' = mailbox
           \/ ~(HasChild /\ IsEnd(Head(mailbox)) /\ Head(mailbox).n = st.gen),
           st' \in JobType, st'.kind = st.kind, st'.gen = st.gen, st'.origin = st.origin,
           gen' = gen, Same(tasks'), StateInv', WaitInv', wait' \in WaitType,
           deferred' \in Seq(Requests), stopping' => closed,
           active' => leased', leased => leased',
           st.kind = "streaming" \/ st.kind = "preparing" => active' = active /\ live' = live,
           FlagsTyped', DataTyped'
    PROVE  Core'
<1>1. JobsTyped' /\ TaskInv' /\ JobInv' /\ LeaseInv'
  BY QuietKeeps
<1> QED BY <1>1, HandlerKeeps

(* The handler touches neither the job nor the agent nor the flags. *)
LEMMA UntouchedCore ==
    ASSUME Core, Stays,
           \/ mailbox' = mailbox
           \/ ~(HasChild /\ IsEnd(Head(mailbox)) /\ Head(mailbox).n = st.gen),
           st' = st, gen' = gen, tasks' = tasks, active' = active, live' = live, leased' = leased,
           stopping' = stopping, deleted' = deleted, failed' = failed, refused' = refused,
           renumbered' \in BOOLEAN,
           WaitInv', wait' \in WaitType, deferred' \in Seq(Requests), DataTyped'
    PROVE  Core'
<1>1. StateInv'
  BY DEF Core, StateInv, HasChild
<1>2. FlagsTyped'
  <2>1. closed' = closed
    BY DEF Stays
  <2> QED BY <2>1, FlagFacts, Zenon DEF FlagsTyped, Core
<1>3. st' \in JobType /\ (active => leased) /\ (stopping => closed)
  BY DEF Core, TypeOK, LeaseInv, PhaseInv
<1>4. Same(tasks')
  BY DEF Same
<1> QED BY <1>1, <1>2, <1>3, <1>4, QuietCore, Zenon

LEMMA ReceivedFacts ==
    ASSUME Core, NEW tag, Received(tag), UNCHANGED registry
    PROVE  /\ Stays /\ mailbox # <<>>
           /\ Head(mailbox) \in MessageType /\ Head(mailbox).tag = tag
           /\ wait = NoWait /\ ~Leaving /\ phase = "running"
<1>1. mailbox # <<>> /\ Head(mailbox).tag = tag /\ mailbox' = Tail(mailbox) /\ Awake /\ ~Leaving
  BY DEF Received, Ready
<1>2. Head(mailbox) \in MessageType
  BY <1>1, TailOf DEF Core, TypeOK
<1>3. wait = NoWait
  BY <1>1 DEF Awake, Core, WaitInv
<1> QED BY <1>1, <1>2, <1>3 DEF Stays, Shrinks, Awake, registry

LEMMA AskedFacts ==
    ASSUME Core, NEW r \in Requests, NEW kinds, Asked(r, kinds), UNCHANGED registry
    PROVE  /\ Stays /\ mailbox # <<>> /\ ~IsEnd(Head(mailbox))
           /\ wait = NoWait /\ ~Leaving /\ phase = "running"
<1>1. Received("request")
  BY DEF Asked
<1>2. /\ Stays /\ mailbox # <<>> /\ Head(mailbox).tag = "request"
      /\ wait = NoWait /\ ~Leaving /\ phase = "running"
  BY <1>1, ReceivedFacts
<1> QED BY <1>2 DEF IsEnd

(* The current job has reported. *)
LEMMA ReportedFacts ==
    ASSUME Core, NEW tag \in {"prepared", "streamEnded", "scriptEnded"}, NEW out, Reported(tag, out),
           UNCHANGED registry
    PROVE  /\ Stays /\ mailbox # <<>> /\ Head(mailbox).out \in out
           /\ wait = NoWait /\ ~Leaving /\ phase = "running"
           /\ st.kind = Reports[tag] /\ Head(mailbox).n = st.gen
           /\ Leftover(tasks, gen)
<1>1. Received(tag) /\ Current(tag, Head(mailbox).n) /\ Head(mailbox).out \in out
  BY DEF Reported
<1>2. /\ Stays /\ mailbox # <<>> /\ Head(mailbox).tag = tag
      /\ wait = NoWait /\ ~Leaving /\ phase = "running"
  BY <1>1, ReceivedFacts
<1>3. IsEnd(Head(mailbox))
  BY <1>2 DEF IsEnd
<1>4. Leftover(tasks, gen)
  BY <1>1, <1>2, <1>3, LeftoverAtRest DEF Current, Same
<1> QED BY <1>1, <1>2, <1>4 DEF Current

-----------------------------------------------------------------------------
(* One lemma for every handler: it keeps Core.                             *)

LEMMA DataFacts ==
    ASSUME Core PROVE DataTyped
BY DEF Core, TypeOK, DataTyped

Answers == {"none", "started", "queued", "ok", "error"}

LEMMA AnsweredTyped ==
    ASSUME Core, NEW rs, NEW a \in Answers
    PROVE  Answered(rs, a) \in [Requests -> Answers]
BY DEF Answered, Core, TypeOK, Answers

LEMMA SameData ==
    ASSUME Core, UNCHANGED <<queue, history, asked, scripts, discarded>>,
           answer' \in [Requests -> Answers], faults' \in 0..MaxFaults
    PROVE  DataTyped'
BY DEF Core, TypeOK, DataTyped, Answers

LEMMA AnswerFacts ==
    ASSUME Core PROVE answer \in [Requests -> Answers] /\ faults \in 0..MaxFaults
BY DEF Core, TypeOK, Answers

LEMMA SendRejectedCore ==
    ASSUME Core, NEW r \in Requests, SendRejected(r)
    PROVE  Core'
<1>1. /\ UNCHANGED registry /\ answer' = Answered({r}, "error")
      /\ UNCHANGED <<st, gen, wait, deferred, stopping, tasks, active, live, leased, queue, history,
                     deleted, asked, scripts, faults, discarded, failed, refused, renumbered>>
  BY DEF SendRejected, registry, actor, agent, store, ghosts
<1>2. /\ Stays /\ mailbox # <<>> /\ ~IsEnd(Head(mailbox)) /\ wait = NoWait
  BY <1>1, AskedFacts DEF SendRejected
<1>3. DataTyped'
  BY <1>1, SameData, AnsweredTyped, AnswerFacts DEF Answers
<1>4. WaitInv' /\ wait' \in WaitType
  BY <1>1, <1>2, IdleWaits
<1>5. deferred' \in Seq(Requests) /\ renumbered' \in BOOLEAN
  BY <1>1, FlagFacts DEF Core, TypeOK
<1> QED BY <1>1, <1>2, <1>3, <1>4, <1>5, UntouchedCore

LEMMA StaleCore ==
    ASSUME Core, Stale
    PROVE  Core'
<1>1. /\ UNCHANGED registry
      /\ UNCHANGED <<st, gen, wait, deferred, stopping, tasks, active, live, leased, queue, history,
                     deleted, asked, answer, scripts, faults, discarded, failed, refused, renumbered>>
  BY DEF Stale, registry, actor, agent, store, ghosts, clients
<1>2. PICK tag \in DOMAIN Reports : Received(tag) /\ ~Current(tag, Head(mailbox).n)
  BY DEF Stale
<1>3. /\ Stays /\ mailbox # <<>> /\ Head(mailbox).tag = tag /\ wait = NoWait /\ phase = "running"
  BY <1>1, <1>2, ReceivedFacts
<1>4. Head(mailbox) = mailbox[1] /\ 1 \in DOMAIN mailbox
  BY <1>3, TailOf DEF Core, TypeOK
<1>5. Head(mailbox).n = st.gen => st.kind = Reports[tag]
  BY <1>3, <1>4 DEF Core, JobInv
<1>6. Head(mailbox).n # st.gen
  BY <1>5, <1>2 DEF Current
<1>7. DataTyped'
  BY <1>1, SameData, AnswerFacts
<1>8. WaitInv' /\ wait' \in WaitType
  BY <1>1, <1>3, IdleWaits
<1>9. deferred' \in Seq(Requests) /\ renumbered' \in BOOLEAN
  BY <1>1, FlagFacts DEF Core, TypeOK
<1> QED BY <1>1, <1>3, <1>6, <1>7, <1>8, <1>9, UntouchedCore

LEMMA ApproveCore ==
    ASSUME Core, NEW r \in Requests, Approve(r)
    PROVE  Core'
<1>1. /\ UNCHANGED registry
      /\ answer' = Answered({r}, IF st.kind = "approval" THEN "ok" ELSE "error")
      /\ UNCHANGED <<wait, deferred, stopping, active, live, leased, queue, history,
                     deleted, asked, scripts, faults, discarded, failed, refused, renumbered>>
      /\ IF st.kind = "approval" THEN StartScript ELSE UNCHANGED <<st, gen, tasks>>
  BY DEF Approve, registry, agent, store, ghosts
<1>2. /\ Stays /\ mailbox # <<>> /\ ~IsEnd(Head(mailbox)) /\ wait = NoWait /\ phase = "running"
  BY <1>1, AskedFacts DEF Approve
<1>3. DataTyped'
  BY <1>1, SameData, AnsweredTyped, AnswerFacts DEF Answers
<1>4. WaitInv' /\ wait' \in WaitType /\ wait' = NoWait
  BY <1>1, <1>2, IdleWaits
<1>5. deferred' \in Seq(Requests) /\ renumbered' \in BOOLEAN /\ live' \in BOOLEAN
  BY <1>1, FlagFacts DEF Core, TypeOK
<1>6. CASE st.kind = "approval"
  <2>1. Leftover(tasks, gen)
    BY <1>2, <1>6, LeftoverAtRest DEF Same
  <2>2. Settles(tasks)
    BY <1>1, <1>5, <1>6, <2>1, StartScriptSettles
  <2> QED BY <1>1, <1>2, <1>3, <1>4, <2>2, SettledKeeps
<1>7. CASE st.kind # "approval"
  BY <1>1, <1>2, <1>3, <1>4, <1>5, <1>7, UntouchedCore
<1> QED BY <1>6, <1>7

LEMMA DenyCore ==
    ASSUME Core, NEW r \in Requests, Deny(r)
    PROVE  Core'
<1>1. /\ UNCHANGED registry
      /\ UNCHANGED <<wait, deferred, stopping, queue, history,
                     deleted, asked, scripts, discarded, failed, refused, renumbered>>
  BY DEF Deny, registry, agent, store, ghosts
<1>2. /\ Stays /\ mailbox # <<>> /\ ~IsEnd(Head(mailbox)) /\ wait = NoWait /\ phase = "running"
  BY <1>1, AskedFacts DEF Deny
<1>4. WaitInv' /\ wait' \in WaitType /\ wait' = NoWait
  BY <1>1, <1>2, IdleWaits
<1>5. deferred' \in Seq(Requests) /\ renumbered' \in BOOLEAN
  BY <1>1, FlagFacts DEF Core, TypeOK
<1>6. CASE st.kind = "approval" /\ FinalizeScript(tasks) /\ answer' = Answered({r}, "ok")
  <2>1. Leftover(tasks, gen)
    BY <1>2, <1>6, LeftoverAtRest DEF Same
  <2>2. Settles(tasks) /\ faults' \in 0..MaxFaults
    BY <1>6, <2>1, FinalizeScriptSettles
  <2>3. DataTyped'
    BY <1>1, <1>6, <2>2, SameData, AnsweredTyped DEF Answers
  <2> QED BY <1>1, <1>2, <1>4, <2>2, <2>3, SettledKeeps
<1>7. CASE /\ st.kind = "approval" /\ Fault /\ FinishAndDrain(tasks, queue)
           /\ answer' = Answered({r}, "error")
  <2>1. Leftover(tasks, gen)
    BY <1>2, <1>7, LeftoverAtRest DEF Same
  <2>2. Settles(tasks)
    BY <1>7, <2>1, FinishAndDrainSettles DEF Core, TypeOK
  <2>3. DataTyped'
    BY <1>1, <1>7, FaultTyped, SameData, AnsweredTyped DEF Answers, Core
  <2> QED BY <1>1, <1>2, <1>4, <2>2, <2>3, SettledKeeps
<1>8. CASE answer' = Answered({r}, "error") /\ UNCHANGED <<st, gen, tasks, agent, faults>>
  <2>1. UNCHANGED <<active, live, leased>>
    BY <1>8 DEF agent
  <2>2. DataTyped'
    BY <1>1, <1>8, SameData, AnsweredTyped, AnswerFacts DEF Answers
  <2> QED BY <1>1, <1>2, <1>4, <1>5, <1>8, <2>1, <2>2, UntouchedCore
<1> QED BY <1>6, <1>7, <1>8 DEF Deny

LEMMA SameFlags ==
    ASSUME Core, UNCHANGED <<closed, stopping, active, live, leased, deleted, failed, refused, renumbered>>
    PROVE  FlagsTyped'
BY FlagFacts, Zenon DEF FlagsTyped, Core

LEMMA DeleteSessionCore ==
    ASSUME Core, Stays, wait = NoWait, NEW r \in Requests, DeleteSession(r),
           \/ mailbox' = mailbox
           \/ ~(HasChild /\ IsEnd(Head(mailbox)) /\ Head(mailbox).n = st.gen),
           UNCHANGED <<gen, stopping, active, live, leased, queue, history, deleted, asked,
                       scripts, faults, discarded, failed, refused, renumbered>>,
           deferred' \in Seq(Requests)
    PROVE  Core'
<1>1. CASE answer' = Answered({r}, "error") /\ UNCHANGED <<st, tasks, wait>>
  <2>1. WaitInv' /\ wait' \in WaitType
    BY <1>1, IdleWaits
  <2>2. DataTyped'
    BY <1>1, SameData, AnsweredTyped, AnswerFacts DEF Answers
  <2>3. renumbered' \in BOOLEAN
    BY FlagFacts DEF Core
  <2> QED BY <1>1, <2>1, <2>2, <2>3, UntouchedCore
<1>2. CASE /\ st.kind \in {"streaming", "idle"} /\ st' = Idle /\ tasks' = Told(st.gen)
           /\ wait' = Joining("delete", {r}) /\ answer' = answer
  <2>1. Leftover(Told(st.gen), gen)
    <3>1. phase = "running"
      BY DEF Stays
    <3>2. CASE st.kind = "streaming"
      BY <3>1, <3>2, LeftoverOnceTold
    <3>3. CASE st.kind = "idle"
      BY <3>1, <3>3, LeftoverAtRest DEF Same
    <3> QED BY <3>2, <3>3, <1>2
  <2>2. Rested(Told(st.gen))
    BY <1>2, <2>1 DEF Rested
  <2>3. (active => leased) /\ (stopping => closed)
    BY DEF Core, LeaseInv, PhaseInv
  <2>4. JobsTyped' /\ StateInv' /\ TaskInv' /\ JobInv' /\ LeaseInv'
    BY <2>2, <2>3, RestedKeeps
  <2>5. /\ wait' \in WaitType /\ wait'.for = "join" /\ wait'.next = "delete" /\ wait'.req = 0
    BY <1>2, JoiningFacts
  <2>6. WaitInv'
    BY <1>2, <2>5 DEF WaitInv
  <2>7. closed' = closed
    BY DEF Stays
  <2>8. FlagsTyped' /\ DataTyped'
    BY <1>2, <2>7, SameFlags, SameData, AnswerFacts
  <2> QED BY <2>3, <2>4, <2>5, <2>6, <2>8, HandlerKeeps
<1> QED BY <1>1, <1>2 DEF DeleteSession

LEMMA DeleteCore ==
    ASSUME Core, NEW r \in Requests, Delete(r)
    PROVE  Core'
<1>1. /\ UNCHANGED registry
      /\ UNCHANGED <<gen, stopping, active, live, leased, queue, history, deleted, asked,
                     scripts, faults, discarded, failed, refused, renumbered>>
  BY DEF Delete, registry, agent, store, ghosts
<1>2. /\ Stays /\ mailbox # <<>> /\ ~IsEnd(Head(mailbox)) /\ wait = NoWait
  BY <1>1, AskedFacts DEF Delete
<1>3. deferred \in Seq(Requests) /\ Append(deferred, r) \in Seq(Requests)
  BY AppendOf DEF Core, TypeOK
<1>4. CASE deferred' = Append(deferred, r) /\ UNCHANGED <<st, tasks, wait, answer>>
  <2>1. WaitInv' /\ wait' \in WaitType
    BY <1>2, <1>4, IdleWaits
  <2>2. DataTyped'
    BY <1>1, <1>4, SameData, AnswerFacts
  <2>3. renumbered' \in BOOLEAN
    BY <1>1, FlagFacts DEF Core
  <2> QED BY <1>1, <1>2, <1>3, <1>4, <2>1, <2>2, <2>3, UntouchedCore
<1>5. CASE DeleteSession(r) /\ UNCHANGED deferred
  BY <1>1, <1>2, <1>3, <1>5, DeleteSessionCore
<1> QED BY <1>4, <1>5 DEF Delete

LEMMA DeletePutOffCore ==
    ASSUME Core, DeletePutOff
    PROVE  Core'
<1>1. /\ UNCHANGED registry /\ mailbox' = mailbox /\ Awake /\ deferred # <<>>
      /\ deferred' = Tail(deferred) /\ DeleteSession(Head(deferred))
      /\ UNCHANGED <<gen, stopping, active, live, leased, queue, history, deleted, asked,
                     scripts, faults, discarded, failed, refused, renumbered>>
  BY DEF DeletePutOff, PutOffDue, registry, agent, store, ghosts
<1>2. Stays /\ wait = NoWait
  BY <1>1 DEF Stays, Shrinks, registry, Awake, Core, WaitInv
<1>3. Tail(deferred) \in Seq(Requests) /\ Head(deferred) \in Requests
  BY <1>1, TailOf DEF Core, TypeOK
<1> QED BY <1>1, <1>2, <1>3, DeleteSessionCore

LEMMA StopCore ==
    ASSUME Core, Stop
    PROVE  Core'
<1>1. /\ UNCHANGED registry /\ stopping' = TRUE
      /\ UNCHANGED <<st, gen, wait, deferred, active, live, leased, queue, history, deleted, asked,
                     answer, scripts, faults, discarded, failed, refused, renumbered>>
      /\ Same(tasks')
  BY DEF Stop, registry, agent, store, ghosts, clients, Same
<1>2. /\ Stays /\ mailbox # <<>> /\ Head(mailbox).tag = "stop" /\ wait = NoWait
  BY <1>1, ReceivedFacts DEF Stop
<1>3. closed
  <2>1. Head(mailbox) = mailbox[1] /\ 1 \in DOMAIN mailbox
    BY <1>2, TailOf DEF Core, TypeOK
  <2> QED BY <1>2, <2>1 DEF Core, PhaseInv
<1>4. WaitInv' /\ wait' \in WaitType
  BY <1>1, <1>2, IdleWaits
<1>5. DataTyped'
  BY <1>1, SameData, AnswerFacts
<1>6. FlagsTyped'
  <2>1. closed' = closed
    BY <1>2 DEF Stays
  <2> QED BY <1>1, <2>1, FlagFacts, Zenon DEF FlagsTyped, Core
<1>7. StateInv'
  BY <1>1 DEF Core, StateInv, HasChild
<1>8. deferred' \in Seq(Requests) /\ st' \in JobType /\ (active => leased) /\ ~IsEnd(Head(mailbox))
  BY <1>1, <1>2 DEF Core, TypeOK, LeaseInv, IsEnd
<1>9. /\ st'.kind = st.kind /\ st'.gen = st.gen /\ st'.origin = st.origin /\ gen' = gen
      /\ (active' => leased') /\ (leased => leased') /\ active' = active /\ live' = live
  BY <1>1, <1>8
<1> QED BY <1>1, <1>2, <1>3, <1>4, <1>5, <1>6, <1>7, <1>8, <1>9, QuietCore, Zenon

LEMMA ExitCore ==
    ASSUME Core, Exit
    PROVE  Core'
<1>1. /\ stopping /\ ~HasChild /\ phase' = "exiting"
      /\ UNCHANGED <<closed, mailbox, st, gen, wait, deferred, stopping, tasks, active, live, leased,
                     queue, history, deleted, asked,
                     answer, scripts, faults, discarded, failed, refused, renumbered>>
  BY DEF Exit, PutOffDue, Leaving, actor, agent, store, ghosts, clients
<1>2. phase = "running" /\ wait = NoWait /\ deferred = <<>>
  BY <1>1 DEF Exit, Awake, PutOffDue, HasChild, Core, WaitInv
<1>3. TypeOK' /\ StateInv' /\ WaitInv' /\ TaskInv'
  BY <1>1 DEF Core, TypeOK, StateInv, WaitInv, TaskInv, HasChild, IsEnd
<1>4. st.kind \in {"idle", "approval"} /\ st.gen = 0
  BY <1>1, IdleFacts DEF HasChild, Core, StateInv, TypeOK, JobType
<1>5. closed /\ \A t \in tasks : t.kind = "stream" /\ t.told
  BY <1>1, <1>2, <1>4 DEF Core, PhaseInv, JobInv, TypeOK
<1>6. PhaseInv'
  BY <1>1, <1>2, <1>5 DEF PhaseInv, Core, HasChild
<1>7. JobInv' /\ LeaseInv'
  BY <1>1 DEF JobInv, LeaseInv, Core
<1> QED BY <1>3, <1>6, <1>7 DEF Core

LEMMA LeaveCore ==
    ASSUME Core, Leave
    PROVE  Core'
<1>1. /\ phase = "exiting" /\ phase' = "none" /\ mailbox' = <<>>
      /\ answer' = Answered(RequestsIn(mailbox), "error")
      /\ UNCHANGED <<closed, st, gen, wait, deferred, stopping, tasks, active, live, leased,
                     queue, history, deleted, asked, scripts, faults, discarded, failed, refused, renumbered>>
  BY DEF Leave, actor, agent, store, ghosts
<1>2. mailbox' \in Seq(MessageType) /\ DOMAIN mailbox' = {}
  <2>1. <<>> \in Seq(MessageType) /\ Len(<<>>) = 0
    BY EmptySeq
  <2> QED BY <1>1, <2>1
<1>3. answer' \in [Requests -> Answers]
  BY <1>1, AnsweredTyped DEF Answers
<1>4. TypeOK'
  BY <1>1, <1>2, <1>3 DEF Core, TypeOK, Answers
<1>5. StateInv' /\ WaitInv' /\ TaskInv' /\ PhaseInv' /\ JobInv' /\ LeaseInv'
  BY <1>1, <1>2 DEF Core, StateInv, WaitInv, TaskInv, PhaseInv, JobInv, LeaseInv, HasChild
<1> QED BY <1>4, <1>5 DEF Core

LEMMA GrantedCore ==
    ASSUME Core, Stays,
           mailbox' = mailbox \/ ~IsEnd(Head(mailbox)),
           NEW r \in Requests, NEW next \in {"busy", "queue", "send"}, Granted(r, next),
           next # "busy" => st = Idle,
           leased' = TRUE, active' = active, live' = live, refused' \in BOOLEAN, wait' = NoWait,
           UNCHANGED <<deferred, stopping, history, deleted, asked, scripts, discarded, failed>>
    PROVE  Core'
<1>1. phase = "running" /\ closed' = closed
  BY DEF Stays
<1>2. WaitInv' /\ wait' \in WaitType
  BY IdleWaits
<1>3. /\ deferred' \in Seq(Requests) /\ (stopping' => closed)
  BY DEF Core, TypeOK, PhaseInv
<1>4. queue' \in Seq(EntryType) /\ answer' \in [Requests -> Answers] /\ faults' \in 0..MaxFaults
  <2>1. CASE queue' = queue /\ answer' = answer /\ faults' = faults
    BY <2>1, AnswerFacts DEF Core, TypeOK
  <2>2. CASE queue' = Enqueued(r) /\ answer' = Answered({r}, "queued") /\ faults' = faults
    BY <2>2, AnswerFacts, AnsweredTyped, EnqueuedTyped DEF Core, Answers
  <2>3. CASE queue' = queue /\ answer' = Answered({r}, "error") /\ Fault
    BY <2>3, FaultTyped, AnsweredTyped DEF Core, TypeOK, Answers
  <2> QED BY <2>1, <2>2, <2>3 DEF Granted
<1>5. DataTyped'
  BY <1>4 DEF DataTyped, Core, TypeOK, Answers
<1>6. renumbered' \in BOOLEAN
  <2>1. renumbered \in BOOLEAN
    BY FlagFacts DEF Core
  <2> DEFINE P == \E t \in tasks : Last(Enqueued(r)).seq <= t.through
  <2>2. renumbered' = renumbered \/ renumbered' = (renumbered \/ P)
    BY DEF Granted
  <2> HIDE DEF P
  <2>3. (renumbered \/ P) \in BOOLEAN
    BY Zenon
  <2> QED BY <2>1, <2>2, <2>3, Zenon
<1>7. FlagsTyped'
  BY <1>1, <1>6, FlagFacts, Zenon DEF FlagsTyped, Core
<1>8. active \in BOOLEAN /\ live \in BOOLEAN
  BY FlagFacts DEF Core
<1>9. ASSUME NEW ts, Moved(ts), st'.kind # "streaming", ~(st'.kind = "preparing" /\ st'.origin = "continue")
      PROVE  Core'
  <2>1. AgentFits
    BY <1>8, <1>9 DEF AgentFits
  <2>2. JobsTyped' /\ StateInv' /\ TaskInv' /\ JobInv' /\ LeaseInv'
    BY <2>1, <1>9, MovedKeeps
  <2> QED BY <2>2, <1>2, <1>3, <1>5, <1>7, HandlerKeeps
<1>10. ASSUME UNCHANGED <<st, gen, tasks>>
       PROVE  Core'
  <2>1. StateInv' /\ st' \in JobType
    BY <1>10 DEF Core, StateInv, HasChild, TypeOK
  <2>2. Same(tasks')
    BY <1>10 DEF Same
  <2> QED BY <1>10, <2>1, <2>2, <1>2, <1>3, <1>5, <1>7, QuietCore
<1>11. next # "busy" => Leftover(tasks, gen)
  BY <1>1, IdleFacts, LeftoverAtRest DEF Same
<1>12. CASE next = "send" /\ BeginPreparation(tasks, "send", r, <<>>, FALSE, FALSE)
  <2>1. <<>> \in Seq(EntryType)
    BY EmptySeq
  <2>2. Began(tasks) /\ st'.kind = "preparing" /\ st'.origin = "send"
    BY <1>11, <1>12, <2>1, BeginPreparationBegins
  <2> QED BY <2>2, <1>9 DEF Moved
<1>13. CASE next = "queue" /\ Drain(tasks, Enqueued(r))
  <2>1. Enqueued(r) \in Seq(EntryType)
    BY EnqueuedTyped DEF Core
  <2>2. Moved(tasks) /\ st'.kind # "streaming" /\ ~(st'.kind = "preparing" /\ st'.origin = "continue")
    BY <1>11, <1>13, <2>1, DrainMoves
  <2> QED BY <2>2, <1>9
<1> QED BY <1>10, <1>12, <1>13 DEF Granted

LEMMA SendKindFacts ==
    ASSUME Core
    PROVE  SendKind \in {"busy", "queue", "send"} /\ (SendKind # "busy" => st = Idle)
BY DEF SendKind, Core, StateInv

LEMMA SendCore ==
    ASSUME Core, NEW r \in Requests, Send(r)
    PROVE  Core'
<1>1. /\ UNCHANGED registry
      /\ UNCHANGED <<deferred, stopping, active, live, leased, history, deleted, asked, scripts,
                     discarded, failed, refused>>
      /\ IF leased
         THEN Granted(r, SendKind) /\ UNCHANGED wait
         ELSE /\ wait' = Claiming(SendKind, r)
              /\ UNCHANGED <<st, gen, tasks, queue, answer, faults, renumbered>>
  BY DEF Send, registry, agent
<1>2. /\ Stays /\ mailbox # <<>> /\ ~IsEnd(Head(mailbox)) /\ wait = NoWait
  BY <1>1, AskedFacts DEF Send
<1>3. leased \in BOOLEAN /\ refused \in BOOLEAN /\ renumbered \in BOOLEAN
  BY FlagFacts DEF Core
<1>4. PICK next \in {"busy", "queue", "send"} : next = SendKind /\ (next # "busy" => st = Idle)
  BY SendKindFacts
<1>5. CASE leased
  <2>1. Granted(r, next) /\ wait' = NoWait
    BY <1>1, <1>2, <1>4, <1>5
  <2>2. leased' = TRUE /\ active' = active /\ live' = live /\ refused' \in BOOLEAN
    BY <1>1, <1>3, <1>5
  <2> QED BY <1>1, <1>2, <1>4, <2>1, <2>2, GrantedCore
<1>6. CASE ~leased
  <2>1. /\ wait' = Claiming(next, r)
        /\ UNCHANGED <<st, gen, tasks, queue, answer, faults, renumbered>>
    BY <1>1, <1>4, <1>6
  <2>2. /\ wait' \in WaitType /\ wait'.for = "claim" /\ wait'.next = next
        /\ wait'.waiters = {} /\ wait'.req \in Requests
    BY <2>1, ClaimingFacts
  <2>3. WaitInv'
    BY <2>1, <2>2, <1>4 DEF WaitInv
  <2>4. DataTyped'
    BY <1>1, <2>1, SameData, AnswerFacts
  <2>5. deferred' \in Seq(Requests) /\ renumbered' \in BOOLEAN
    BY <1>1, <1>3, <2>1 DEF Core, TypeOK
  <2> QED BY <1>1, <1>2, <2>1, <2>2, <2>3, <2>4, <2>5, UntouchedCore
<1> QED BY <1>5, <1>6

LEMMA SendClaimCore ==
    ASSUME Core, SendClaim
    PROVE  Core'
<1>1. /\ phase = "running" /\ wait.for = "claim" /\ wait' = NoWait /\ leased' = TRUE
      /\ refused' = (refused \/ leased)
      /\ UNCHANGED <<phase, closed, mailbox, deferred, stopping, active, live, history, deleted, asked,
                     scripts, discarded, failed>>
      /\ IF leased
         THEN /\ answer' = Answered({wait.req}, "error")
              /\ UNCHANGED <<st, gen, tasks, queue, faults, renumbered>>
         ELSE Granted(wait.req, wait.next)
  BY DEF SendClaim, registry
<1>2. Stays
  BY <1>1 DEF Stays, Shrinks
<1>3. refused' \in BOOLEAN
  BY <1>1, Zenon
<1>4. PICK next \in {"busy", "queue", "send"} : next = wait.next /\ (next # "busy" => st = Idle)
  BY <1>1 DEF Core, WaitInv
<1>5. CASE leased
  <2>1. WaitInv' /\ wait' \in WaitType
    BY <1>1, IdleWaits
  <2>2. answer' = Answered({wait.req}, "error") /\ UNCHANGED <<st, gen, tasks, queue, faults, renumbered>>
    BY <1>1, <1>5
  <2>3. DataTyped'
    BY <1>1, <2>2, SameData, AnsweredTyped, AnswerFacts DEF Answers
  <2>4. StateInv' /\ st' \in JobType /\ deferred' \in Seq(Requests) /\ (stopping' => closed)
    BY <1>1, <2>2 DEF Core, StateInv, HasChild, TypeOK, PhaseInv
  <2>5. Same(tasks')
    BY <2>2 DEF Same
  <2>6. FlagsTyped'
    BY <1>1, <1>3, <2>2, FlagFacts, Zenon DEF FlagsTyped, Core
  <2> QED BY <1>1, <1>2, <2>1, <2>2, <2>3, <2>4, <2>5, <2>6, QuietCore
<1>6. CASE ~leased
  <2>1. Granted(wait.req, next)
    BY <1>1, <1>4, <1>6
  <2>2. wait.req \in Requests
    BY <1>1 DEF Core, WaitInv
  <2> QED BY <1>1, <1>2, <1>3, <1>4, <2>1, <2>2, GrantedCore
<1> QED BY <1>5, <1>6

(* Handlers that tell the stream to end and wait for its task. *)
LEMMA JoiningCore ==
    ASSUME Core, Stays, NEW ts, Rested(ts), NEW next \in {"cancel", "delete"}, NEW rs \in SUBSET Requests,
           wait' = Joining(next, rs), active' => leased', FlagsTyped', DataTyped',
           deferred' = deferred, stopping' = stopping
    PROVE  Core'
<1>1. JobsTyped' /\ StateInv' /\ TaskInv' /\ JobInv' /\ LeaseInv'
  BY RestedKeeps
<1>2. /\ wait' \in WaitType /\ wait'.for = "join" /\ wait'.next = next /\ wait'.req = 0
  BY JoiningFacts
<1>3. WaitInv'
  BY <1>2 DEF WaitInv, Rested
<1>4. deferred' \in Seq(Requests) /\ (stopping' => closed)
  BY DEF Core, TypeOK, PhaseInv
<1> QED BY <1>1, <1>2, <1>3, <1>4, HandlerKeeps

LEMMA CancelCore ==
    ASSUME Core, NEW r \in Requests, Cancel(r)
    PROVE  Core'
<1> DEFINE clears == asked[r] = "cancelTurn" /\ leased
           kept == IF clears THEN <<>> ELSE queue
<1>1. /\ UNCHANGED registry
      /\ UNCHANGED <<deferred, stopping, history, deleted, asked, scripts, failed, refused, renumbered>>
      /\ queue' = kept
      /\ discarded' = IF clears THEN discarded \cup Range(Messages(queue)) ELSE discarded
  BY DEF Cancel
<1>2. \/ /\ st.kind = "approval"
         /\ FinishAndDrain(tasks, kept)
         /\ answer' = Answered({r}, "ok") \/ answer' = Answered({r}, "error")
         /\ faults' = faults \/ Fault
         /\ UNCHANGED wait
      \/ /\ st.kind = "running"
         /\ tasks' = Told(st.gen)
         /\ active' = FALSE
         /\ st' = [st EXCEPT !.waiters = @ \cup {r}]
         /\ UNCHANGED <<gen, wait, live, leased, answer, faults>>
      \/ /\ st.kind = "preparing"
         /\ st' = [st EXCEPT !.cancelled = TRUE, !.waiters = @ \cup {r}]
         /\ UNCHANGED <<gen, wait, tasks, agent, answer, faults>>
      \/ /\ st.kind = "streaming"
         /\ CancelStreamJob(tasks, st, {r}, answer)
         /\ UNCHANGED gen
      \/ /\ st.kind = "idle"
         /\ FinishAndDrain(tasks, kept) \/ UNCHANGED <<st, gen, tasks, agent>>
         /\ answer' = Answered({r}, "ok")
         /\ UNCHANGED <<wait, faults>>
  BY DEF Cancel
<1>3. /\ Stays /\ mailbox # <<>> /\ ~IsEnd(Head(mailbox)) /\ wait = NoWait /\ phase = "running"
  BY <1>1, AskedFacts DEF Cancel
<1>4. kept \in Seq(EntryType)
  <2>1. <<>> \in Seq(EntryType)
    BY EmptySeq
  <2> QED BY <2>1 DEF Core, TypeOK
<1>5. discarded' \subseteq Requests
  <2>1. Range(Messages(queue)) \subseteq Requests
    BY MessagesTyped DEF Core, TypeOK
  <2> QED BY <1>1, <2>1 DEF Core, TypeOK
<1> HIDE DEF kept, clears
<1>6. ASSUME answer' \in [Requests -> Answers], faults' \in 0..MaxFaults
      PROVE  DataTyped'
  BY <1>1, <1>4, <1>5, <1>6 DEF Core, TypeOK, DataTyped, Answers
<1>7. /\ answer \in [Requests -> Answers] /\ faults \in 0..MaxFaults
      /\ Answered({r}, "ok") \in [Requests -> Answers]
      /\ Answered({r}, "error") \in [Requests -> Answers]
      /\ [s \in Requests |-> IF s \in {r} THEN "error" ELSE answer[s]] \in [Requests -> Answers]
  BY AnswerFacts, AnsweredTyped DEF Answers
<1>8. deferred' \in Seq(Requests) /\ (stopping' => closed) /\ (active => leased) /\ closed' = closed
  BY <1>1, <1>3 DEF Core, TypeOK, PhaseInv, LeaseInv, Stays
<1>9. /\ stopping' = stopping /\ deleted' = deleted /\ failed' = failed /\ refused' = refused
      /\ renumbered' = renumbered
  BY <1>1
<1>10. ASSUME active' \in BOOLEAN, live' \in BOOLEAN, leased' \in BOOLEAN
       PROVE  FlagsTyped'
  BY <1>8, <1>9, <1>10, FlagFacts, Zenon DEF FlagsTyped, Core
<1>11. active \in BOOLEAN /\ live \in BOOLEAN /\ leased \in BOOLEAN
  BY FlagFacts DEF Core
<1>12. CASE /\ st.kind \in {"approval", "idle"} /\ FinishAndDrain(tasks, kept)
            /\ answer' = Answered({r}, "ok") \/ answer' = Answered({r}, "error")
            /\ faults' = faults \/ Fault
            /\ UNCHANGED wait
  <2>1. Leftover(tasks, gen)
    BY <1>3, <1>12, LeftoverAtRest DEF Same
  <2>2. Settles(tasks)
    BY <1>4, <1>12, <2>1, FinishAndDrainSettles
  <2>3. DataTyped' /\ wait' = NoWait
    BY <1>3, <1>6, <1>7, <1>12, FaultTyped DEF Core
  <2> QED BY <1>1, <1>3, <1>9, <2>2, <2>3, SettledKeeps
<1>13. CASE /\ st.kind = "idle" /\ UNCHANGED <<st, gen, tasks, agent>>
            /\ answer' = Answered({r}, "ok") /\ UNCHANGED <<wait, faults>>
  <2>1. UNCHANGED <<active, live, leased>>
    BY <1>13 DEF agent
  <2>2. DataTyped' /\ wait' = NoWait
    BY <1>3, <1>6, <1>7, <1>13
  <2>3. WaitInv' /\ wait' \in WaitType
    BY <2>2, IdleWaits
  <2>4. renumbered' \in BOOLEAN
    BY <1>9, FlagFacts DEF Core
  <2> QED BY <1>3, <1>8, <1>9, <1>13, <2>1, <2>2, <2>3, <2>4, UntouchedCore
<1>14. CASE /\ st.kind = "running" /\ tasks' = Told(st.gen) /\ active' = FALSE
            /\ st' = [st EXCEPT !.waiters = @ \cup {r}]
            /\ UNCHANGED <<gen, wait, live, leased, answer, faults>>
  <2>1. /\ st' \in JobType /\ st'.kind = st.kind /\ st'.gen = st.gen /\ st'.origin = st.origin
        /\ st'.req = st.req
    BY <1>14 DEF Core, TypeOK, JobType
  <2>2. StateInv'
    BY <1>14, <2>1 DEF StateInv, Core, HasChild
  <2>3. DataTyped' /\ wait' = NoWait /\ Same(tasks')
    BY <1>3, <1>6, <1>7, <1>14 DEF Same
  <2>4. WaitInv' /\ wait' \in WaitType
    BY <2>3, IdleWaits
  <2>5. FlagsTyped'
    BY <1>10, <1>11, <1>14
  <2>6. /\ (active' => leased') /\ (leased => leased') /\ gen' = gen
        /\ ~(st.kind = "streaming" \/ st.kind = "preparing")
    BY <1>14
  <2> QED BY <1>3, <1>8, <2>1, <2>2, <2>3, <2>4, <2>5, <2>6, QuietCore
<1>15. CASE /\ st.kind = "preparing" /\ st' = [st EXCEPT !.cancelled = TRUE, !.waiters = @ \cup {r}]
            /\ UNCHANGED <<gen, wait, tasks, agent, answer, faults>>
  <2>1. /\ st' \in JobType /\ st'.kind = st.kind /\ st'.gen = st.gen /\ st'.origin = st.origin
        /\ st'.cancelled
    BY <1>15 DEF Core, TypeOK, JobType
  <2>2. StateInv'
    BY <1>15, <2>1 DEF StateInv, Core, HasChild
  <2>3. DataTyped' /\ wait' = NoWait /\ Same(tasks')
    BY <1>3, <1>6, <1>7, <1>15 DEF Same
  <2>4. WaitInv' /\ wait' \in WaitType
    BY <2>3, IdleWaits
  <2>5. active' = active /\ live' = live /\ leased' = leased /\ gen' = gen
    BY <1>15 DEF agent
  <2>6. FlagsTyped'
    BY <1>10, <1>11, <2>5
  <2> QED BY <1>3, <1>8, <2>1, <2>2, <2>3, <2>4, <2>5, <2>6, QuietCore
<1>16. CASE /\ st.kind = "streaming" /\ live' = FALSE /\ st' = Idle /\ gen' = gen
            /\ tasks' = {IF t.gen = st.gen THEN [t EXCEPT !.told = TRUE] ELSE t : t \in tasks}
            /\ wait' = Joining("cancel", {r}) /\ answer' = answer
            /\ UNCHANGED <<active, leased, faults>>
  <2>1. tasks' = Told(st.gen)
    BY <1>16 DEF Told
  <2>2. Leftover(Told(st.gen), gen)
    BY <1>3, <1>16, LeftoverOnceTold
  <2>3. Rested(Told(st.gen))
    BY <1>16, <2>1, <2>2 DEF Rested
  <2>4. DataTyped' /\ FlagsTyped'
    BY <1>6, <1>7, <1>10, <1>11, <1>16
  <2>5. deferred' = deferred /\ (active' => leased') /\ {r} \in SUBSET Requests
    BY <1>1, <1>8, <1>16
  <2> QED BY <1>3, <1>9, <1>16, <2>3, <2>4, <2>5, JoiningCore
<1>17. CASE /\ st.kind = "streaming" /\ Fault /\ st' = st /\ tasks' = tasks /\ gen' = gen
            /\ answer' = [s \in Requests |-> IF s \in {r} THEN "error" ELSE answer[s]]
            /\ UNCHANGED <<wait, agent>>
  <2>1. UNCHANGED <<active, live, leased>>
    BY <1>17 DEF agent
  <2>2. DataTyped' /\ wait' = NoWait
    BY <1>3, <1>6, <1>7, <1>17, FaultTyped DEF Core
  <2>3. WaitInv' /\ wait' \in WaitType
    BY <2>2, IdleWaits
  <2>4. renumbered' \in BOOLEAN
    BY <1>9, FlagFacts DEF Core
  <2> QED BY <1>3, <1>8, <1>9, <1>17, <2>1, <2>2, <2>3, <2>4, UntouchedCore
<1> QED BY <1>2, <1>12, <1>13, <1>14, <1>15, <1>16, <1>17 DEF CancelStreamJob

LEMMA JoinedFacts ==
    ASSUME Core, NEW next, Joined(next)
    PROVE  /\ phase = "running" /\ wait' = NoWait /\ st = Idle /\ st.kind = "idle"
           /\ Leftover(tasks, gen) /\ tasks = {}
<1>1. phase = "running" /\ wait' = NoWait /\ st = Idle /\ Tracked = {}
  BY DEF Joined, Core, WaitInv
<1>2. st.kind = "idle"
  BY <1>1, IdleFacts
<1>3. Leftover(tasks, gen)
  BY <1>1, <1>2, LeftoverAtRest DEF Same
<1>4. tasks = {}
  BY <1>1, <1>3 DEF Leftover, Tracked
<1> QED BY <1>1, <1>2, <1>3, <1>4

LEMMA CancelJoinedCore ==
    ASSUME Core, CancelJoined
    PROVE  Core'
<1>1. /\ UNCHANGED <<phase, closed, mailbox, deferred, stopping, queue, history, deleted, asked, scripts,
                     faults, discarded, failed, refused, renumbered>>
      /\ FinishAndDrain(tasks, queue)
      /\ answer' = Answered(wait.waiters, "ok")
      /\ Joined("cancel")
  BY DEF CancelJoined, registry, store, ghosts
<1>2. phase = "running" /\ wait' = NoWait /\ Leftover(tasks, gen)
  BY <1>1, JoinedFacts
<1>3. Stays
  BY <1>1, <1>2 DEF Stays, Shrinks
<1>4. Settles(tasks)
  BY <1>1, <1>2, FinishAndDrainSettles DEF Core, TypeOK
<1>5. DataTyped'
  BY <1>1, SameData, AnsweredTyped, AnswerFacts DEF Answers
<1> QED BY <1>1, <1>2, <1>3, <1>4, <1>5, SettledKeeps

LEMMA DeleteFailedCore ==
    ASSUME Core, DeleteFailed
    PROVE  Core'
<1>1. /\ UNCHANGED <<phase, closed, mailbox, st, gen, deferred, stopping, tasks, leased, queue, history,
                     deleted, asked, scripts, discarded, failed, refused, renumbered>>
      /\ faults' = faults \/ Fault
      /\ answer' = Answered(wait.waiters, "error")
      /\ Joined("delete")
      /\ UNCHANGED <<active, live>> \/ (active' = FALSE /\ live' = FALSE)
  BY DEF DeleteFailed, registry, store, ghosts
<1>2. phase = "running" /\ wait' = NoWait /\ st.kind = "idle"
  BY <1>1, JoinedFacts
<1>3. Stays
  BY <1>1, <1>2 DEF Stays, Shrinks
<1>4. faults' \in 0..MaxFaults
  BY <1>1, FaultTyped, AnswerFacts DEF Core
<1>5. DataTyped'
  BY <1>1, <1>4, SameData, AnsweredTyped DEF Answers
<1>6. WaitInv' /\ wait' \in WaitType
  BY <1>2, IdleWaits
<1>7. StateInv' /\ st' \in JobType /\ deferred' \in Seq(Requests) /\ (stopping' => closed)
      /\ (active => leased)
  BY <1>1 DEF Core, StateInv, HasChild, TypeOK, PhaseInv, LeaseInv
<1>8. Same(tasks')
  BY <1>1 DEF Same
<1>9. active' \in BOOLEAN /\ live' \in BOOLEAN
  BY <1>1, FlagFacts, Zenon DEF Core
<1>10. FlagsTyped'
  BY <1>1, <1>9, FlagFacts, Zenon DEF FlagsTyped, Core
<1>11. (active' => leased') /\ (leased => leased')
  BY <1>1, <1>7
<1> QED BY <1>1, <1>2, <1>3, <1>5, <1>6, <1>7, <1>8, <1>10, <1>11, QuietCore

LEMMA DeleteJoinedCore ==
    ASSUME Core, DeleteJoined
    PROVE  Core'
<1>1. /\ deleted' = TRUE /\ queue' = <<>> /\ discarded' = discarded \cup Range(Messages(queue))
      /\ active' = FALSE /\ live' = FALSE /\ leased' = FALSE
      /\ phase' = "exiting" /\ deferred' = <<>>
      /\ UNCHANGED <<closed, mailbox, st, gen, stopping, tasks, history, asked, scripts, faults,
                     failed, refused, renumbered>>
      /\ answer' = [r \in Requests |-> IF r \in wait.waiters THEN "ok"
                                       ELSE IF r \in Range(deferred) THEN "error" ELSE answer[r]]
      /\ Joined("delete")
  BY DEF DeleteJoined, FinishTurn
<1>2. phase = "running" /\ wait' = NoWait /\ st = Idle /\ st.kind = "idle" /\ tasks = {}
  BY <1>1, JoinedFacts
<1>3. FlagsTyped'
  BY <1>1, FlagFacts, Zenon DEF FlagsTyped, Core
<1>4. WaitInv' /\ wait' \in WaitType
  BY <1>2, IdleWaits
<1>5. DataTyped'
  <2>1. Range(Messages(queue)) \subseteq Requests /\ queue' \in Seq(EntryType)
    BY <1>1, MessagesTyped, EmptySeq DEF Core, TypeOK
  <2>2. answer' \in [Requests -> Answers]
    BY <1>1 DEF Core, TypeOK, Answers
  <2> QED BY <1>1, <2>1, <2>2 DEF DataTyped, Core, TypeOK, Answers
<1>6. TypeOK'
  <2>1. deferred' \in Seq(Requests)
    BY <1>1, EmptySeq
  <2>2. JobsTyped'
    BY <1>1 DEF Core, TypeOK, JobsTyped
  <2>3. mailbox' \in Seq(MessageType) /\ phase' \in {"none", "running", "exiting"}
    BY <1>1 DEF Core, TypeOK
  <2> QED BY <2>1, <2>2, <2>3, <1>3, <1>4, <1>5 DEF TypeOK, FlagsTyped, DataTyped, JobsTyped
<1>7. StateInv' /\ TaskInv'
  BY <1>1 DEF Core, StateInv, HasChild, TaskInv, IsEnd
<1>8. PhaseInv' /\ JobInv' /\ LeaseInv'
  BY <1>1, <1>2 DEF Core, PhaseInv, JobInv, LeaseInv, HasChild
<1> QED BY <1>4, <1>6, <1>7, <1>8 DEF Core

LEMMA PreparedStartsCore ==
    ASSUME Core, PreparedStarts
    PROVE  Core'
<1> DEFINE new == Task("stream", gen + 1)
           ts == tasks \cup {new}
           job == Job("streaming", gen + 1)
<1>1. /\ UNCHANGED registry
      /\ UNCHANGED <<deferred, stopping, queue, history, deleted, asked, scripts, discarded, failed,
                     refused, renumbered>>
      /\ Reported("prepared", {"ok"}) /\ gen' = gen + 1
      /\ \/ CancelStreamJob(ts, job, st.waiters, Answered({st.req}, "started"))
         \/ /\ tasks' = ts /\ st' = job /\ answer' = Answered({st.req}, "started")
            /\ UNCHANGED <<wait, agent, faults>>
  BY DEF PreparedStarts, store, ghosts
<1>2. /\ Stays /\ mailbox # <<>> /\ Head(mailbox).out = "ok" /\ wait = NoWait /\ phase = "running"
      /\ st.kind = "preparing" /\ Head(mailbox).n = st.gen /\ Leftover(tasks, gen)
  BY <1>1, ReportedFacts DEF Reports
<1>3. gen \in Nat /\ gen + 1 \in Nat /\ st.waiters \in SUBSET Requests
  BY DEF Core, TypeOK, JobType
<1>4. /\ new \in TaskType /\ new.kind = "stream" /\ new.gen = gen + 1
  BY <1>3, TaskFacts
<1>5. /\ job \in JobType /\ job.kind = "streaming" /\ job.gen = gen + 1 /\ job.req = 0
      /\ job.waiters = {}
  BY <1>3, JobFacts
<1>6. live /\ active /\ leased
  <2>1. Head(mailbox) = mailbox[1] /\ 1 \in DOMAIN mailbox
    BY <1>2, TailOf DEF Core, TypeOK
  <2>2. Received("prepared")
    BY <1>1 DEF Reported
  <2>3. Head(mailbox).tag = "prepared"
    BY <2>2 DEF Received
  <2> QED BY <1>2, <2>1, <2>3 DEF Core, LeaseInv
<1>7. active \in BOOLEAN /\ live \in BOOLEAN /\ leased \in BOOLEAN
  BY FlagFacts DEF Core
<1>8. /\ stopping' = stopping /\ deleted' = deleted /\ failed' = failed /\ refused' = refused
      /\ renumbered' = renumbered /\ closed' = closed /\ deferred' = deferred
  BY <1>1, <1>2 DEF Stays
<1>9. /\ Answered({st.req}, "started") \in [Requests -> Answers]
      /\ [r \in Requests |-> IF r \in st.waiters THEN "error" ELSE Answered({st.req}, "started")[r]]
           \in [Requests -> Answers]
  <2>1. Answered({st.req}, "started") \in [Requests -> Answers]
    BY AnsweredTyped DEF Answers
  <2> QED BY <2>1 DEF Answers
<1> HIDE DEF new, job
<1>10. ASSUME tasks' = ts, st' = job, active' = active, live' = live, leased' = leased, wait' = wait,
              answer' \in [Requests -> Answers], faults' \in 0..MaxFaults
       PROVE  Core'
  <2>1. JobOf["stream"] = "streaming"
    BY DEF JobOf
  <2>2. Began(tasks)
    BY <1>1, <1>2, <1>4, <1>5, <1>10, <2>1 DEF Began
  <2>3. AgentFits
    BY <1>5, <1>6, <1>7, <1>10 DEF AgentFits
  <2>4. Settles(tasks)
    BY <2>2, <2>3, <1>5, <1>10 DEF Settles, Moved
  <2>5. DataTyped'
    BY <1>1, <1>10, SameData
  <2> QED BY <1>2, <1>8, <1>10, <2>4, <2>5, SettledKeeps
<1>11. CASE /\ tasks' = ts /\ st' = job /\ answer' = Answered({st.req}, "started")
            /\ UNCHANGED <<wait, agent, faults>>
  BY <1>9, <1>10, <1>11, AnswerFacts DEF agent
<1>12. CASE /\ Fault /\ st' = job /\ tasks' = ts
            /\ answer' = [r \in Requests |-> IF r \in st.waiters THEN "error"
                                             ELSE Answered({st.req}, "started")[r]]
            /\ UNCHANGED <<wait, agent>>
  BY <1>9, <1>10, <1>12, FaultTyped DEF agent, Core
<1>13. CASE /\ live' = FALSE /\ st' = Idle
            /\ tasks' = {IF t.gen = job.gen THEN [t EXCEPT !.told = TRUE] ELSE t : t \in ts}
            /\ wait' = Joining("cancel", st.waiters)
            /\ answer' = Answered({st.req}, "started")
            /\ UNCHANGED <<active, leased, faults>>
  <2>1. tasks' = {Tell(t, gen + 1) : t \in ts}
    BY <1>5, <1>13 DEF Tell
  <2>2. ts \subseteq TaskType /\ \A t \in ts : t.kind = "stream" /\ (t.told \/ t.gen = gen + 1)
    BY <1>2, <1>4 DEF Leftover
  <2>3. \A t \in ts : /\ t.gen \in 1..gen + 1
                      /\ \A i \in DOMAIN mailbox : IsEnd(mailbox[i]) => mailbox[i].n # t.gen
    <3>1. \A i \in DOMAIN mailbox : IsEnd(mailbox[i]) => mailbox[i].n # gen + 1
      <4>1. \A i \in DOMAIN mailbox : IsEnd(mailbox[i]) => mailbox[i].tag \in DOMAIN Reports
        BY DEF IsEnd, Reports
      <4>2. \A i \in DOMAIN mailbox : mailbox[i].tag \in DOMAIN Reports => mailbox[i].n \in 1..gen
        BY DEF Core, TaskInv
      <4> QED BY <4>1, <4>2, <1>3
    <3> QED BY <1>2, <1>3, <1>4, <3>1 DEF Leftover
  <2>4. \A t, u \in ts : t.gen = u.gen => t = u
    BY <1>2, <1>3, <1>4 DEF Leftover
  <2> HIDE DEF ts
  <2>5. \A u \in tasks' : \E t \in ts : /\ u = Tell(t, gen + 1) /\ u \in TaskType /\ u.kind = t.kind
                                        /\ u.gen = t.gen /\ u.told
    BY <2>1, <2>2, TellFacts
  <2>6. Leftover(tasks', gen + 1)
    BY <2>2, <2>3, <2>4, <2>5 DEF Leftover
  <2>7. Rested(tasks')
    BY <1>1, <1>13, <2>6 DEF Rested
  <2>8. DataTyped'
    BY <1>1, <1>9, <1>13, SameData, AnswerFacts
  <2>9. FlagsTyped'
    BY <1>8, <1>13, FlagFacts, Zenon DEF FlagsTyped, Core
  <2>10. active' => leased'
    BY <1>6, <1>13
  <2> QED BY <1>2, <1>3, <1>8, <1>13, <2>7, <2>8, <2>9, <2>10, JoiningCore
<1> QED BY <1>1, <1>11, <1>12, <1>13 DEF CancelStreamJob

LEMMA PreparationAnsweredTyped ==
    ASSUME Core, NEW a \in Answers
    PROVE  PreparationAnswered(a) \in [Requests -> Answers]
BY DEF PreparationAnswered, Core, TypeOK, Answers

LEMMA PreparedStoppingCore ==
    ASSUME Core, PreparedStopping
    PROVE  Core'
<1>1. /\ UNCHANGED registry
      /\ UNCHANGED <<gen, wait, deferred, stopping, tasks, active, live, leased, queue, history, deleted,
                     asked, scripts, faults, discarded, failed, refused, renumbered>>
      /\ Reported("prepared", {"ok"}) /\ st' = Idle
      /\ answer' = PreparationAnswered("error")
  BY DEF PreparedStopping, store, ghosts, agent
<1>2. Stays /\ wait = NoWait /\ Leftover(tasks, gen)
  BY <1>1, ReportedFacts
<1>3. Rested(tasks) /\ st'.kind = "idle" /\ st'.req = 0 /\ st'.waiters = {}
  BY <1>1, <1>2, IdleFacts DEF Rested
<1>4. AgentFits
  BY <1>1, <1>3, FlagFacts DEF AgentFits, Core, LeaseInv
<1>5. DataTyped'
  BY <1>1, SameData, AnswerFacts, PreparationAnsweredTyped DEF Answers
<1>6. Settles(tasks) /\ wait' = NoWait
  BY <1>1, <1>2, <1>3, <1>4 DEF Settles, Moved
<1> QED BY <1>1, <1>2, <1>5, <1>6, SettledKeeps

LEMMA PreparedFailedCore ==
    ASSUME Core, PreparedFailed
    PROVE  Core'
<1>1. /\ UNCHANGED registry
      /\ UNCHANGED <<wait, deferred, stopping, queue, history, deleted,
                     asked, scripts, discarded, failed, refused, renumbered>>
      /\ Reported("prepared", {"error"})
      /\ answer' = PreparationAnswered("error")
      /\ \/ Retries /\ StartContinuation(tasks, TRUE)
         \/ FinishTurn /\ (Drain(tasks, queue) \/ Rest(tasks)) /\ UNCHANGED faults
  BY DEF PreparedFailed, store, ghosts
<1>2. Stays /\ wait = NoWait /\ Leftover(tasks, gen) /\ st.kind = "preparing" /\ phase = "running"
  BY <1>1, ReportedFacts DEF Reports
<1>3. Settles(tasks) /\ faults' \in 0..MaxFaults
  <2>1. CASE Retries /\ StartContinuation(tasks, TRUE)
    <3>1. active
      BY <1>2, <2>1 DEF Retries, Core, LeaseInv
    <3> QED BY <1>2, <2>1, <3>1, StartContinuationSettles
  <2>2. CASE FinishTurn /\ Drain(tasks, queue) /\ UNCHANGED faults
    BY <1>2, <2>2, FinishAndDrainSettles, AnswerFacts DEF FinishAndDrain, Core, TypeOK
  <2>3. CASE FinishTurn /\ Rest(tasks) /\ UNCHANGED faults
    <3>1. Rested(tasks) /\ st'.kind = "idle" /\ st'.req = 0 /\ st'.waiters = {}
      BY <1>2, <2>3, RestRests
    <3> QED BY <2>3, <3>1, AnswerFacts DEF Settles, Moved, AgentFits, FinishTurn
  <2> QED BY <1>1, <2>1, <2>2, <2>3
<1>4. DataTyped' /\ wait' = NoWait
  BY <1>1, <1>2, <1>3, SameData, PreparationAnsweredTyped DEF Answers
<1> QED BY <1>1, <1>2, <1>3, <1>4, SettledKeeps

LEMMA StreamEventFailedCore ==
    ASSUME Core, StreamEventFailed
    PROVE  Core'
<1>1. /\ UNCHANGED registry
      /\ UNCHANGED <<wait, deferred, stopping, queue, history, deleted,
                     asked, answer, scripts, discarded, failed, refused, renumbered>>
      /\ Reported("event", {"error"})
      /\ StreamFailed(Told(st.gen))
  BY DEF StreamEventFailed, store, ghosts, clients
<1>2. Received("event") /\ st.kind = "streaming"
  BY <1>1 DEF Reported, Current, Reports
<1>3. Stays /\ wait = NoWait /\ phase = "running"
  BY <1>1, <1>2, ReceivedFacts
<1>4. Leftover(Told(st.gen), gen)
  BY <1>2, <1>3, LeftoverOnceTold
<1>5. Settles(Told(st.gen)) /\ faults' \in 0..MaxFaults
  BY <1>1, <1>4, StreamFailedSettles
<1>6. DataTyped' /\ wait' = NoWait
  BY <1>1, <1>3, <1>5, SameData, AnswerFacts
<1> QED BY <1>1, <1>3, <1>5, <1>6, SettledKeeps

LEMMA StreamEndedCore ==
    ASSUME Core, StreamEnded
    PROVE  Core'
<1>1. /\ UNCHANGED registry
      /\ UNCHANGED <<wait, deferred, stopping, queue, history, deleted,
                     asked, answer, scripts, discarded, failed, refused, renumbered>>
      /\ Reported("streamEnded", {"text", "result", "prompt", "run", "error", "stopped"})
      /\ \/ Rest(tasks) /\ UNCHANGED <<agent, faults>>
         \/ FinishAndDrain(tasks, queue) /\ UNCHANGED faults
         \/ FinalizeScript(tasks)
         \/ /\ st' = Job("approval", 0) /\ live' = FALSE
            /\ UNCHANGED <<gen, tasks, active, leased, faults>>
         \/ StartScript /\ live' = FALSE /\ UNCHANGED <<active, leased, faults>>
         \/ StreamFailed(tasks)
  BY DEF StreamEnded, store, ghosts, clients
<1>2. Stays /\ wait = NoWait /\ Leftover(tasks, gen) /\ phase = "running"
  BY <1>1, ReportedFacts
<1>3. (active => leased) /\ active \in BOOLEAN /\ live \in BOOLEAN /\ leased \in BOOLEAN
      /\ faults \in 0..MaxFaults /\ queue \in Seq(EntryType)
  BY FlagFacts, AnswerFacts DEF Core, LeaseInv, TypeOK
<1>4. ASSUME NEW ts, Settles(ts), faults' \in 0..MaxFaults
      PROVE  Core'
  <2>1. DataTyped' /\ wait' = NoWait
    BY <1>1, <1>2, <1>4, SameData, AnswerFacts
  <2> QED BY <1>1, <1>2, <1>4, <2>1, SettledKeeps
<1>5. CASE Rest(tasks) /\ UNCHANGED <<agent, faults>>
  <2>1. Rested(tasks) /\ st'.kind = "idle" /\ st'.req = 0 /\ st'.waiters = {}
    BY <1>2, <1>5, RestRests
  <2>2. AgentFits
    BY <1>3, <1>5, <2>1 DEF AgentFits, agent
  <2> QED BY <1>3, <1>4, <1>5, <2>1, <2>2 DEF Settles, Moved
<1>6. CASE FinishAndDrain(tasks, queue) /\ UNCHANGED faults
  BY <1>2, <1>3, <1>4, <1>6, FinishAndDrainSettles
<1>7. CASE FinalizeScript(tasks)
  BY <1>2, <1>4, <1>7, FinalizeScriptSettles
<1>8. CASE StreamFailed(tasks)
  BY <1>2, <1>4, <1>8, StreamFailedSettles
<1>9. CASE StartScript /\ live' = FALSE /\ UNCHANGED <<active, leased, faults>>
  BY <1>2, <1>3, <1>4, <1>9, StartScriptSettles
<1>10. CASE /\ st' = Job("approval", 0) /\ live' = FALSE
            /\ UNCHANGED <<gen, tasks, active, leased, faults>>
  <2>1. /\ st' \in JobType /\ st'.kind = "approval" /\ st'.gen = 0 /\ st'.req = 0 /\ st'.waiters = {}
    BY <1>10, JobFacts
  <2>2. gen \in Nat /\ \A t \in tasks : t.gen \in 1..gen /\ t.kind = "stream" /\ t.told
    BY <1>2 DEF Core, TypeOK, Leftover
  <2>3. /\ \A i \in DOMAIN mailbox' : \E j \in DOMAIN mailbox : mailbox'[i] = mailbox[j]
        /\ \A i, k \in DOMAIN mailbox' : i # k =>
             \E j, l \in DOMAIN mailbox : j # l /\ mailbox'[i] = mailbox[j] /\ mailbox'[k] = mailbox[l]
    BY <1>2, ShrinkFacts DEF Core, Stays
  <2>4. JobsTyped' /\ StateInv'
    BY <1>10, <2>1, <2>2 DEF Core, TypeOK, JobsTyped, StateInv, HasChild
  <2>5. TaskInv'
    <3>1. gen' = gen /\ tasks' = tasks
      BY <1>10
    <3>2. \A i \in DOMAIN mailbox' : mailbox'[i].tag \in DOMAIN Reports => mailbox'[i].n \in 1..gen'
      BY <2>3, <3>1 DEF Core, TaskInv
    <3>3. \A i \in DOMAIN mailbox', t \in tasks' : IsEnd(mailbox'[i]) => mailbox'[i].n # t.gen
      BY <2>3, <3>1 DEF Core, TaskInv
    <3>4. \A i, j \in DOMAIN mailbox' :
            IsEnd(mailbox'[i]) /\ IsEnd(mailbox'[j]) /\ mailbox'[i].n = mailbox'[j].n => i = j
      BY <2>3 DEF Core, TaskInv
    <3> QED BY <3>1, <3>2, <3>3, <3>4 DEF Core, TaskInv, IsEnd
  <2>6. \A i \in DOMAIN mailbox' : mailbox'[i].tag \in DOMAIN Reports => mailbox'[i].n # st'.gen
    BY <2>1, <2>2, <2>3 DEF Core, TaskInv
  <2>7. JobInv'
    BY <1>10, <2>1, <2>2, <2>6 DEF JobInv, HasChild
  <2>8. LeaseInv'
    <3>1. \A i \in DOMAIN mailbox' : mailbox'[i].tag = "prepared" => mailbox'[i].n # st'.gen
      BY <2>6 DEF Reports
    <3> QED BY <1>3, <1>10, <2>1, <2>2, <3>1 DEF LeaseInv
  <2>9. WaitInv' /\ wait' \in WaitType
    BY <1>1, <1>2, IdleWaits
  <2>10. DataTyped'
    BY <1>1, <1>3, <1>10, SameData, AnswerFacts
  <2>11. FlagsTyped'
    <3>1. closed' = closed
      BY <1>2 DEF Stays
    <3> QED BY <1>1, <1>10, <3>1, FlagFacts, Zenon DEF FlagsTyped, Core
  <2>12. (stopping' => closed) /\ deferred' \in Seq(Requests)
    BY <1>1 DEF Core, PhaseInv, TypeOK
  <2> QED BY <1>2, <2>4, <2>5, <2>7, <2>8, <2>9, <2>10, <2>11, <2>12, HandlerKeeps
<1> QED BY <1>1, <1>5, <1>6, <1>7, <1>8, <1>9, <1>10

LEMMA ScriptEndedCore ==
    ASSUME Core, ScriptEnded
    PROVE  Core'
<1>1. /\ UNCHANGED registry
      /\ UNCHANGED <<wait, deferred, stopping, queue, history, deleted,
                     asked, scripts, discarded, failed, refused, renumbered>>
      /\ Reported("scriptEnded", {"ok", "error"})
      /\ answer' = Answered(st.waiters, "ok")
      /\ \/ FinalizeScript(tasks)
         \/ FinishAndDrain(tasks, queue) /\ UNCHANGED faults
  BY DEF ScriptEnded, store, ghosts
<1>2. Stays /\ wait = NoWait /\ Leftover(tasks, gen)
  BY <1>1, ReportedFacts
<1>3. Settles(tasks) /\ faults' \in 0..MaxFaults
  <2>1. CASE FinalizeScript(tasks)
    BY <1>2, <2>1, FinalizeScriptSettles
  <2>2. CASE FinishAndDrain(tasks, queue) /\ UNCHANGED faults
    BY <1>2, <2>2, FinishAndDrainSettles, AnswerFacts DEF Core, TypeOK
  <2> QED BY <1>1, <2>1, <2>2
<1>4. DataTyped' /\ wait' = NoWait
  BY <1>1, <1>2, <1>3, SameData, AnsweredTyped DEF Answers
<1> QED BY <1>1, <1>2, <1>3, <1>4, SettledKeeps

-----------------------------------------------------------------------------
(* Steps beside the actor: the registry and the tasks.                     *)

LEMMA PostFacts ==
    ASSUME Core, NEW m \in MessageType, Post(m)
    PROVE  /\ mailbox' \in Seq(MessageType)
           /\ \A i \in DOMAIN mailbox : i \in DOMAIN mailbox' /\ mailbox'[i] = mailbox[i]
           /\ \A i \in DOMAIN mailbox' : \/ i \in DOMAIN mailbox /\ mailbox'[i] = mailbox[i]
                                         \/ i = Len(mailbox) + 1 /\ mailbox'[i] = m
           /\ Len(mailbox) + 1 \in DOMAIN mailbox' /\ mailbox'[Len(mailbox) + 1] = m
<1>1. mailbox \in Seq(MessageType) /\ mailbox' = Append(mailbox, m)
  BY DEF Post, Core, TypeOK
<1> HIDE DEF Post
<1> QED BY <1>1, AppendOf

(* A message that is no report. *)
LEMMA PostedKeeps ==
    ASSUME Core, NEW m \in MessageType, Post(m), m.tag \in {"request", "stop"},
           UNCHANGED <<phase, gen, st, tasks, active, live, leased>>
    PROVE  TaskInv' /\ JobInv' /\ LeaseInv'
<1>1. /\ \A i \in DOMAIN mailbox : i \in DOMAIN mailbox' /\ mailbox'[i] = mailbox[i]
      /\ \A i \in DOMAIN mailbox' : \/ i \in DOMAIN mailbox /\ mailbox'[i] = mailbox[i]
                                    \/ mailbox'[i] = m
  BY PostFacts
<1>2. ~IsEnd(m) /\ m.tag \notin DOMAIN Reports /\ m.tag # "prepared"
  BY DEF IsEnd, Reports
<1>3. TaskInv'
  BY <1>1, <1>2 DEF Core, TaskInv, IsEnd
<1>4. JobInv'
  <2>1. \A i \in DOMAIN mailbox' : mailbox'[i].tag \in DOMAIN Reports => i \in DOMAIN mailbox /\ mailbox'[i] = mailbox[i]
    BY <1>1, <1>2
  <2>2. \A i \in DOMAIN mailbox : IsEnd(mailbox[i]) => i \in DOMAIN mailbox' /\ IsEnd(mailbox'[i]) /\ mailbox'[i].n = mailbox[i].n
    BY <1>1
  <2> QED BY <2>1, <2>2 DEF Core, JobInv, HasChild, IsEnd
<1>5. LeaseInv'
  BY <1>1, <1>2 DEF Core, LeaseInv
<1> QED BY <1>3, <1>4, <1>5

LEMMA StopAllCore ==
    ASSUME Core, StopAll
    PROVE  Core'
<1>1. /\ closed' = TRUE
      /\ UNCHANGED <<phase, st, gen, wait, deferred, stopping, tasks, active, live, leased,
                     queue, history, deleted, asked, answer, scripts, faults, discarded, failed,
                     refused, renumbered>>
      /\ \/ phase = "none" /\ mailbox' = mailbox
         \/ phase # "none" /\ Post(Message("stop", 0, "none"))
  BY DEF StopAll, actor, agent, store, ghosts, clients
<1>2. FlagsTyped'
  BY <1>1, FlagFacts, Zenon DEF FlagsTyped, Core
<1>3. PICK m \in MessageType : m = Message("stop", 0, "none") /\ m.tag = "stop"
  BY MessageFacts
<1>4. mailbox' \in Seq(MessageType)
  BY <1>1, <1>3, PostFacts DEF Core, TypeOK
<1>5. TypeOK'
  BY <1>1, <1>2, <1>4 DEF Core, TypeOK, FlagsTyped
<1>6. StateInv' /\ WaitInv'
  BY <1>1 DEF Core, StateInv, WaitInv, HasChild
<1>7. PhaseInv'
  BY <1>1 DEF Core, PhaseInv, HasChild
<1>8. TaskInv' /\ JobInv' /\ LeaseInv'
  <2>1. CASE mailbox' = mailbox
    BY <1>1, <2>1 DEF Core, TaskInv, JobInv, LeaseInv, HasChild, IsEnd
  <2>2. CASE Post(m)
    BY <1>1, <1>3, <2>2, PostedKeeps
  <2> QED BY <1>1, <1>3, <2>1, <2>2
<1> QED BY <1>5, <1>6, <1>7, <1>8 DEF Core

LEMMA AskCore ==
    ASSUME Core, Ask
    PROVE  Core'
<1>1. PICK r \in Requests, k \in Kinds :
        /\ asked' = [asked EXCEPT ![r] = k]
        /\ IF closed
           THEN answer' = Answered({r}, "error") /\ UNCHANGED <<phase, mailbox, actor>>
           ELSE /\ Post(Message("request", r, "none"))
                /\ phase' = IF phase = "none" THEN "running" ELSE phase
                /\ IF phase = "none"
                   THEN st' = Idle /\ gen' = 0 /\ wait' = NoWait /\ deferred' = <<>> /\ stopping' = FALSE
                   ELSE UNCHANGED actor
                /\ UNCHANGED answer
  BY DEF Ask
<1>2. UNCHANGED <<closed, tasks, active, live, leased, queue, history, deleted, scripts, faults,
                  discarded, failed, refused, renumbered>>
  BY DEF Ask, agent, store, ghosts
<1>3. asked' \in [Requests -> Kinds \cup {"none"}]
  BY <1>1 DEF Core, TypeOK
<1>4. closed \in BOOLEAN
  BY FlagFacts DEF Core
<1>5. CASE closed
  <2>1. /\ answer' = Answered({r}, "error")
        /\ UNCHANGED <<phase, mailbox, st, gen, wait, deferred, stopping>>
    BY <1>1, <1>5 DEF actor
  <2>2. answer' \in [Requests -> Answers]
    BY <2>1, AnsweredTyped DEF Answers
  <2>3. TypeOK'
    BY <1>2, <1>3, <2>1, <2>2 DEF Core, TypeOK, Answers
  <2>4. StateInv' /\ WaitInv' /\ PhaseInv' /\ TaskInv' /\ JobInv' /\ LeaseInv'
    BY <1>2, <2>1 DEF Core, StateInv, WaitInv, PhaseInv, TaskInv, JobInv, LeaseInv, HasChild, IsEnd
  <2> QED BY <2>3, <2>4 DEF Core
<1>6. CASE ~closed
  <2>1. PICK m \in MessageType : m = Message("request", r, "none") /\ m.tag = "request"
    <3>1. r \in Nat
      BY SessionActorAssumption DEF Requests
    <3> QED BY <3>1, MessageFacts
  <2>2. Post(m) /\ answer' = answer
    BY <1>1, <1>6, <2>1
  <2>3. /\ mailbox' \in Seq(MessageType)
        /\ \A i \in DOMAIN mailbox' : \/ i \in DOMAIN mailbox /\ mailbox'[i] = mailbox[i]
                                      \/ mailbox'[i] = m
    BY <2>2, PostFacts
  <2>4. CASE phase = "none"
    <3>1. /\ phase' = "running" /\ st' = Idle /\ gen' = 0 /\ wait' = NoWait /\ deferred' = <<>>
          /\ stopping' = FALSE
      BY <1>1, <1>6, <2>4
    <3>2. tasks' = {} /\ mailbox = <<>>
      BY <1>2, <1>6, <2>4 DEF Core, PhaseInv
    <3>3. \A i \in DOMAIN mailbox' : mailbox'[i] = m
      <4>1. DOMAIN mailbox = {}
        BY <3>2
      <4> QED BY <4>1, <2>3
    <3>4. FlagsTyped'
      BY <1>2, <3>1, FlagFacts, Zenon DEF FlagsTyped, Core
    <3>5. TypeOK'
      <4>1. deferred' \in Seq(Requests)
        BY <3>1, EmptySeq
      <4>2. st' \in JobType /\ st'.gen <= gen' /\ wait' \in WaitType
        BY <3>1, IdleFacts, NoWaitFacts
      <4> QED BY <1>2, <1>3, <2>2, <2>3, <3>1, <3>2, <3>4, <4>1, <4>2 DEF Core, TypeOK, FlagsTyped
    <3>6. StateInv' /\ WaitInv'
      BY <3>1, IdleFacts, NoWaitFacts DEF StateInv, WaitInv, HasChild
    <3>7. PhaseInv'
      BY <2>1, <3>1, <3>3 DEF PhaseInv
    <3>8. ~IsEnd(m) /\ m.tag \notin DOMAIN Reports /\ m.tag # "prepared"
      BY <2>1 DEF IsEnd, Reports
    <3>9. TaskInv'
      BY <3>2, <3>3, <3>8 DEF TaskInv, IsEnd
    <3>10. JobInv' /\ LeaseInv'
      BY <1>2, <3>1, <3>2, <3>3, <3>8, IdleFacts DEF JobInv, LeaseInv, HasChild, Core
    <3> QED BY <3>5, <3>6, <3>7, <3>9, <3>10 DEF Core
  <2>5. CASE phase # "none"
    <3>1. UNCHANGED <<phase, st, gen, wait, deferred, stopping>>
      BY <1>1, <1>6, <2>5 DEF actor
    <3>2. TypeOK'
      BY <1>2, <1>3, <2>2, <2>3, <3>1 DEF Core, TypeOK
    <3>3. StateInv' /\ WaitInv'
      BY <3>1 DEF Core, StateInv, WaitInv, HasChild
    <3>4. PhaseInv'
      BY <1>2, <2>1, <2>3, <2>5, <3>1 DEF Core, PhaseInv, HasChild
    <3>5. TaskInv' /\ JobInv' /\ LeaseInv'
      BY <1>2, <2>1, <2>2, <3>1, PostedKeeps
    <3> QED BY <3>2, <3>3, <3>4, <3>5 DEF Core
  <2> QED BY <2>4, <2>5
<1> QED BY <1>5, <1>6

(* What the task steps leave alone of the actor. *)
TaskFrame == UNCHANGED <<phase, closed, st, gen, wait, deferred, stopping>>

LEMMA TaskStepKeeps ==
    ASSUME Core, TaskFrame, mailbox' \in Seq(MessageType), phase = "none" => mailbox' = mailbox,
           \A i \in DOMAIN mailbox' : mailbox'[i].tag = "stop" => closed,
           tasks' \subseteq TaskType,
           \A u \in tasks' : \E t \in tasks : u.kind = t.kind /\ u.gen = t.gen /\ (t.told => u.told),
           TaskInv', JobInv', LeaseInv', FlagsTyped', DataTyped'
    PROVE  Core'
<1>1. UNCHANGED <<phase, closed, st, gen, wait, deferred, stopping>>
  BY DEF TaskFrame
<1>2. TypeOK'
  BY <1>1 DEF Core, TypeOK, FlagsTyped, DataTyped
<1>3. StateInv' /\ WaitInv'
  BY <1>1 DEF Core, StateInv, WaitInv, HasChild
<1>4. PhaseInv'
  BY <1>1 DEF Core, PhaseInv, HasChild
<1> QED BY <1>2, <1>3, <1>4 DEF Core

LEMMA ReportCore ==
    ASSUME Core, TaskFrame, NEW t \in tasks,
           NEW tag \in {"prepared", "streamEnded", "scriptEnded"}, Reports[tag] = JobOf[t.kind],
           NEW out \in {"ok", "error", "stopped", "text", "result", "prompt", "run"},
           Report(t, tag, out),
           active => active', live => live', active' => leased',
           \A u \in tasks : u # t /\ u.kind = "prep" => leased = leased',
           tag = "prepared" /\ out = "ok" => live' /\ active',
           FlagsTyped', DataTyped'
    PROVE  Core'
<1>1. UNCHANGED <<phase, closed, st, gen, wait, deferred, stopping>> /\ tasks' = tasks \ {t}
  BY DEF TaskFrame, Report
<1>2. t \in TaskType /\ t.gen \in 1..gen /\ gen \in Nat /\ tasks \subseteq TaskType
  BY DEF Core, TypeOK
<1>3. PICK m \in MessageType : m = Message(tag, t.gen, out) /\ m.tag = tag /\ m.n = t.gen /\ m.out = out
  <2>1. t.gen \in Nat
    BY <1>2
  <2> QED BY <2>1, MessageFacts
<1>4. IsEnd(m) /\ m.tag \in DOMAIN Reports /\ m.tag # "stop"
  BY <1>3 DEF IsEnd, Reports
<1>5. /\ \A i \in DOMAIN mailbox : mailbox[i].tag \in DOMAIN Reports => mailbox[i].n \in 1..gen
      /\ \A i \in DOMAIN mailbox, u \in tasks : IsEnd(mailbox[i]) => mailbox[i].n # u.gen
      /\ \A i, j \in DOMAIN mailbox :
          IsEnd(mailbox[i]) /\ IsEnd(mailbox[j]) /\ mailbox[i].n = mailbox[j].n => i = j
      /\ \A u, v \in tasks : u.gen = v.gen => u = v
  BY DEF Core, TaskInv
<1>6. \A u \in tasks' : u \in tasks /\ u # t /\ u.gen # t.gen
  BY <1>1, <1>5
<1>7. CASE phase = "none"
  <2>1. mailbox' = mailbox
    BY <1>7 DEF Report
  <2>2. TaskInv'
    BY <1>1, <1>6, <2>1 DEF Core, TaskInv, IsEnd
  <2>3. JobInv'
    BY <1>1, <1>7 DEF JobInv
  <2>4. LeaseInv'
    BY <1>1, <1>6, <1>7 DEF LeaseInv, Core
  <2>5. \A i \in DOMAIN mailbox' : mailbox'[i].tag = "stop" => closed
    BY <2>1 DEF Core, PhaseInv
  <2>6. mailbox' \in Seq(MessageType) /\ tasks' \subseteq TaskType
    BY <1>1, <1>2, <2>1 DEF Core, TypeOK
  <2> QED BY <1>6, <2>1, <2>2, <2>3, <2>4, <2>5, <2>6, TaskStepKeeps
<1>8. CASE phase # "none"
  <2>1. Post(m)
    BY <1>3, <1>8 DEF Report
  <2>2. /\ mailbox' \in Seq(MessageType)
        /\ \A i \in DOMAIN mailbox : i \in DOMAIN mailbox' /\ mailbox'[i] = mailbox[i]
        /\ \A i \in DOMAIN mailbox' : \/ i \in DOMAIN mailbox /\ mailbox'[i] = mailbox[i]
                                      \/ i = Len(mailbox) + 1 /\ mailbox'[i] = m
        /\ Len(mailbox) + 1 \in DOMAIN mailbox' /\ mailbox'[Len(mailbox) + 1] = m
    BY <2>1, PostFacts
  <2>3. TaskInv'
    <3>1. \A i \in DOMAIN mailbox' : mailbox'[i].tag \in DOMAIN Reports => mailbox'[i].n \in 1..gen'
      BY <1>1, <1>2, <1>3, <1>5, <2>2
    <3>2. \A i \in DOMAIN mailbox', u \in tasks' : IsEnd(mailbox'[i]) => mailbox'[i].n # u.gen
      BY <1>3, <1>5, <1>6, <2>2
    <3>3. \A i, j \in DOMAIN mailbox' :
            IsEnd(mailbox'[i]) /\ IsEnd(mailbox'[j]) /\ mailbox'[i].n = mailbox'[j].n => i = j
      BY <1>3, <1>5, <2>2
    <3>4. \A u, v \in tasks' : u.gen = v.gen => u = v
      BY <1>5, <1>6
    <3> QED BY <3>1, <3>2, <3>3, <3>4 DEF TaskInv, IsEnd
  <2>4. JobInv'
    <3> SUFFICES ASSUME phase = "running" PROVE JobInv'
      BY <1>1 DEF JobInv
    <3>1. /\ \A u \in tasks : /\ u.gen = st.gen => st.kind = JobOf[u.kind]
                              /\ u.kind # "stream" \/ ~u.told => u.gen = st.gen
          /\ \A i \in DOMAIN mailbox :
               mailbox[i].tag \in DOMAIN Reports /\ mailbox[i].n = st.gen => st.kind = Reports[mailbox[i].tag]
          /\ HasChild => \/ \E u \in tasks : u.gen = st.gen
                         \/ \E i \in DOMAIN mailbox : IsEnd(mailbox[i]) /\ mailbox[i].n = st.gen
      BY DEF Core, JobInv
    <3>2. \A u \in tasks' : /\ u.gen = st.gen => st.kind = JobOf[u.kind]
                            /\ u.kind # "stream" \/ ~u.told => u.gen = st.gen
      BY <3>1, <1>6
    <3>3. \A i \in DOMAIN mailbox' :
             mailbox'[i].tag \in DOMAIN Reports /\ mailbox'[i].n = st.gen => st.kind = Reports[mailbox'[i].tag]
      BY <3>1, <2>2, <1>3
    <3>4. HasChild => \/ \E u \in tasks' : u.gen = st.gen
                      \/ \E i \in DOMAIN mailbox' : IsEnd(mailbox'[i]) /\ mailbox'[i].n = st.gen
      <4>1. CASE t.gen = st.gen
        BY <4>1, <2>2, <1>3, <1>4
      <4>2. CASE t.gen # st.gen
        BY <4>2, <3>1, <2>2, <1>1
      <4> QED BY <4>1, <4>2
    <3> QED BY <3>2, <3>3, <3>4, <1>1 DEF JobInv, HasChild, IsEnd
  <2>5. LeaseInv'
    <3>1. \A u \in tasks' : u.kind = "prep" /\ u.step = "commit" => leased'
      BY <1>6 DEF Core, LeaseInv
    <3>2. phase = "running" =>
            \A i \in DOMAIN mailbox' :
               mailbox'[i].tag = "prepared" /\ mailbox'[i].n = st'.gen /\ mailbox'[i].out = "ok" => live' /\ active'
      BY <1>1, <1>3, <2>2 DEF Core, LeaseInv
    <3>3. phase = "running" => /\ st.kind = "streaming" => live /\ active
                               /\ st.kind = "preparing" /\ st.origin = "continue" => active
      BY DEF Core, LeaseInv
    <3> QED BY <1>1, <3>1, <3>2, <3>3 DEF LeaseInv
  <2>6. \A i \in DOMAIN mailbox' : mailbox'[i].tag = "stop" => closed
    BY <1>4, <2>2 DEF Core, PhaseInv
  <2>7. tasks' \subseteq TaskType
    BY <1>1, <1>2
  <2> QED BY <1>6, <1>8, <2>2, <2>3, <2>4, <2>5, <2>6, <2>7, TaskStepKeeps
<1> QED BY <1>7, <1>8

LEMMA BecomesCore ==
    ASSUME Core, TaskFrame, NEW t \in tasks, NEW u \in TaskType, Becomes(t, u),
           u.kind = t.kind, u.gen = t.gen, u.told = t.told,
           \/ mailbox' = mailbox
           \/ t.kind = "stream" /\ ~t.told /\ Post(Message("event", t.gen, "error")),
           active' = active, live' = live, leased => leased',
           u.kind = "prep" /\ u.step = "commit" => leased',
           FlagsTyped', DataTyped'
    PROVE  Core'
<1>1. /\ UNCHANGED <<phase, closed, st, gen, wait, deferred, stopping>>
      /\ tasks' = (tasks \ {t}) \cup {u}
  BY DEF TaskFrame, Becomes
<1>2. t \in TaskType /\ t.gen \in 1..gen /\ gen \in Nat /\ tasks \subseteq TaskType
  BY DEF Core, TypeOK
<1>3. PICK m \in MessageType : /\ m = Message("event", t.gen, "error") /\ m.tag = "event"
                               /\ m.n = t.gen /\ m.out = "error"
  <2>1. t.gen \in Nat
    BY <1>2
  <2> QED BY <2>1, MessageFacts
<1>4. ~IsEnd(m) /\ m.tag # "stop" /\ Reports["event"] = "streaming" /\ JobOf["stream"] = "streaming"
  BY <1>3 DEF IsEnd, Reports, JobOf
<1>5. mailbox' = mailbox \/ (t.kind = "stream" /\ ~t.told /\ phase = "running" /\ Post(m))
  <2>1. phase # "running" => \A v \in tasks : v.told
    BY DEF Core, PhaseInv
  <2> QED BY <1>3, <2>1
<1>6. /\ mailbox' \in Seq(MessageType)
      /\ \A i \in DOMAIN mailbox : i \in DOMAIN mailbox' /\ mailbox'[i] = mailbox[i]
      /\ \A i \in DOMAIN mailbox' : \/ i \in DOMAIN mailbox /\ mailbox'[i] = mailbox[i]
                                    \/ mailbox'[i] = m /\ t.kind = "stream" /\ ~t.told
  <2>1. CASE mailbox' = mailbox
    BY <2>1 DEF Core, TypeOK
  <2>2. CASE t.kind = "stream" /\ ~t.told /\ Post(m)
    BY <2>2, PostFacts
  <2> QED BY <1>5, <2>1, <2>2
<1>7. /\ \A i \in DOMAIN mailbox : mailbox[i].tag \in DOMAIN Reports => mailbox[i].n \in 1..gen
      /\ \A i \in DOMAIN mailbox, v \in tasks : IsEnd(mailbox[i]) => mailbox[i].n # v.gen
      /\ \A i, j \in DOMAIN mailbox :
          IsEnd(mailbox[i]) /\ IsEnd(mailbox[j]) /\ mailbox[i].n = mailbox[j].n => i = j
      /\ \A v, w \in tasks : v.gen = w.gen => v = w
  BY DEF Core, TaskInv
<1>8. TaskInv'
  <2>1. \A i \in DOMAIN mailbox' : mailbox'[i].tag \in DOMAIN Reports => mailbox'[i].n \in 1..gen'
    BY <1>1, <1>2, <1>3, <1>6, <1>7
  <2>2. \A i \in DOMAIN mailbox', v \in tasks' : IsEnd(mailbox'[i]) => mailbox'[i].n # v.gen
    BY <1>1, <1>4, <1>6, <1>7
  <2>3. \A i, j \in DOMAIN mailbox' :
          IsEnd(mailbox'[i]) /\ IsEnd(mailbox'[j]) /\ mailbox'[i].n = mailbox'[j].n => i = j
    BY <1>4, <1>6, <1>7
  <2>4. \A v, w \in tasks' : v.gen = w.gen => v = w
    BY <1>1, <1>7
  <2> QED BY <2>1, <2>2, <2>3, <2>4 DEF TaskInv, IsEnd
<1>9. JobInv'
  <2> SUFFICES ASSUME phase = "running" PROVE JobInv'
    BY <1>1 DEF JobInv
  <2>1. /\ \A v \in tasks : /\ v.gen = st.gen => st.kind = JobOf[v.kind]
                            /\ v.kind # "stream" \/ ~v.told => v.gen = st.gen
        /\ \A i \in DOMAIN mailbox :
             mailbox[i].tag \in DOMAIN Reports /\ mailbox[i].n = st.gen => st.kind = Reports[mailbox[i].tag]
        /\ HasChild => \/ \E v \in tasks : v.gen = st.gen
                       \/ \E i \in DOMAIN mailbox : IsEnd(mailbox[i]) /\ mailbox[i].n = st.gen
    BY DEF Core, JobInv
  <2>2. \A v \in tasks' : /\ v.gen = st.gen => st.kind = JobOf[v.kind]
                          /\ v.kind # "stream" \/ ~v.told => v.gen = st.gen
    BY <2>1, <1>1
  <2>3. \A i \in DOMAIN mailbox' :
           mailbox'[i].tag \in DOMAIN Reports /\ mailbox'[i].n = st.gen => st.kind = Reports[mailbox'[i].tag]
    BY <2>1, <1>3, <1>4, <1>6
  <2>4. HasChild => \/ \E v \in tasks' : v.gen = st.gen
                    \/ \E i \in DOMAIN mailbox' : IsEnd(mailbox'[i]) /\ mailbox'[i].n = st.gen
    BY <2>1, <1>1, <1>6
  <2> QED BY <2>2, <2>3, <2>4, <1>1 DEF JobInv, HasChild, IsEnd
<1>10. LeaseInv'
  <2>1. active => leased
    BY DEF Core, LeaseInv
  <2>2. \A v \in tasks' : v.kind = "prep" /\ v.step = "commit" => leased'
    BY <1>1 DEF Core, LeaseInv
  <2>3. phase = "running" =>
          /\ st.kind = "streaming" => live /\ active
          /\ st.kind = "preparing" /\ st.origin = "continue" => active
          /\ \A i \in DOMAIN mailbox :
               mailbox[i].tag = "prepared" /\ mailbox[i].n = st.gen /\ mailbox[i].out = "ok" => live /\ active
    BY DEF Core, LeaseInv
  <2>4. phase = "running" =>
          \A i \in DOMAIN mailbox' :
             mailbox'[i].tag = "prepared" /\ mailbox'[i].n = st.gen /\ mailbox'[i].out = "ok" => live /\ active
    BY <1>3, <1>6, <2>3
  <2> QED BY <1>1, <2>1, <2>2, <2>3, <2>4 DEF LeaseInv
<1>11. \A i \in DOMAIN mailbox' : mailbox'[i].tag = "stop" => closed
  BY <1>4, <1>6 DEF Core, PhaseInv
<1>12. /\ tasks' \subseteq TaskType
       /\ \A v \in tasks' : \E w \in tasks : v.kind = w.kind /\ v.gen = w.gen /\ (w.told => v.told)
  BY <1>1, <1>2
<1>13. phase = "none" => mailbox' = mailbox
  BY <1>5
<1> QED BY <1>6, <1>8, <1>9, <1>10, <1>11, <1>12, <1>13, TaskStepKeeps

LEMMA OnlyPreparation ==
    ASSUME Core, NEW t \in tasks, NEW u \in tasks, t.kind = "prep", u.kind = "prep"
    PROVE  u = t
BY DEF Core, PhaseInv, JobInv, TaskInv

LEMMA TaskOf ==
    ASSUME Core, NEW t \in tasks
    PROVE  t \in TaskType /\ t.gen \in Nat
BY DEF Core, TypeOK, TaskType

LEMMA PrepareOwnsCore ==
    ASSUME Core, NEW t \in tasks, PrepareOwns(t)
    PROVE  Core'
<1> DEFINE step == IF leased THEN "commit" ELSE "claim"
           u == [t EXCEPT !.step = step]
<1>1. /\ t.kind = "prep" /\ Becomes(t, u) /\ TaskFrame /\ mailbox' = mailbox
      /\ UNCHANGED <<closed, stopping, active, live, leased, queue, history, deleted, asked, answer,
                     scripts, faults, discarded, failed, refused, renumbered>>
  BY DEF PrepareOwns, TaskFrame, registry, actor, agent, store, clients, ghosts
<1>2. step \in {"commit", "claim"} /\ (step = "commit" => leased)
  OBVIOUS
<1> HIDE DEF step
<1>3. /\ u \in TaskType /\ u.kind = t.kind /\ u.gen = t.gen /\ u.told = t.told /\ u.step = step
  BY <1>2, TaskOf DEF TaskType
<1> HIDE DEF u
<1>4. FlagsTyped' /\ DataTyped'
  BY <1>1, SameFlags, SameData, AnswerFacts
<1> QED BY <1>1, <1>2, <1>3, <1>4, BecomesCore

LEMMA PrepareClaimCore ==
    ASSUME Core, NEW t \in tasks, PrepareClaim(t)
    PROVE  Core'
<1> DEFINE u == [t EXCEPT !.step = "commit", !.newly = TRUE]
<1>1. /\ t.kind = "prep" /\ TaskFrame /\ leased' = TRUE /\ refused' = (refused \/ leased)
      /\ IF leased THEN Report(t, "prepared", "error") ELSE Becomes(t, u) /\ UNCHANGED mailbox
      /\ UNCHANGED <<closed, stopping, active, live, queue, history, deleted, asked, answer,
                     scripts, faults, discarded, failed, renumbered>>
  BY DEF PrepareClaim, TaskFrame, registry, actor, store, clients
<1>2. /\ u \in TaskType /\ u.kind = t.kind /\ u.gen = t.gen /\ u.told = t.told
  BY TaskOf DEF TaskType
<1> HIDE DEF u
<1>3. refused' \in BOOLEAN
  BY <1>1, Zenon
<1>4. FlagsTyped'
  BY <1>1, <1>3, FlagFacts, Zenon DEF FlagsTyped, Core
<1>5. DataTyped'
  BY <1>1, SameData, AnswerFacts
<1>6. leased \in BOOLEAN
  BY FlagFacts DEF Core
<1>7. CASE leased
  <2>1. Reports["prepared"] = JobOf[t.kind]
    BY <1>1 DEF Reports, JobOf
  <2>2. Report(t, "prepared", "error")
    BY <1>1, <1>7
  <2>3. \A v \in tasks : v # t /\ v.kind = "prep" => leased = leased'
    BY <1>1, OnlyPreparation
  <2> QED BY <1>1, <1>4, <1>5, <2>1, <2>2, <2>3, ReportCore
<1>8. CASE ~leased
  BY <1>1, <1>2, <1>4, <1>5, <1>8, BecomesCore
<1> QED BY <1>7, <1>8

LEMMA PrepareCommitCore ==
    ASSUME Core, NEW t \in tasks, PrepareCommit(t)
    PROVE  Core'
<1>1. /\ t.kind = "prep" /\ t.step = "commit" /\ TaskFrame /\ Report(t, "prepared", "ok")
      /\ active' = TRUE /\ live' = TRUE
      /\ history' = history \o t.take /\ queue' = Consumed(t.through)
      /\ UNCHANGED <<closed, stopping, leased, deleted, asked, answer,
                     scripts, faults, discarded, failed, refused, renumbered>>
  BY DEF PrepareCommit, TaskFrame, registry, actor, clients, ghosts
<1>2. leased
  BY <1>1 DEF Core, LeaseInv
<1>3. t.take \in Seq(Requests) /\ t.through \in Int
  BY TaskOf DEF TaskType
<1>4. history' \in Seq(Requests) /\ queue' \in Seq(EntryType)
  BY <1>1, <1>3, ConcatProperties, ConsumedTyped DEF Core, TypeOK
<1>5. DataTyped'
  BY <1>1, <1>4 DEF DataTyped, Core, TypeOK
<1>6. FlagsTyped'
  BY <1>1, FlagFacts, Zenon DEF FlagsTyped, Core
<1>7. Reports["prepared"] = JobOf[t.kind]
  BY <1>1 DEF Reports, JobOf
<1>8. (active => active') /\ (live => live') /\ (active' => leased')
  BY <1>1, <1>2
<1>9. \A v \in tasks : v # t /\ v.kind = "prep" => leased = leased'
  BY <1>1
<1> QED BY <1>1, <1>5, <1>6, <1>7, <1>8, <1>9, ReportCore

LEMMA PrepareFailCore ==
    ASSUME Core, NEW t \in tasks, PrepareFail(t)
    PROVE  Core'
<1>1. /\ t.kind = "prep" /\ TaskFrame /\ Report(t, "prepared", "error")
      /\ failed' = TRUE /\ leased' = (leased /\ ~(t.newly /\ ~active /\ ~live))
      /\ UNCHANGED <<closed, stopping, active, live, queue, history, deleted, asked, answer,
                     scripts, faults, discarded, refused, renumbered>>
  BY DEF PrepareFail, TaskFrame, registry, actor, store, clients
<1>2. leased' \in BOOLEAN
  BY <1>1, Zenon
<1>3. FlagsTyped'
  BY <1>1, <1>2, FlagFacts, Zenon DEF FlagsTyped, Core
<1>4. DataTyped'
  BY <1>1, SameData, AnswerFacts
<1>5. Reports["prepared"] = JobOf[t.kind]
  BY <1>1 DEF Reports, JobOf
<1>6. (active => active') /\ (live => live') /\ (active' => leased')
  BY <1>1 DEF Core, LeaseInv
<1>7. \A v \in tasks : v # t /\ v.kind = "prep" => leased = leased'
  BY <1>1, OnlyPreparation
<1> QED BY <1>1, <1>3, <1>4, <1>5, <1>6, <1>7, ReportCore

LEMMA StreamEndCore ==
    ASSUME Core, NEW t \in tasks, StreamEnd(t)
    PROVE  Core'
<1>1. /\ t.kind = "stream" /\ TaskFrame
      /\ scripts' \in 0..MaxScripts
      /\ UNCHANGED <<closed, stopping, active, live, leased, queue, history, deleted, asked, answer,
                     faults, discarded, failed, refused, renumbered>>
  BY SessionActorAssumption DEF StreamEnd, TaskFrame, registry, actor, agent, store, clients, ghosts, Core, TypeOK
<1>2. PICK out \in {"stopped", "text", "error", "result", "prompt", "run"} : Report(t, "streamEnded", out)
  BY DEF StreamEnd
<1>3. FlagsTyped'
  BY <1>1, SameFlags
<1>4. DataTyped'
  BY <1>1 DEF Core, TypeOK, DataTyped
<1>5. Reports["streamEnded"] = JobOf[t.kind]
  BY <1>1 DEF Reports, JobOf
<1>6. (active => active') /\ (live => live') /\ (active' => leased')
  BY <1>1 DEF Core, LeaseInv
<1>7. \A v \in tasks : v # t /\ v.kind = "prep" => leased = leased'
  BY <1>1
<1> QED BY <1>1, <1>2, <1>3, <1>4, <1>5, <1>6, <1>7, ReportCore

LEMMA ScriptEndCore ==
    ASSUME Core, NEW t \in tasks, ScriptEnd(t)
    PROVE  Core'
<1>1. /\ t.kind = "script" /\ TaskFrame
      /\ UNCHANGED <<closed, stopping, active, live, leased, queue, history, deleted, asked, answer,
                     scripts, faults, discarded, failed, refused, renumbered>>
  BY DEF ScriptEnd, TaskFrame, registry, actor, agent, store, clients, ghosts
<1>2. PICK out \in {"ok", "error"} : Report(t, "scriptEnded", out)
  BY DEF ScriptEnd
<1>3. FlagsTyped' /\ DataTyped'
  BY <1>1, SameFlags, SameData, AnswerFacts
<1>4. Reports["scriptEnded"] = JobOf[t.kind]
  BY <1>1 DEF Reports, JobOf
<1>5. (active => active') /\ (live => live') /\ (active' => leased')
  BY <1>1 DEF Core, LeaseInv
<1>6. \A v \in tasks : v # t /\ v.kind = "prep" => leased = leased'
  BY <1>1
<1> QED BY <1>1, <1>2, <1>3, <1>4, <1>5, <1>6, ReportCore

LEMMA StreamEventCore ==
    ASSUME Core, NEW t \in tasks, StreamEvent(t)
    PROVE  Core'
<1> DEFINE u == [t EXCEPT !.step = "failing"]
<1>1. /\ t.kind = "stream" /\ ~t.told /\ Fault /\ Becomes(t, u) /\ TaskFrame
      /\ Post(Message("event", t.gen, "error"))
      /\ UNCHANGED <<closed, stopping, active, live, leased, queue, history, deleted, asked, answer,
                     scripts, discarded, failed, refused, renumbered>>
  BY DEF StreamEvent, TaskFrame, registry, actor, agent, store, clients, ghosts
<1>2. /\ u \in TaskType /\ u.kind = t.kind /\ u.gen = t.gen /\ u.told = t.told
  BY TaskOf DEF TaskType
<1> HIDE DEF u
<1>3. FlagsTyped' /\ DataTyped'
  BY <1>1, SameFlags, SameData, AnswerFacts, FaultTyped DEF Core
<1>4. u.kind # "prep"
  BY <1>1, <1>2
<1> QED BY <1>1, <1>2, <1>3, <1>4, BecomesCore

-----------------------------------------------------------------------------
LEMMA InitCore == Init => Core
<1> SUFFICES ASSUME Init PROVE Core
  OBVIOUS
<1>1. /\ <<>> \in Seq(MessageType) /\ <<>> \in Seq(Requests) /\ <<>> \in Seq(EntryType)
      /\ DOMAIN <<>> = {}
  BY EmptySeq
<1>2. FlagsTyped
  BY Zenon DEF FlagsTyped, Init
<1>3. TypeOK
  BY <1>1, <1>2, IdleFacts, NoWaitFacts, SessionActorAssumption DEF Init, TypeOK, FlagsTyped
<1>4. StateInv /\ WaitInv /\ PhaseInv /\ TaskInv /\ JobInv /\ LeaseInv
  BY <1>1, IdleFacts, NoWaitFacts
     DEF Init, StateInv, WaitInv, PhaseInv, TaskInv, JobInv, LeaseInv, HasChild
<1> QED BY <1>3, <1>4 DEF Core

LEMMA StutterCore ==
    ASSUME Core, UNCHANGED vars PROVE Core'
<1>1. UNCHANGED <<phase, closed, mailbox, st, gen, wait, deferred, stopping, tasks, active, live, leased,
                  queue, history, deleted, asked, answer, scripts, faults, discarded, failed, refused,
                  renumbered>>
  BY DEF vars, registry, actor, agent, store, clients, ghosts
<1> QED BY <1>1 DEF Core, TypeOK, StateInv, WaitInv, PhaseInv, TaskInv, JobInv, LeaseInv, HasChild, IsEnd

LEMMA NextCore == Core /\ [Next]_vars => Core'
<1> SUFFICES ASSUME Core, [Next]_vars PROVE Core'
  OBVIOUS
<1>1. CASE Ask
  BY <1>1, AskCore
<1>2. CASE StopAll
  BY <1>2, StopAllCore
<1>3. CASE Handler
  BY <1>3, SendCore, SendRejectedCore, CancelCore, ApproveCore, DenyCore, DeleteCore, SendClaimCore,
     CancelJoinedCore, DeleteJoinedCore, DeleteFailedCore, DeletePutOffCore, StopCore, ExitCore,
     LeaveCore, PreparedStartsCore, PreparedStoppingCore, PreparedFailedCore, StreamEventFailedCore,
     StreamEndedCore, ScriptEndedCore, StaleCore DEF Handler
<1>4. CASE TaskStep
  BY <1>4, PrepareOwnsCore, PrepareClaimCore, PrepareCommitCore, PrepareFailCore, StreamEndCore,
     StreamEventCore, ScriptEndCore DEF TaskStep
<1>5. CASE Over \/ UNCHANGED vars
  BY <1>5, StutterCore DEF Over
<1> QED BY <1>1, <1>2, <1>3, <1>4, <1>5 DEF Next

(* The structure of the actor holds whatever its clients, tasks and the   *)
(* database do: SessionActor::run, TurnState and the registry.             *)
THEOREM CoreCorrect == Spec => []Core
BY InitCore, NextCore, PTL DEF Spec

-----------------------------------------------------------------------------
(* No responder is dropped.                                                *)

LEMMA NotDropped ==
    ASSUME Core, NoRequestDropped, asked' = asked, phase # "none" => phase' # "none",
           \A r \in Requests : answer'[r] = "none" => answer[r] = "none",
           \A r \in Requests : Held(r) /\ answer'[r] = "none" => Held(r)'
    PROVE  NoRequestDropped'
BY DEF NoRequestDropped

LEMMA RequestRange ==
    ASSUME NEW r \in Requests PROVE r # 0 /\ r \in Nat
BY SessionActorAssumption DEF Requests

LEMMA AnsweredIs ==
    ASSUME NEW rs, NEW a, a # "none", answer' = Answered(rs, a)
    PROVE  \A r \in Requests : /\ r \in rs => answer'[r] # "none"
                               /\ answer'[r] = "none" => answer[r] = "none"
BY DEF Answered

LEMMA ReceivedRequest ==
    ASSUME Core, mailbox # <<>>, mailbox' = Tail(mailbox), NEW r, r \in RequestsIn(mailbox)
    PROVE  r \in RequestsIn(mailbox') \/ (Head(mailbox).tag = "request" /\ r = Head(mailbox).n)
<1>1. PICK i \in DOMAIN mailbox : mailbox[i].tag = "request" /\ mailbox[i].n = r
  BY DEF RequestsIn
<1>2. /\ Head(mailbox) = mailbox[1]
      /\ \A j \in DOMAIN mailbox : j # 1 => j - 1 \in DOMAIN Tail(mailbox) /\ Tail(mailbox)[j - 1] = mailbox[j]
  BY TailOf DEF Core, TypeOK
<1>3. CASE i = 1
  BY <1>1, <1>2, <1>3
<1>4. CASE i # 1
  <2>1. i - 1 \in DOMAIN mailbox' /\ mailbox'[i - 1].tag = "request" /\ mailbox'[i - 1].n = r
    BY <1>1, <1>2, <1>4
  <2> QED BY <2>1 DEF RequestsIn
<1> QED BY <1>3, <1>4

LEMMA PostedRequest ==
    ASSUME Core, NEW m \in MessageType, Post(m)
    PROVE  /\ \A r : r \in RequestsIn(mailbox) => r \in RequestsIn(mailbox')
           /\ m.tag = "request" => m.n \in RequestsIn(mailbox')
<1>1. /\ \A i \in DOMAIN mailbox : i \in DOMAIN mailbox' /\ mailbox'[i] = mailbox[i]
      /\ Len(mailbox) + 1 \in DOMAIN mailbox' /\ mailbox'[Len(mailbox) + 1] = m
  BY PostFacts
<1>2. ASSUME NEW r, r \in RequestsIn(mailbox) PROVE r \in RequestsIn(mailbox')
  <2>1. PICK i \in DOMAIN mailbox : mailbox[i].tag = "request" /\ mailbox[i].n = r
    BY <1>2 DEF RequestsIn
  <2>2. i \in DOMAIN mailbox' /\ mailbox'[i].tag = "request" /\ mailbox'[i].n = r
    BY <1>1, <2>1
  <2> QED BY <2>2 DEF RequestsIn
<1>3. ASSUME m.tag = "request" PROVE m.n \in RequestsIn(mailbox')
  BY <1>1, <1>3 DEF RequestsIn
<1> QED BY <1>2, <1>3

(* Nobody is waited for by an actor that rests, streams or asks. *)
LEMMA NobodyWaits ==
    ASSUME Core, st.kind \notin {"preparing", "running"}, NEW r \in Requests
    PROVE  r # st.req /\ r \notin st.waiters
BY RequestRange DEF Core, StateInv

LEMMA NobodyWaitsHere ==
    ASSUME wait = NoWait, NEW r \in Requests
    PROVE  r # wait.req /\ r \notin wait.waiters
BY RequestRange, NoWaitFacts

(* A handler that receives a message. *)
LEMMA ReceivingKeeps ==
    ASSUME Core, NoRequestDropped, phase' = "running", mailbox # <<>>, mailbox' = Tail(mailbox),
           wait = NoWait, asked' = asked,
           \A r \in Requests : answer'[r] = "none" => answer[r] = "none",
           \A r \in Requests : Head(mailbox).tag = "request" /\ r = Head(mailbox).n =>
               answer'[r] # "none" \/ Held(r)',
           \A r \in Requests : r = st.req \/ r \in st.waiters => answer'[r] # "none" \/ Held(r)',
           \A r \in Requests : r \in Range(deferred) => r \in Range(deferred')
    PROVE  NoRequestDropped'
<1>1. ASSUME NEW r \in Requests, Held(r), answer'[r] = "none"
      PROVE  Held(r)'
  <2>1. CASE r \in RequestsIn(mailbox)
    <3>1. CASE r \in RequestsIn(mailbox')
      BY <3>1 DEF Held
    <3>2. CASE Head(mailbox).tag = "request" /\ r = Head(mailbox).n
      BY <1>1, <3>2
    <3> QED BY <2>1, <3>1, <3>2, ReceivedRequest
  <2>2. CASE r \in Range(deferred)
    BY <2>2 DEF Held
  <2>3. CASE r = st.req \/ r \in st.waiters
    BY <1>1, <2>3
  <2>4. r # wait.req /\ r \notin wait.waiters
    BY NobodyWaitsHere
  <2> QED BY <1>1, <2>1, <2>2, <2>3, <2>4 DEF Held
<1>2. phase' # "none"
  OBVIOUS
<1> QED BY <1>1, <1>2, NotDropped

(* The message is a request of r. *)
LEMMA AskedBy ==
    ASSUME Core, NEW r \in Requests, NEW kinds, Asked(r, kinds), UNCHANGED registry
    PROVE  /\ phase' = "running" /\ mailbox # <<>> /\ mailbox' = Tail(mailbox) /\ wait = NoWait
           /\ r = Head(mailbox).n
<1>1. wait = NoWait /\ phase = "running" /\ phase' = phase
  BY AskedFacts DEF registry
<1> QED BY <1>1 DEF Asked, Received, Ready

(* A handler that answers the request it receives and keeps the others. *)
LEMMA AnsweringKeeps ==
    ASSUME Core, NoRequestDropped, UNCHANGED <<registry, deferred, asked>>,
           NEW r \in Requests, NEW kinds, Asked(r, kinds),
           NEW a, a # "none", answer' = Answered({r}, a),
           \A s \in Requests : s = st.req \/ s \in st.waiters => s = st'.req \/ s \in st'.waiters
    PROVE  NoRequestDropped'
<1>1. /\ phase' = "running" /\ mailbox # <<>> /\ mailbox' = Tail(mailbox) /\ wait = NoWait
      /\ r = Head(mailbox).n
  BY AskedBy
<1>2. \A s \in Requests : /\ s = r => answer'[s] # "none"
                          /\ answer'[s] = "none" => answer[s] = "none"
  BY AnsweredIs
<1>3. \A s \in Requests : s = st.req \/ s \in st.waiters => Held(s)'
  BY DEF Held
<1> QED BY <1>1, <1>2, <1>3, ReceivingKeeps

(* A handler that starts from a job without waiters. *)
LEMMA ServingKeeps ==
    ASSUME Core, NoRequestDropped, UNCHANGED <<registry, deferred, asked>>,
           NEW tag, tag # "request", Received(tag), st.kind \notin {"preparing", "running"},
           answer' = answer
    PROVE  NoRequestDropped'
<1>1. phase' = "running" /\ mailbox # <<>> /\ mailbox' = Tail(mailbox) /\ wait = NoWait
      /\ Head(mailbox).tag # "request"
  BY ReceivedFacts DEF Received, Ready, registry
<1>2. \A s \in Requests : ~(s = st.req \/ s \in st.waiters)
  BY NobodyWaits
<1> QED BY <1>1, <1>2, ReceivingKeeps

-----------------------------------------------------------------------------
(* One lemma for every handler: it drops no responder.                     *)

LEMMA SendRejectedHeld ==
    ASSUME Core, NoRequestDropped, NEW r \in Requests, SendRejected(r)
    PROVE  NoRequestDropped'
<1>1. UNCHANGED <<registry, deferred, asked, st>> /\ Asked(r, {"send"}) /\ answer' = Answered({r}, "error")
  BY DEF SendRejected, actor
<1> QED BY <1>1, AnsweringKeeps

LEMMA ApproveHeld ==
    ASSUME Core, NoRequestDropped, NEW r \in Requests, Approve(r)
    PROVE  NoRequestDropped'
<1>1. /\ UNCHANGED <<registry, deferred, asked>> /\ Asked(r, {"approve"})
      /\ answer' = Answered({r}, "ok") \/ answer' = Answered({r}, "error")
      /\ st.kind = "approval" \/ st' = st
  BY DEF Approve
<1>2. \A s \in Requests : s = st.req \/ s \in st.waiters => s = st'.req \/ s \in st'.waiters
  BY <1>1, NobodyWaits
<1> QED BY <1>1, <1>2, AnsweringKeeps

LEMMA DenyHeld ==
    ASSUME Core, NoRequestDropped, NEW r \in Requests, Deny(r)
    PROVE  NoRequestDropped'
<1>1. /\ UNCHANGED <<registry, deferred, asked>> /\ Asked(r, {"deny"})
      /\ answer' = Answered({r}, "ok") \/ answer' = Answered({r}, "error")
      /\ st.kind = "approval" \/ st' = st
  BY DEF Deny
<1>2. \A s \in Requests : s = st.req \/ s \in st.waiters => s = st'.req \/ s \in st'.waiters
  BY <1>1, NobodyWaits
<1> QED BY <1>1, <1>2, AnsweringKeeps

LEMMA SendHeld ==
    ASSUME Core, NoRequestDropped, NEW r \in Requests, Send(r)
    PROVE  NoRequestDropped'
<1>1. /\ UNCHANGED <<registry, deferred, asked>> /\ Asked(r, {"send"})
      /\ IF leased
         THEN Granted(r, SendKind) /\ UNCHANGED wait
         ELSE /\ wait' = Claiming(SendKind, r)
              /\ UNCHANGED <<st, gen, tasks, queue, answer, faults, renumbered>>
  BY DEF Send
<1>2. /\ phase' = "running" /\ mailbox # <<>> /\ mailbox' = Tail(mailbox) /\ wait = NoWait
      /\ r = Head(mailbox).n
  BY <1>1, AskedBy
<1>3. PICK next \in {"busy", "queue", "send"} : next = SendKind /\ (next # "busy" => st = Idle)
  BY SendKindFacts
<1>4. next # "busy" => \A s \in Requests : ~(s = st.req \/ s \in st.waiters)
  BY <1>3, IdleFacts, NobodyWaits
<1>5. CASE ~leased
  <2>1. wait' = Claiming(next, r) /\ UNCHANGED <<st, answer>>
    BY <1>1, <1>3, <1>5
  <2>2. wait'.req = r
    BY <2>1, ClaimingFacts
  <2>3. Held(r)' /\ \A s \in Requests : s = st.req \/ s \in st.waiters => Held(s)'
    BY <2>1, <2>2 DEF Held
  <2> QED BY <1>1, <1>2, <2>1, <2>3, ReceivingKeeps
<1>6. CASE leased
  <2>1. Granted(r, next)
    BY <1>1, <1>3, <1>6
  <2>2. CASE next = "send" /\ BeginPreparation(tasks, "send", r, <<>>, FALSE, FALSE) /\ answer' = answer
    <3>1. Leftover(tasks, gen)
      <4>1. phase = "running" /\ st.kind = "idle"
        BY <1>1, <1>2, <1>3, <2>2, IdleFacts DEF registry
      <4> QED BY <4>1, LeftoverAtRest DEF Same
    <3>2. <<>> \in Seq(EntryType)
      BY EmptySeq
    <3>3. st'.req = r
      <4>1. BeginPreparation(tasks, "send", r, <<>>, FALSE, FALSE)
        BY <2>2
      <4> QED BY <4>1, <3>1, <3>2, BeginPreparationBegins
    <3>4. Held(r)'
      BY <3>3 DEF Held
    <3>5. \A s \in Requests : ~(s = st.req \/ s \in st.waiters)
      BY <1>4, <2>2
    <3>6. /\ \A s \in Requests : answer'[s] = "none" => answer[s] = "none"
          /\ \A s \in Requests : s \in Range(deferred) => s \in Range(deferred')
      BY <1>1, <2>2
    <3> QED BY <1>1, <1>2, <3>4, <3>5, <3>6, ReceivingKeeps
  <2>3. CASE answer' = Answered({r}, "queued") /\ (next = "busy" => st' = st)
    BY <1>1, <1>4, <2>3, AnsweringKeeps
  <2>4. CASE answer' = Answered({r}, "error") /\ st' = st
    BY <1>1, <2>4, AnsweringKeeps
  <2> QED BY <2>1, <2>2, <2>3, <2>4 DEF Granted
<1> QED BY <1>5, <1>6

LEMMA SendClaimHeld ==
    ASSUME Core, NoRequestDropped, SendClaim
    PROVE  NoRequestDropped'
<1>1. /\ phase = "running" /\ wait.for = "claim" /\ wait' = NoWait
      /\ UNCHANGED <<phase, mailbox, deferred, asked>>
      /\ \/ answer' = Answered({wait.req}, "error") /\ st' = st
         \/ Granted(wait.req, wait.next)
  BY DEF SendClaim, registry
<1>2. /\ wait.req \in Requests /\ wait.waiters = {} /\ wait.next \in {"busy", "queue", "send"}
      /\ (wait.next # "busy" => st = Idle)
  BY <1>1 DEF Core, WaitInv
<1>3. wait.next # "busy" => \A s \in Requests : ~(s = st.req \/ s \in st.waiters)
  BY <1>2, IdleFacts, NobodyWaits
<1>4. ASSUME NEW a, a # "none", answer' = Answered({wait.req}, a), wait.next = "busy" => st' = st
      PROVE  NoRequestDropped'
  <2>1. \A s \in Requests : /\ s = wait.req => answer'[s] # "none"
                            /\ answer'[s] = "none" => answer[s] = "none"
    BY <1>4, AnsweredIs
  <2>2. \A s \in Requests : Held(s) /\ answer'[s] = "none" => Held(s)'
    BY <1>1, <1>2, <1>3, <1>4, <2>1 DEF Held
  <2> QED BY <1>1, <2>1, <2>2, NotDropped
<1>5. CASE answer' = Answered({wait.req}, "error") /\ st' = st
  BY <1>4, <1>5
<1>6. CASE answer' = Answered({wait.req}, "queued") /\ (wait.next = "busy" => st' = st)
  BY <1>4, <1>6
<1>7. CASE /\ wait.next = "send" /\ answer' = answer
           /\ BeginPreparation(tasks, "send", wait.req, <<>>, FALSE, FALSE)
  <2>1. Leftover(tasks, gen)
    BY <1>1, <1>2, <1>7, IdleFacts, LeftoverAtRest DEF Same
  <2>2. <<>> \in Seq(EntryType)
    BY EmptySeq
  <2>3. st'.req = wait.req
    BY <1>2, <1>7, <2>1, <2>2, BeginPreparationBegins
  <2>4. \A s \in Requests : Held(s) => Held(s)'
    BY <1>1, <1>2, <1>3, <1>7, <2>3 DEF Held
  <2> QED BY <1>1, <1>7, <2>4, NotDropped
<1> QED BY <1>1, <1>5, <1>6, <1>7 DEF Granted

LEMMA CancelHeld ==
    ASSUME Core, NoRequestDropped, NEW r \in Requests, Cancel(r)
    PROVE  NoRequestDropped'
<1>1. UNCHANGED <<registry, deferred, asked>> /\ Asked(r, {"cancelStream", "cancelTurn"})
  BY DEF Cancel
<1>2. /\ phase' = "running" /\ mailbox # <<>> /\ mailbox' = Tail(mailbox) /\ wait = NoWait
      /\ r = Head(mailbox).n
  BY <1>1, AskedBy
<1>3. st \in JobType
  BY DEF Core, TypeOK
<1>4. CASE /\ answer' = Answered({r}, "ok") \/ answer' = Answered({r}, "error")
           /\ st.kind \in {"approval", "idle"}
  <2>1. \A s \in Requests : ~(s = st.req \/ s \in st.waiters)
    BY <1>4, NobodyWaits
  <2> QED BY <1>1, <1>4, <2>1, AnsweringKeeps
<1>5. CASE answer' = answer /\ st' = [st EXCEPT !.waiters = @ \cup {r}]
  <2>1. st'.req = st.req /\ st'.waiters = st.waiters \cup {r}
    BY <1>3, <1>5 DEF JobType
  <2>2. Held(r)' /\ \A s \in Requests : s = st.req \/ s \in st.waiters => Held(s)'
    BY <2>1 DEF Held
  <2> QED BY <1>1, <1>2, <1>5, <2>2, ReceivingKeeps
<1>6. CASE answer' = answer /\ st' = [st EXCEPT !.cancelled = TRUE, !.waiters = @ \cup {r}]
  <2>1. st'.req = st.req /\ st'.waiters = st.waiters \cup {r}
    BY <1>3, <1>6 DEF JobType
  <2>2. Held(r)' /\ \A s \in Requests : s = st.req \/ s \in st.waiters => Held(s)'
    BY <2>1 DEF Held
  <2> QED BY <1>1, <1>2, <1>6, <2>2, ReceivingKeeps
<1>7. CASE st.kind = "streaming" /\ wait' = Joining("cancel", {r}) /\ answer' = answer
  <2>1. wait'.waiters = {r}
    BY <1>7, JoiningFacts
  <2>2. Held(r)'
    BY <2>1 DEF Held
  <2>3. \A s \in Requests : ~(s = st.req \/ s \in st.waiters)
    BY <1>7, NobodyWaits
  <2> QED BY <1>1, <1>2, <1>7, <2>2, <2>3, ReceivingKeeps
<1>8. CASE st.kind = "streaming" /\ answer' = [s \in Requests |-> IF s \in {r} THEN "error" ELSE answer[s]]
  <2>1. answer' = Answered({r}, "error")
    BY <1>8 DEF Answered
  <2>2. \A s \in Requests : ~(s = st.req \/ s \in st.waiters)
    BY <1>8, NobodyWaits
  <2> QED BY <1>1, <2>1, <2>2, AnsweringKeeps
<1>9. \/ /\ answer' = Answered({r}, "ok") \/ answer' = Answered({r}, "error")
         /\ st.kind \in {"approval", "idle"}
      \/ answer' = answer /\ st' = [st EXCEPT !.waiters = @ \cup {r}]
      \/ answer' = answer /\ st' = [st EXCEPT !.cancelled = TRUE, !.waiters = @ \cup {r}]
      \/ st.kind = "streaming" /\ CancelStreamJob(tasks, st, {r}, answer)
  BY DEF Cancel
<1> QED BY <1>4, <1>5, <1>6, <1>7, <1>8, <1>9 DEF CancelStreamJob

LEMMA DeferredTail ==
    ASSUME Core, deferred # <<>>, NEW r, r \in Range(deferred)
    PROVE  r = Head(deferred) \/ r \in Range(Tail(deferred))
<1>1. PICK i \in DOMAIN deferred : deferred[i] = r
  BY DEF Range
<1>2. /\ Head(deferred) = deferred[1]
      /\ \A j \in DOMAIN deferred : j # 1 => j - 1 \in DOMAIN Tail(deferred) /\ Tail(deferred)[j - 1] = deferred[j]
  BY TailOf DEF Core, TypeOK
<1> QED BY <1>1, <1>2 DEF Range

LEMMA DeferredAppend ==
    ASSUME Core, NEW s \in Requests
    PROVE  /\ s \in Range(Append(deferred, s))
           /\ \A r : r \in Range(deferred) => r \in Range(Append(deferred, s))
<1>1. /\ Len(deferred) + 1 \in DOMAIN Append(deferred, s)
      /\ Append(deferred, s)[Len(deferred) + 1] = s
      /\ \A i \in DOMAIN deferred : i \in DOMAIN Append(deferred, s) /\ Append(deferred, s)[i] = deferred[i]
  BY AppendOf DEF Core, TypeOK
<1> QED BY <1>1 DEF Range

LEMMA DeleteHeld ==
    ASSUME Core, NoRequestDropped, NEW r \in Requests, Delete(r)
    PROVE  NoRequestDropped'
<1>1. UNCHANGED <<registry, asked>> /\ Asked(r, {"delete"})
  BY DEF Delete
<1>2. /\ phase' = "running" /\ mailbox # <<>> /\ mailbox' = Tail(mailbox) /\ wait = NoWait
      /\ r = Head(mailbox).n
  BY <1>1, AskedBy
<1>3. CASE deferred' = Append(deferred, r) /\ UNCHANGED <<st, answer>>
  <2>1. r \in Range(deferred') /\ \A s : s \in Range(deferred) => s \in Range(deferred')
    BY <1>3, DeferredAppend
  <2>2. Held(r)' /\ \A s \in Requests : s = st.req \/ s \in st.waiters => Held(s)'
    BY <1>3, <2>1 DEF Held
  <2> QED BY <1>1, <1>2, <1>3, <2>1, <2>2, ReceivingKeeps
<1>4. CASE deferred' = deferred /\ answer' = Answered({r}, "error") /\ st' = st
  BY <1>1, <1>4, AnsweringKeeps
<1>5. CASE /\ deferred' = deferred /\ answer' = answer /\ st.kind \in {"streaming", "idle"}
           /\ wait' = Joining("delete", {r})
  <2>1. wait'.waiters = {r}
    BY <1>5, JoiningFacts
  <2>2. Held(r)'
    BY <2>1 DEF Held
  <2>3. \A s \in Requests : ~(s = st.req \/ s \in st.waiters)
    BY <1>5, NobodyWaits
  <2> QED BY <1>1, <1>2, <1>5, <2>2, <2>3, ReceivingKeeps
<1> QED BY <1>3, <1>4, <1>5 DEF Delete, DeleteSession

LEMMA DeletePutOffHeld ==
    ASSUME Core, NoRequestDropped, DeletePutOff
    PROVE  NoRequestDropped'
<1>1. /\ UNCHANGED <<phase, mailbox, asked>> /\ Awake /\ deferred # <<>>
      /\ deferred' = Tail(deferred) /\ DeleteSession(Head(deferred))
  BY DEF DeletePutOff, PutOffDue, registry
<1>2. wait = NoWait
  BY <1>1 DEF Awake, Core, WaitInv
<1>3. PICK h \in Requests : h = Head(deferred)
  BY <1>1, TailOf DEF Core, TypeOK
<1>4. \A s : s \in Range(deferred) => s = h \/ s \in Range(deferred')
  BY <1>1, <1>3, DeferredTail
<1>5. \A s \in Requests : s # wait.req /\ s \notin wait.waiters
  BY <1>2, NobodyWaitsHere
<1>6. CASE answer' = Answered({h}, "error") /\ st' = st
  <2>1. \A s \in Requests : /\ s = h => answer'[s] # "none"
                            /\ answer'[s] = "none" => answer[s] = "none"
    BY <1>6, AnsweredIs
  <2>2. \A s \in Requests : Held(s) /\ answer'[s] = "none" => Held(s)'
    BY <1>1, <1>4, <1>5, <1>6, <2>1 DEF Held
  <2> QED BY <1>1, <2>1, <2>2, NotDropped
<1>7. CASE st.kind \in {"streaming", "idle"} /\ wait' = Joining("delete", {h}) /\ answer' = answer
  <2>1. wait'.waiters = {h}
    BY <1>7, JoiningFacts
  <2>2. \A s \in Requests : ~(s = st.req \/ s \in st.waiters)
    BY <1>7, NobodyWaits
  <2>3. \A s \in Requests : Held(s) => Held(s)'
    BY <1>1, <1>4, <1>5, <2>1, <2>2 DEF Held
  <2> QED BY <1>1, <1>7, <2>3, NotDropped
<1> QED BY <1>1, <1>3, <1>6, <1>7 DEF DeleteSession

(* The handler that waited for the session's tasks answers its waiters. *)
LEMMA JoinedHeld ==
    ASSUME Core, NoRequestDropped, NEW next, Joined(next), phase' # "none",
           UNCHANGED <<mailbox, asked>>,
           \A r \in Requests : answer'[r] = "none" => answer[r] = "none" /\ r \notin wait.waiters,
           \A r \in Requests : r \in Range(deferred) => r \in Range(deferred') \/ answer'[r] # "none"
    PROVE  NoRequestDropped'
<1>1. st.kind = "idle" /\ wait.req = 0
  BY JoinedFacts DEF Joined, Core, WaitInv
<1>2. \A r \in Requests : ~(r = st.req \/ r \in st.waiters) /\ r # wait.req
  BY <1>1, NobodyWaits, RequestRange
<1>3. \A r \in Requests : Held(r) /\ answer'[r] = "none" => Held(r)'
  BY <1>2 DEF Held
<1> QED BY <1>3, NotDropped

LEMMA JoinedHandlersHeld ==
    ASSUME Core, NoRequestDropped, CancelJoined \/ DeleteJoined \/ DeleteFailed
    PROVE  NoRequestDropped'
<1>1. CASE CancelJoined
  <2>1. /\ UNCHANGED <<mailbox, asked, deferred, phase>> /\ Joined("cancel")
        /\ answer' = Answered(wait.waiters, "ok")
    BY <1>1 DEF CancelJoined, registry
  <2>2. phase' # "none"
    BY <2>1 DEF Joined
  <2>3. \A r \in Requests : answer'[r] = "none" => answer[r] = "none" /\ r \notin wait.waiters
    BY <2>1, AnsweredIs
  <2> QED BY <2>1, <2>2, <2>3, JoinedHeld
<1>2. CASE DeleteFailed
  <2>1. /\ UNCHANGED <<mailbox, asked, deferred, phase>> /\ Joined("delete")
        /\ answer' = Answered(wait.waiters, "error")
    BY <1>2 DEF DeleteFailed, registry, store
  <2>2. phase' # "none"
    BY <2>1 DEF Joined
  <2>3. \A r \in Requests : answer'[r] = "none" => answer[r] = "none" /\ r \notin wait.waiters
    BY <2>1, AnsweredIs
  <2> QED BY <2>1, <2>2, <2>3, JoinedHeld
<1>3. CASE DeleteJoined
  <2>1. /\ UNCHANGED <<mailbox, asked>> /\ Joined("delete") /\ phase' = "exiting"
        /\ answer' = [r \in Requests |-> IF r \in wait.waiters THEN "ok"
                                         ELSE IF r \in Range(deferred) THEN "error" ELSE answer[r]]
    BY <1>3 DEF DeleteJoined
  <2>2. \A r \in Requests : /\ answer'[r] = "none" => answer[r] = "none" /\ r \notin wait.waiters
                            /\ r \in Range(deferred) => answer'[r] # "none"
    BY <2>1
  <2> QED BY <2>1, <2>2, JoinedHeld
<1> QED BY <1>1, <1>2, <1>3

LEMMA StopHeld ==
    ASSUME Core, NoRequestDropped, Stop
    PROVE  NoRequestDropped'
<1>1. /\ UNCHANGED <<registry, st, deferred, asked, answer>> /\ Received("stop")
  BY DEF Stop, clients
<1>2. /\ phase' = "running" /\ mailbox # <<>> /\ mailbox' = Tail(mailbox) /\ wait = NoWait
      /\ Head(mailbox).tag # "request"
  BY <1>1, ReceivedFacts DEF Received, Ready, registry
<1>3. \A s \in Requests : s = st.req \/ s \in st.waiters => Held(s)'
  BY <1>1 DEF Held
<1> QED BY <1>1, <1>2, <1>3, ReceivingKeeps

LEMMA StaleHeld ==
    ASSUME Core, NoRequestDropped, Stale
    PROVE  NoRequestDropped'
<1>1. /\ UNCHANGED <<registry, st, deferred, asked, answer>>
  BY DEF Stale, clients, actor
<1>2. PICK tag \in DOMAIN Reports : Received(tag)
  BY DEF Stale
<1>3. tag # "request"
  BY DEF Reports
<1>4. /\ phase' = "running" /\ mailbox # <<>> /\ mailbox' = Tail(mailbox) /\ wait = NoWait
      /\ Head(mailbox).tag # "request"
  BY <1>1, <1>2, <1>3, ReceivedFacts DEF Received, Ready, registry
<1>5. \A s \in Requests : s = st.req \/ s \in st.waiters => Held(s)'
  BY <1>1 DEF Held
<1> QED BY <1>1, <1>4, <1>5, ReceivingKeeps

LEMMA ReportHeld ==
    ASSUME Core, NoRequestDropped, UNCHANGED <<registry, deferred, asked>>,
           NEW tag \in DOMAIN Reports, NEW out, Reported(tag, out),
           \A r \in Requests : answer'[r] = "none" => answer[r] = "none",
           \A r \in Requests : r = st.req \/ r \in st.waiters => answer'[r] # "none" \/ Held(r)'
    PROVE  NoRequestDropped'
<1>1. tag # "request" /\ Received(tag)
  BY DEF Reports, Reported
<1>2. /\ phase' = "running" /\ mailbox # <<>> /\ mailbox' = Tail(mailbox) /\ wait = NoWait
      /\ Head(mailbox).tag # "request"
  BY <1>1, ReceivedFacts DEF Received, Ready, registry
<1> QED BY <1>1, <1>2, ReceivingKeeps

LEMMA PreparedStartsHeld ==
    ASSUME Core, NoRequestDropped, PreparedStarts
    PROVE  NoRequestDropped'
<1> DEFINE started == Answered({st.req}, "started")
           ts == tasks \cup {Task("stream", gen + 1)}
           job == Job("streaming", gen + 1)
<1>1. /\ UNCHANGED <<registry, deferred, asked>> /\ Reported("prepared", {"ok"})
      /\ IF st.cancelled
         THEN CancelStreamJob(ts, job, st.waiters, started)
         ELSE answer' = started
  BY DEF PreparedStarts
<1>2. "prepared" \in DOMAIN Reports /\ st.kind = "preparing"
  BY <1>1 DEF Reports, Reported, Current
<1>3. \A r \in Requests : /\ r = st.req => started[r] = "started"
                          /\ r # st.req => started[r] = answer[r]
  BY DEF Answered
<1>4. st.waiters \in SUBSET Requests
  BY DEF Core, TypeOK, JobType
<1>5. ~st.cancelled => st.waiters = {}
  BY <1>2 DEF Core, StateInv
<1>6. \/ answer' = started /\ (st.waiters = {} \/ wait' = Joining("cancel", st.waiters))
      \/ answer' = [r \in Requests |-> IF r \in st.waiters THEN "error" ELSE started[r]]
  <2>1. CASE st.cancelled
    BY <1>1, <2>1 DEF CancelStreamJob
  <2>2. CASE ~st.cancelled
    BY <1>1, <1>5, <2>2
  <2> QED BY <2>1, <2>2
<1> HIDE DEF started
<1>7. CASE answer' = started /\ wait' = Joining("cancel", st.waiters)
  <2>1. wait'.waiters = st.waiters
    BY <1>4, <1>7, JoiningFacts
  <2>2. \A r \in Requests : r \in st.waiters => Held(r)'
    BY <2>1 DEF Held
  <2> QED BY <1>1, <1>2, <1>3, <1>7, <2>2, ReportHeld
<1>8. CASE answer' = started /\ st.waiters = {}
  BY <1>1, <1>2, <1>3, <1>8, ReportHeld
<1>9. CASE answer' = [r \in Requests |-> IF r \in st.waiters THEN "error" ELSE started[r]]
  <2>1. \A r \in Requests : /\ answer'[r] = "none" => answer[r] = "none"
                            /\ r = st.req \/ r \in st.waiters => answer'[r] # "none"
    BY <1>3, <1>9
  <2> QED BY <1>1, <1>2, <2>1, ReportHeld
<1> QED BY <1>6, <1>7, <1>8, <1>9

LEMMA PreparedEndsHeld ==
    ASSUME Core, NoRequestDropped, PreparedStopping \/ PreparedFailed
    PROVE  NoRequestDropped'
<1>1. /\ UNCHANGED <<registry, deferred, asked>> /\ answer' = PreparationAnswered("error")
      /\ Reported("prepared", {"ok"}) \/ Reported("prepared", {"error"})
  BY DEF PreparedStopping, PreparedFailed, store
<1>2. "prepared" \in DOMAIN Reports
  BY DEF Reports
<1>3. \A r \in Requests : /\ answer'[r] = "none" => answer[r] = "none"
                          /\ r = st.req \/ r \in st.waiters => answer'[r] # "none"
  BY <1>1 DEF PreparationAnswered
<1> QED BY <1>1, <1>2, <1>3, ReportHeld

LEMMA StreamReportsHeld ==
    ASSUME Core, NoRequestDropped, StreamEventFailed \/ StreamEnded
    PROVE  NoRequestDropped'
<1>1. /\ UNCHANGED <<registry, deferred, asked, answer>>
      /\ \E tag \in {"event", "streamEnded"} : \E out : Reported(tag, out)
  BY DEF StreamEventFailed, StreamEnded, clients
<1>2. PICK tag \in {"event", "streamEnded"} : \E out : Reported(tag, out)
  BY <1>1
<1>3. tag \in DOMAIN Reports /\ st.kind = "streaming"
  BY <1>2 DEF Reports, Reported, Current
<1>4. \A s \in Requests : ~(s = st.req \/ s \in st.waiters)
  BY <1>3, NobodyWaits
<1>5. PICK out : Reported(tag, out)
  BY <1>2
<1> QED BY <1>1, <1>3, <1>4, <1>5, ReportHeld

LEMMA ScriptEndedHeld ==
    ASSUME Core, NoRequestDropped, ScriptEnded
    PROVE  NoRequestDropped'
<1>1. /\ UNCHANGED <<registry, deferred, asked>> /\ answer' = Answered(st.waiters, "ok")
      /\ Reported("scriptEnded", {"ok", "error"})
  BY DEF ScriptEnded, store
<1>2. "scriptEnded" \in DOMAIN Reports /\ st.kind = "running"
  BY <1>1 DEF Reports, Reported, Current
<1>3. \A r \in Requests : r # st.req
  BY <1>2, RequestRange DEF Core, StateInv
<1>4. \A r \in Requests : /\ r \in st.waiters => answer'[r] # "none"
                          /\ answer'[r] = "none" => answer[r] = "none"
  BY <1>1, AnsweredIs
<1> QED BY <1>1, <1>2, <1>3, <1>4, ReportHeld

LEMMA LeaveHeld ==
    ASSUME Core, NoRequestDropped, Leave
    PROVE  NoRequestDropped'
<1>1. /\ phase = "exiting" /\ asked' = asked
      /\ answer' = Answered(RequestsIn(mailbox), "error")
  BY DEF Leave
<1>2. wait = NoWait /\ deferred = <<>> /\ st.kind \notin {"preparing", "running"}
  BY <1>1 DEF Core, PhaseInv, HasChild
<1>3. \A r \in Requests : ~(r = st.req \/ r \in st.waiters) /\ r # wait.req /\ r \notin wait.waiters
  BY <1>2, NobodyWaits, NobodyWaitsHere
<1>4. \A r \in Requests : /\ r \in RequestsIn(mailbox) => answer'[r] # "none"
                          /\ answer'[r] = "none" => answer[r] = "none"
  BY <1>1, AnsweredIs
<1>5. \A r : r \notin Range(deferred)
  <2>1. DOMAIN deferred = {}
    BY <1>2
  <2> QED BY <2>1 DEF Range
<1>6. \A r \in Requests : asked[r] # "none" /\ answer'[r] = "none" => FALSE
  BY <1>3, <1>4, <1>5 DEF NoRequestDropped, Held
<1> QED BY <1>1, <1>6 DEF NoRequestDropped

LEMMA UntouchedHeld ==
    ASSUME Core, NoRequestDropped, UNCHANGED <<st, wait, deferred, asked, answer>>,
           phase # "none" => phase' # "none",
           mailbox' = mailbox \/ (\E m \in MessageType : Post(m))
    PROVE  NoRequestDropped'
<1>1. \A r : r \in RequestsIn(mailbox) => r \in RequestsIn(mailbox')
  <2>1. CASE mailbox' = mailbox
    BY <2>1
  <2>2. CASE \E m \in MessageType : Post(m)
    BY <2>2, PostedRequest
  <2> QED BY <2>1, <2>2
<1>2. \A r \in Requests : Held(r) => Held(r)'
  BY <1>1 DEF Held
<1> QED BY <1>2, NotDropped

LEMMA ExitHeld ==
    ASSUME Core, NoRequestDropped, Exit
    PROVE  NoRequestDropped'
BY UntouchedHeld DEF Exit, actor, clients

LEMMA StopAllHeld ==
    ASSUME Core, NoRequestDropped, StopAll
    PROVE  NoRequestDropped'
<1>1. Message("stop", 0, "none") \in MessageType
  BY MessageFacts
<1> QED BY <1>1, UntouchedHeld DEF StopAll, actor, clients

LEMMA TaskStepHeld ==
    ASSUME Core, NoRequestDropped, NEW t \in tasks,
           \/ PrepareOwns(t) \/ PrepareClaim(t) \/ PrepareCommit(t) \/ PrepareFail(t)
           \/ StreamEnd(t) \/ StreamEvent(t) \/ ScriptEnd(t)
    PROVE  NoRequestDropped'
<1>1. UNCHANGED <<st, wait, deferred, asked, answer, phase>>
  BY DEF PrepareOwns, PrepareClaim, PrepareCommit, PrepareFail, StreamEnd, StreamEvent, ScriptEnd,
         registry, actor, clients
<1>2. t.gen \in Nat
  BY TaskOf
<1>3. \A tag \in {"prepared", "event", "streamEnded", "scriptEnded"},
         out \in {"ok", "error", "stopped", "text", "result", "prompt", "run"} :
           Message(tag, t.gen, out) \in MessageType
  BY <1>2, MessageFacts
<1>4. mailbox' = mailbox \/ \E m \in MessageType : Post(m)
  <2>1. CASE PrepareOwns(t) \/ PrepareClaim(t) \/ PrepareCommit(t) \/ PrepareFail(t)
    BY <1>3, <2>1 DEF PrepareOwns, PrepareClaim, PrepareCommit, PrepareFail, Report
  <2>2. CASE StreamEnd(t)
    BY <1>3, <2>2 DEF StreamEnd, Report
  <2>3. CASE StreamEvent(t) \/ ScriptEnd(t)
    BY <1>3, <2>3 DEF StreamEvent, ScriptEnd, Report
  <2> QED BY <2>1, <2>2, <2>3
<1> QED BY <1>1, <1>4, UntouchedHeld

LEMMA AskHeld ==
    ASSUME Core, NoRequestDropped, Ask
    PROVE  NoRequestDropped'
<1>1. PICK r \in Requests, k \in Kinds :
        /\ asked[r] = "none" /\ asked' = [asked EXCEPT ![r] = k]
        /\ IF closed
           THEN answer' = Answered({r}, "error") /\ UNCHANGED <<phase, mailbox, actor>>
           ELSE /\ Post(Message("request", r, "none"))
                /\ phase' = IF phase = "none" THEN "running" ELSE phase
                /\ IF phase = "none"
                   THEN st' = Idle /\ gen' = 0 /\ wait' = NoWait /\ deferred' = <<>> /\ stopping' = FALSE
                   ELSE UNCHANGED actor
                /\ UNCHANGED answer
  BY DEF Ask
<1>2. \A s \in Requests : s # r => asked'[s] = asked[s]
  BY <1>1 DEF Core, TypeOK
<1>3. CASE closed
  <2>1. answer' = Answered({r}, "error") /\ UNCHANGED <<phase, mailbox, st, wait, deferred>>
    BY <1>1, <1>3 DEF actor
  <2>2. \A s \in Requests : /\ s = r => answer'[s] # "none"
                            /\ answer'[s] = "none" => answer[s] = "none"
    BY <2>1, AnsweredIs
  <2>3. \A s \in Requests : Held(s) => Held(s)'
    BY <2>1 DEF Held
  <2> QED BY <1>2, <2>1, <2>2, <2>3 DEF NoRequestDropped
<1>4. CASE ~closed
  <2>1. PICK m \in MessageType : m = Message("request", r, "none") /\ m.tag = "request" /\ m.n = r
    BY RequestRange, MessageFacts
  <2>2. Post(m) /\ answer' = answer
    BY <1>1, <1>4, <2>1
  <2>3. /\ \A s : s \in RequestsIn(mailbox) => s \in RequestsIn(mailbox')
        /\ r \in RequestsIn(mailbox')
    BY <2>1, <2>2, PostedRequest
  <2>4. Held(r)' /\ phase' # "none"
    BY <1>1, <1>4, <2>3 DEF Held
  <2>5. CASE phase = "none"
    BY <1>2, <2>2, <2>4, <2>5 DEF NoRequestDropped
  <2>6. CASE phase # "none"
    <3>1. UNCHANGED <<st, wait, deferred>>
      BY <1>1, <1>4, <2>6 DEF actor
    <3>2. \A s \in Requests : Held(s) => Held(s)'
      BY <2>3, <3>1 DEF Held
    <3> QED BY <1>2, <2>2, <2>4, <3>2 DEF NoRequestDropped
  <2> QED BY <2>5, <2>6
<1> QED BY <1>3, <1>4

LEMMA NextHeld ==
    ASSUME Core, NoRequestDropped, [Next]_vars PROVE NoRequestDropped'
<1>1. CASE Ask \/ StopAll
  BY <1>1, AskHeld, StopAllHeld
<1>2. CASE Handler
  BY <1>2, SendHeld, SendRejectedHeld, CancelHeld, ApproveHeld, DenyHeld, DeleteHeld, SendClaimHeld,
     JoinedHandlersHeld, DeletePutOffHeld, StopHeld, ExitHeld,
     LeaveHeld, PreparedStartsHeld, PreparedEndsHeld, StreamReportsHeld, ScriptEndedHeld, StaleHeld
  DEF Handler
<1>3. CASE TaskStep
  BY <1>3, TaskStepHeld DEF TaskStep
<1>4. CASE Over \/ UNCHANGED vars
  <2>1. UNCHANGED <<phase, mailbox, st, wait, deferred, asked, answer>>
    BY <1>4 DEF Over, vars, registry, actor, clients
  <2> QED BY <2>1, UntouchedHeld
<1> QED BY <1>1, <1>2, <1>3, <1>4 DEF Next

-----------------------------------------------------------------------------
(* User messages. *)

(* What kind of request is where. *)
KindInv ==
    /\ \A r \in RequestsIn(mailbox) : r \in Requests /\ asked[r] # "none"
    /\ wait.req # 0 => asked[wait.req] = "send"
    /\ st.req # 0 => asked[st.req] = "send"
    /\ \A r \in wait.waiters \cup st.waiters \cup Range(deferred) : asked[r] \notin {"send", "none"}
    /\ \A r \in Range(history) : asked[r] = "send"
    /\ \A r \in Requests : asked[r] = "none" => answer[r] = "none"

(* What is queued, or taken by a preparation, was answered so. *)
QueuedInv ==
    /\ \A r \in Range(Messages(queue)) : asked[r] = "send" /\ answer[r] = "queued"
    /\ \A t \in tasks : t.kind = "prep" =>
          \A r \in Range(t.take) : asked[r] = "send" /\ (answer[r] = "queued" \/ r = st.req)

(* A user message that has no answer yet is in one place, and not in the   *)
(* history before its preparation.                                         *)
OwnInv ==
    /\ \A i, j \in DOMAIN mailbox :
          mailbox[i].tag = "request" /\ mailbox[j].tag = "request" /\ mailbox[i].n = mailbox[j].n => i = j
    /\ \A r \in RequestsIn(mailbox) : asked[r] = "send" =>
          answer[r] = "none" /\ r # wait.req /\ r # st.req /\ r \notin Range(history)
    /\ wait.req # 0 =>
          answer[wait.req] = "none" /\ wait.req # st.req /\ wait.req \notin Range(history)
    /\ st.req # 0 => answer[st.req] = "none"

(* The message of a preparation is in the history once it has committed. *)
PreparedInv ==
    st.req # 0 =>
        /\ \A t \in tasks : t.gen = st.gen => t.take = <<st.req>> /\ st.req \notin Range(history)
        /\ \A i \in DOMAIN mailbox : mailbox[i].tag = "prepared" /\ mailbox[i].n = st.gen =>
              IF mailbox[i].out = "ok" THEN Copies(st.req) = 1 ELSE st.req \notin Range(history)

Book == KindInv /\ QueuedInv /\ OwnInv /\ PreparedInv /\ StartedIsRecorded

-----------------------------------------------------------------------------
LEMMA CopiesFacts ==
    ASSUME Core, NEW r
    PROVE  /\ Copies(r) \in Nat
           /\ r \notin Range(history) <=> Copies(r) = 0
<1> DEFINE S == {i \in DOMAIN history : history[i] = r}
<1>1. DOMAIN history = 1..Len(history) /\ Len(history) \in Nat
  BY LenProperties DEF Core, TypeOK
<1>2. IsFiniteSet(S)
  <2>1. IsFiniteSet(1..Len(history))
    BY <1>1, FS_Interval
  <2> QED BY <1>1, <2>1, FS_Subset
<1>3. Cardinality(S) \in Nat /\ (Cardinality(S) = 0 <=> S = {})
  BY <1>2, FS_CardinalityType, FS_EmptySet
<1>4. S = {} <=> r \notin Range(history)
  BY DEF Range
<1> QED BY <1>3, <1>4 DEF Copies

(* No request is added to the mailbox. *)
MailFits ==
    /\ \A r \in RequestsIn(mailbox') : r \in RequestsIn(mailbox)
    /\ \A i, j \in DOMAIN mailbox' :
          mailbox'[i].tag = "request" /\ mailbox'[j].tag = "request" /\ mailbox'[i].n = mailbox'[j].n => i = j

LEMMA SameMail ==
    ASSUME Book, mailbox' = mailbox PROVE MailFits
BY DEF Book, OwnInv, MailFits

LEMMA ReceivedMail ==
    ASSUME Core, Book, mailbox # <<>>, mailbox' = Tail(mailbox)
    PROVE  MailFits /\ (Head(mailbox).tag = "request" => Head(mailbox).n \notin RequestsIn(mailbox')
                                                         /\ Head(mailbox).n \in RequestsIn(mailbox))
<1>1. /\ Head(mailbox) = mailbox[1] /\ 1 \in DOMAIN mailbox
      /\ \A i \in DOMAIN mailbox' : i + 1 \in DOMAIN mailbox /\ mailbox'[i] = mailbox[i + 1] /\ i \in Nat
      /\ \A i \in DOMAIN mailbox' : i + 1 # 1
  <2>1. /\ Head(mailbox) = mailbox[1] /\ 1 \in DOMAIN mailbox
        /\ \A i \in DOMAIN Tail(mailbox) : i + 1 \in DOMAIN mailbox /\ Tail(mailbox)[i] = mailbox[i + 1] /\ i \in Nat
    BY TailOf DEF Core, TypeOK
  <2>2. \A i \in DOMAIN Tail(mailbox) : i \in 1..Len(Tail(mailbox))
    BY HeadTailProperties, LenProperties DEF Core, TypeOK
  <2> QED BY <2>1, <2>2
<1>2. \A i, j \in DOMAIN mailbox :
          mailbox[i].tag = "request" /\ mailbox[j].tag = "request" /\ mailbox[i].n = mailbox[j].n => i = j
  BY DEF Book, OwnInv
<1>3. \A i, j \in DOMAIN mailbox' :
          mailbox'[i].tag = "request" /\ mailbox'[j].tag = "request" /\ mailbox'[i].n = mailbox'[j].n => i = j
  <2> TAKE i, j \in DOMAIN mailbox'
  <2> HAVE mailbox'[i].tag = "request" /\ mailbox'[j].tag = "request" /\ mailbox'[i].n = mailbox'[j].n
  <2>1. i + 1 = j + 1
    BY <1>1, <1>2
  <2> QED BY <1>1, <2>1
<1>4. \A r \in RequestsIn(mailbox') : \E i \in DOMAIN mailbox' : mailbox'[i].tag = "request" /\ mailbox'[i].n = r
  BY DEF RequestsIn
<1>5. \A i \in DOMAIN mailbox : mailbox[i].tag = "request" => mailbox[i].n \in RequestsIn(mailbox)
  BY DEF RequestsIn
<1>6. \A r \in RequestsIn(mailbox') : r \in RequestsIn(mailbox)
  BY <1>1, <1>4, <1>5
<1>7. Head(mailbox).tag = "request" => Head(mailbox).n \notin RequestsIn(mailbox')
  BY <1>1, <1>2, <1>4
<1> QED BY <1>1, <1>3, <1>5, <1>6, <1>7 DEF MailFits

LEMMA PostedMail ==
    ASSUME Core, Book, NEW m \in MessageType, m.tag # "request", Post(m)
    PROVE  MailFits
<1>1. \A i \in DOMAIN mailbox' : \/ i \in DOMAIN mailbox /\ mailbox'[i] = mailbox[i]
                                 \/ mailbox'[i] = m
  BY PostFacts
<1>2. \A r \in RequestsIn(mailbox') : \E i \in DOMAIN mailbox' : mailbox'[i].tag = "request" /\ mailbox'[i].n = r
  BY DEF RequestsIn
<1>3. \A i \in DOMAIN mailbox : mailbox[i].tag = "request" => mailbox[i].n \in RequestsIn(mailbox)
  BY DEF RequestsIn
<1>4. \A i, j \in DOMAIN mailbox :
          mailbox[i].tag = "request" /\ mailbox[j].tag = "request" /\ mailbox[i].n = mailbox[j].n => i = j
  BY DEF Book, OwnInv
<1> QED BY <1>1, <1>2, <1>3, <1>4 DEF MailFits

-----------------------------------------------------------------------------
(* The one user message s, if any, that a step moves on: to the handler    *)
(* that claims the lease, to a preparation, or to its answer.              *)
Served(s) ==
    /\ \A r \in Requests : asked[r] = "send" /\ r # s => answer'[r] = answer[r]
    /\ \A r \in Requests : asked[r] # "send" /\ answer'[r] = "started" => answer[r] = "started"
    /\ \A r \in Requests : asked[r] = "none" => answer'[r] = answer[r]
    /\ wait'.req \in {0, s, wait.req} /\ st'.req \in {0, s, st.req}
    /\ s \in Requests =>
          /\ asked[s] = "send" /\ s \notin RequestsIn(mailbox') /\ answer[s] = "none"
          /\ \/ wait'.req = s /\ st'.req # s /\ answer'[s] = "none" /\ s \notin Range(history)
             \/ wait'.req # s /\ st'.req = s /\ answer'[s] = "none"
             \/ /\ wait'.req # s /\ st'.req # s
                /\ \/ answer'[s] = "queued"
                   \/ answer'[s] = "started" /\ Copies(s) = 1
                   \/ answer'[s] = "error" /\ (stopping' \/ s \notin Range(history))

Waiters == wait.waiters \cup st.waiters \cup Range(deferred)

(* What the preparations take after such a step. *)
Takes(s) ==
    \A t \in tasks' : t.kind = "prep" =>
        \/ st'.req = st.req /\ \E u \in tasks : u.kind = "prep" /\ u.take = t.take
        \/ Range(t.take) \subseteq Range(Messages(queue'))
        \/ st'.req = s /\ s # 0 /\ Range(t.take) \subseteq {s}

LEMMA BookKeeps ==
    ASSUME Core, Core', Book, UNCHANGED <<history, asked>>, stopping => stopping', MailFits,
           NEW s, Served(s),
           \A r \in Waiters' : asked[r] \notin {"send", "none"},
           \A r \in Range(Messages(queue')) :
              r \in Range(Messages(queue)) \/ (r \in Requests /\ r = s /\ answer'[r] = "queued"),
           Takes(s), PreparedInv'
    PROVE  Book'
<1>1. wait.req \in 0..MaxRequests /\ st.req \in 0..MaxRequests /\ MaxRequests \in Nat
      /\ wait'.req \in 0..MaxRequests /\ st'.req \in 0..MaxRequests
  BY SessionActorAssumption DEF Core, TypeOK, WaitType, JobType
<1>2. /\ wait'.req \in {0, s, wait.req} /\ st'.req \in {0, s, st.req}
      /\ \A r \in Requests : asked[r] = "send" /\ r # s => answer'[r] = answer[r]
      /\ s \in Requests =>
          /\ asked[s] = "send" /\ s \notin RequestsIn(mailbox') /\ answer[s] = "none"
          /\ \/ wait'.req = s /\ st'.req # s /\ answer'[s] = "none" /\ s \notin Range(history)
             \/ wait'.req # s /\ st'.req = s /\ answer'[s] = "none"
             \/ /\ wait'.req # s /\ st'.req # s
                /\ \/ answer'[s] = "queued"
                   \/ answer'[s] = "started" /\ Copies(s) = 1
                   \/ answer'[s] = "error" /\ (stopping' \/ s \notin Range(history))
      /\ \A r \in Requests : asked[r] # "send" /\ answer'[r] = "started" => answer[r] = "started"
      /\ \A r \in Requests : asked[r] = "none" => answer'[r] = answer[r]
  BY DEF Served
<1>3. /\ \A r \in RequestsIn(mailbox) : r \in Requests /\ asked[r] # "none"
      /\ wait.req # 0 => asked[wait.req] = "send"
      /\ st.req # 0 => asked[st.req] = "send"
      /\ \A r \in Range(history) : asked[r] = "send"
      /\ \A r \in Requests : asked[r] = "none" => answer[r] = "none"
  BY DEF Book, KindInv
<1>4. \A r : r \in Requests <=> r # 0 /\ r \in 0..MaxRequests
  BY <1>1 DEF Requests
<1>5. /\ \A r \in RequestsIn(mailbox) : asked[r] = "send" =>
          answer[r] = "none" /\ r # wait.req /\ r # st.req /\ r \notin Range(history)
      /\ wait.req # 0 =>
          answer[wait.req] = "none" /\ wait.req # st.req /\ wait.req \notin Range(history)
      /\ st.req # 0 => answer[st.req] = "none"
  BY DEF Book, OwnInv
<1>6. /\ \A r \in RequestsIn(mailbox') : r \in RequestsIn(mailbox)
      /\ \A i, j \in DOMAIN mailbox' :
          mailbox'[i].tag = "request" /\ mailbox'[j].tag = "request" /\ mailbox'[i].n = mailbox'[j].n => i = j
  BY DEF MailFits
<1>7. Range(history') = Range(history) /\ asked' = asked
  BY DEF Range
<1>8. s # 0 /\ (wait'.req = s \/ st'.req = s) => s \in Requests
  BY <1>1, <1>4
<1>9. KindInv'
  <2>1. wait'.req # 0 => asked[wait'.req] = "send"
    BY <1>2, <1>3, <1>8
  <2>2. st'.req # 0 => asked[st'.req] = "send"
    BY <1>2, <1>3, <1>8
  <2> QED BY <2>1, <2>2, <1>2, <1>3, <1>6, <1>7 DEF KindInv, Waiters
<1>10. /\ \A r \in Range(Messages(queue)) : r \in Requests /\ asked[r] = "send" /\ answer[r] = "queued"
       /\ \A t \in tasks : t.kind = "prep" =>
              \A r \in Range(t.take) : asked[r] = "send" /\ (answer[r] = "queued" \/ r = st.req)
  <2>1. Range(Messages(queue)) \subseteq Requests
    BY MessagesTyped DEF Core, TypeOK
  <2> QED BY <2>1 DEF Book, QueuedInv
<1>11. \A r \in Requests : asked[r] = "send" /\ answer[r] = "queued" => answer'[r] = "queued"
  BY <1>2
<1>12. \A r \in Range(Messages(queue')) : asked[r] = "send" /\ answer'[r] = "queued"
  BY <1>2, <1>10, <1>11
<1>13. ASSUME NEW t \in tasks', t.kind = "prep", NEW r \in Range(t.take)
       PROVE  asked[r] = "send" /\ (answer'[r] = "queued" \/ r = st'.req)
  <2>1. r \in Requests
    <3>1. t \in TaskType
      BY <1>13 DEF Core, TypeOK
    <3>2. t.take \in Seq(Requests)
      BY <3>1 DEF TaskType
    <3>3. \A i \in DOMAIN t.take : t.take[i] \in Requests
      BY <3>2, LenProperties
    <3> QED BY <1>13, <3>3 DEF Range
  <2>2. CASE st'.req = st.req /\ \E u \in tasks : u.kind = "prep" /\ u.take = t.take
    BY <1>10, <1>11, <1>13, <2>1, <2>2
  <2>3. CASE Range(t.take) \subseteq Range(Messages(queue'))
    BY <1>12, <1>13, <2>3
  <2>4. CASE st'.req = s /\ s # 0 /\ Range(t.take) \subseteq {s}
    BY <1>2, <1>8, <1>13, <2>4
  <2> QED BY <1>13, <2>2, <2>3, <2>4 DEF Takes
<1>14. QueuedInv'
  BY <1>7, <1>12, <1>13 DEF QueuedInv
<1>15. OwnInv'
  <2>1. \A r \in RequestsIn(mailbox') : asked[r] = "send" =>
          answer'[r] = "none" /\ r # wait'.req /\ r # st'.req /\ r \notin Range(history)
    <3> TAKE r \in RequestsIn(mailbox')
    <3> HAVE asked[r] = "send"
    <3>1. /\ r \in Requests /\ answer[r] = "none" /\ r # wait.req /\ r # st.req
          /\ r \notin Range(history)
      BY <1>3, <1>5, <1>6
    <3>2. r # s
      BY <3>1, <1>2
    <3>3. r # 0
      BY <3>1, <1>4
    <3> QED BY <1>2, <3>1, <3>2, <3>3
  <2>2. wait'.req # 0 =>
          answer'[wait'.req] = "none" /\ wait'.req # st'.req /\ wait'.req \notin Range(history)
    <3> HAVE wait'.req # 0
    <3>1. CASE wait'.req = s
      BY <1>2, <1>8, <3>1
    <3>2. CASE wait'.req # s
      <4>1. wait'.req = wait.req /\ wait.req \in Requests /\ wait.req # s
        BY <1>1, <1>2, <1>4, <3>2
      <4>2. answer'[wait.req] = answer[wait.req] /\ wait.req # st'.req
        BY <4>1, <1>2, <1>3, <1>5
      <4> QED BY <4>1, <4>2, <1>4, <1>5
    <3> QED BY <3>1, <3>2
  <2>3. st'.req # 0 => answer'[st'.req] = "none"
    <3> HAVE st'.req # 0
    <3>1. CASE st'.req = s
      BY <1>2, <1>8, <3>1
    <3>2. CASE st'.req # s
      <4>1. st'.req = st.req /\ st.req \in Requests /\ st.req # s
        BY <1>1, <1>2, <1>4, <3>2
      <4> QED BY <4>1, <1>2, <1>3, <1>4, <1>5
    <3> QED BY <3>1, <3>2
  <2> QED BY <1>6, <1>7, <2>1, <2>2, <2>3 DEF OwnInv
<1>16. \A r : Copies(r)' = Copies(r) /\ Copies(r) \in Nat /\ (r \notin Range(history) <=> Copies(r) = 0)
  <2> TAKE r
  <2>1. Copies(r)' = Copies(r)
    BY DEF Copies
  <2> QED BY <2>1, CopiesFacts
<1>17. StartedIsRecorded'
  <2> SUFFICES ASSUME NEW r \in Requests
               PROVE  /\ answer'[r] = "started" => Copies(r) = 1
                      /\ answer'[r] = "error" /\ Copies(r) > 0 => stopping'
    BY <1>16 DEF StartedIsRecorded
  <2>1. /\ answer[r] = "started" => Copies(r) = 1
        /\ answer[r] = "error" /\ Copies(r) > 0 => stopping
    BY DEF Book, StartedIsRecorded
  <2>2. CASE r = s
    BY <1>2, <1>16, <2>2
  <2>3. CASE r # s /\ asked[r] = "send"
    BY <1>2, <2>1, <2>3
  <2>4. CASE asked[r] # "send"
    <3>1. Copies(r) = 0
      BY <1>3, <1>16, <2>4
    <3> QED BY <1>2, <2>1, <2>4, <3>1
  <2> QED BY <2>2, <2>3, <2>4
<1> QED BY <1>9, <1>14, <1>15, <1>17 DEF Book

-----------------------------------------------------------------------------
(* What preparations take, and the shapes a handler's step can have.       *)

(* The tasks of ts, and a preparation of what is in q. *)
Draws(ts, q) ==
    \A t \in tasks' : t \in ts \/ t.kind # "prep" \/ (t.take = Messages(q) /\ t.through = Through(q))

LEMMA BeginPreparationDraws ==
    ASSUME Core, NEW ts, NEW origin \in {"continue", "queue"}, NEW q \in Seq(EntryType),
           NEW a, NEW b, BeginPreparation(ts, origin, 0, q, a, b)
    PROVE  Draws(ts, q)
<1> DEFINE task == Task("prep", gen + 1)
           step == IF origin = "continue" /\ q = <<>> THEN "commit" ELSE "run"
           take == Messages(q)
           through == Through(q)
           t == [task EXCEPT !.step = step, !.take = take, !.through = through]
<1>1. task \in TaskType
  <2>1. gen + 1 \in Nat
    BY DEF Core, TypeOK
  <2> QED BY <2>1, TaskFacts
<1>2. tasks' = ts \cup {t}
  BY DEF BeginPreparation
<1> HIDE DEF task, step, take, through
<1>3. t.take = take /\ t.through = through
  BY <1>1 DEF TaskType
<1> QED BY <1>2, <1>3 DEF Draws, take, through

LEMMA SendPreparation ==
    ASSUME Core, NEW ts, NEW r, BeginPreparation(ts, "send", r, <<>>, FALSE, FALSE)
    PROVE  \E t : tasks' = ts \cup {t} /\ t.take = <<r>> /\ t.gen = gen + 1 /\ t.through = -1
<1> DEFINE task == Task("prep", gen + 1)
           take == <<r>>
           through == Through(<<>>)
           t == [task EXCEPT !.step = "run", !.take = take, !.through = through]
<1>1. task \in TaskType /\ task.gen = gen + 1
  <2>1. gen + 1 \in Nat
    BY DEF Core, TypeOK
  <2> QED BY <2>1, TaskFacts
<1>2. tasks' = ts \cup {t}
  BY DEF BeginPreparation
<1> HIDE DEF task, take, through
<1>3. t.take = take /\ t.gen = gen + 1 /\ t.through = through
  BY <1>1 DEF TaskType
<1> HIDE DEF t
<1>4. through = -1
  BY DEF through, Through
<1> QED BY <1>2, <1>3, <1>4 DEF take

LEMMA RestDraws ==
    ASSUME NEW ts, NEW q, Rest(ts) PROVE Draws(ts, q)
BY DEF Rest, Draws

LEMMA DrainDraws ==
    ASSUME Core, NEW ts, NEW q \in Seq(EntryType), Drain(ts, q) PROVE Draws(ts, q)
<1>1. CASE Rest(ts)
  BY <1>1, RestDraws
<1>2. CASE BeginPreparation(ts, "queue", 0, q, FALSE, FALSE)
  BY <1>2, BeginPreparationDraws
<1> QED BY <1>1, <1>2 DEF Drain

LEMMA FinishAndDrainDraws ==
    ASSUME Core, NEW ts, NEW q \in Seq(EntryType), FinishAndDrain(ts, q) PROVE Draws(ts, q)
BY DrainDraws DEF FinishAndDrain

LEMMA StartContinuationDraws ==
    ASSUME Core, NEW ts, NEW b, StartContinuation(ts, b) PROVE Draws(ts, queue)
<1>1. CASE Rest(ts)
  BY <1>1, RestDraws
<1>2. CASE BeginPreparation(ts, "continue", 0, queue, queue # <<>>, b)
  <2> DEFINE a == queue # <<>>
  <2>1. BeginPreparation(ts, "continue", 0, queue, a, b) /\ queue \in Seq(EntryType)
    BY <1>2 DEF Core, TypeOK
  <2> HIDE DEF a
  <2> QED BY <2>1, BeginPreparationDraws
<1> QED BY <1>1, <1>2 DEF StartContinuation

LEMMA FinalizeScriptDraws ==
    ASSUME Core, NEW ts, FinalizeScript(ts) PROVE Draws(ts, queue)
BY StartContinuationDraws, FinishAndDrainDraws DEF FinalizeScript, Core, TypeOK

LEMMA StreamFailedDraws ==
    ASSUME Core, NEW ts, StreamFailed(ts) PROVE Draws(ts, queue)
BY RestDraws, FinishAndDrainDraws DEF StreamFailed, Core, TypeOK

LEMMA StartScriptDraws ==
    ASSUME Core, NEW q, StartScript PROVE Draws(tasks, q)
<1>1. Task("script", gen + 1).kind = "script"
  <2>1. gen + 1 \in Nat
    BY DEF Core, TypeOK
  <2> QED BY <2>1, TaskFacts
<1> QED BY <1>1 DEF StartScript, Draws

(* Telling a task to end leaves it what it has taken. *)
LEMMA SameTakes ==
    ASSUME Core, NEW ts, Same(ts)
    PROVE  \A u \in ts : \E t \in tasks :
              u.kind = t.kind /\ u.gen = t.gen /\ u.take = t.take /\ u.through = t.through
<1>1. tasks \subseteq TaskType
  BY DEF Core, TypeOK
<1>2. \A t \in TaskType : \A g : Tell(t, g).take = t.take /\ Tell(t, g).through = t.through
  BY DEF Tell, TaskType
<1>3. CASE ts = tasks
  BY <1>3
<1>4. CASE ts = Told(st.gen)
  <2>1. ts = {Tell(t, st.gen) : t \in tasks}
    BY <1>4 DEF Told, Tell
  <2> QED BY <2>1, <1>1, <1>2, TellFacts
<1> QED BY <1>3, <1>4 DEF Same

LEMMA PreparedKept ==
    ASSUME Book, st'.req = st.req, st'.gen = st.gen, history' = history,
           \A t \in tasks' : \E u \in tasks : u.gen = t.gen /\ u.take = t.take,
           \A i \in DOMAIN mailbox' : mailbox'[i].tag = "prepared" /\ mailbox'[i].n = st.gen =>
               \E j \in DOMAIN mailbox : mailbox'[i] = mailbox[j]
    PROVE  PreparedInv'
<1> SUFFICES ASSUME st'.req # 0
             PROVE  /\ \A t \in tasks' : t.gen = st'.gen => t.take = <<st'.req>> /\ st'.req \notin Range(history')
                    /\ \A i \in DOMAIN mailbox' : mailbox'[i].tag = "prepared" /\ mailbox'[i].n = st'.gen =>
                          IF mailbox'[i].out = "ok" THEN Copies(st.req)' = 1 ELSE st'.req \notin Range(history')
  BY DEF PreparedInv, Copies
<1>1. /\ \A t \in tasks : t.gen = st.gen => t.take = <<st.req>> /\ st.req \notin Range(history)
      /\ \A i \in DOMAIN mailbox : mailbox[i].tag = "prepared" /\ mailbox[i].n = st.gen =>
            IF mailbox[i].out = "ok" THEN Copies(st.req) = 1 ELSE st.req \notin Range(history)
  BY DEF Book, PreparedInv
<1>2. Range(history') = Range(history)
  OBVIOUS
<1>3. Copies(st.req)' = Copies(st.req)
  BY DEF Copies
<1> QED BY <1>1, <1>2, <1>3

(* No user message moves on. *)
LEMMA ServedNone ==
    ASSUME Core, wait'.req \in {0, wait.req}, st'.req \in {0, st.req},
           \A x \in Requests : answer'[x] = answer[x] \/ (asked[x] \notin {"send", "none"} /\ answer'[x] # "started")
    PROVE  Served(0)
<1>1. 0 \notin Requests
  BY RequestRange
<1> QED BY <1>1 DEF Served

LEMMA WaitersTyped ==
    ASSUME Core PROVE Waiters \subseteq Requests
<1>1. wait.waiters \subseteq Requests /\ st.waiters \subseteq Requests
  BY DEF Core, TypeOK, WaitType, JobType
<1>2. Range(deferred) \subseteq Requests
  <2>1. \A i \in DOMAIN deferred : deferred[i] \in Requests
    BY LenProperties DEF Core, TypeOK
  <2> QED BY <2>1 DEF Range
<1> QED BY <1>1, <1>2 DEF Waiters

(* Whoever waits afterwards has waited before or has just asked. *)
LEMMA WaitersFit ==
    ASSUME Book, \A r \in Waiters' : r \in Waiters \/ asked[r] \notin {"send", "none"}
    PROVE  \A r \in Waiters' : asked[r] \notin {"send", "none"}
BY DEF Book, KindInv, Waiters

(* The handler leaves the job as it is. *)
LEMMA KeptBook ==
    ASSUME Core, Core', Book, UNCHANGED <<history, asked>>, stopping => stopping', MailFits, Shrinks,
           NEW s, Served(s), st'.req = st.req, st'.gen = st.gen, Same(tasks'),
           \A r \in Range(Messages(queue')) :
              r \in Range(Messages(queue)) \/ (r \in Requests /\ r = s /\ answer'[r] = "queued"),
           \A r \in Waiters' : r \in Waiters \/ asked[r] \notin {"send", "none"}
    PROVE  Book'
<1>2. \A u \in tasks' : \E t \in tasks : u.kind = t.kind /\ u.gen = t.gen /\ u.take = t.take
  BY SameTakes
<1>3. \A i \in DOMAIN mailbox' : \E j \in DOMAIN mailbox : mailbox'[i] = mailbox[j]
  BY ShrinkFacts DEF Core
<1>4. PreparedInv'
  BY <1>2, <1>3, PreparedKept
<1>5. Takes(s)
  BY <1>2 DEF Takes
<1>6. \A r \in Waiters' : asked[r] \notin {"send", "none"}
  BY WaitersFit
<1> QED BY <1>4, <1>5, <1>6, BookKeeps

LEMMA QuietBook ==
    ASSUME Core, Core', Book, UNCHANGED <<history, asked>>, stopping => stopping', MailFits, Shrinks,
           Range(Messages(queue')) \subseteq Range(Messages(queue)),
           wait'.req \in {0, wait.req}, st'.req = st.req, st'.gen = st.gen, Same(tasks'),
           \A x \in Requests : answer'[x] = answer[x] \/ (asked[x] \notin {"send", "none"} /\ answer'[x] # "started"),
           \A r \in Waiters' : r \in Waiters \/ asked[r] \notin {"send", "none"}
    PROVE  Book'
<1>1. Served(0)
  BY ServedNone
<1>2. \A r \in Range(Messages(queue')) :
        r \in Range(Messages(queue)) \/ (r \in Requests /\ r = 0 /\ answer'[r] = "queued")
  OBVIOUS
<1> QED BY <1>1, <1>2, KeptBook

(* The job is over; the next one, if any, takes what is queued. *)
LEMMA SettledBook ==
    ASSUME Core, Core', Book, UNCHANGED <<history, asked>>, stopping => stopping', MailFits,
           NEW s, Served(s), st'.req = 0,
           NEW ts, \A t \in ts : t.kind = "stream", Draws(ts, queue'),
           \A r \in Range(Messages(queue')) :
              r \in Range(Messages(queue)) \/ (r \in Requests /\ r = s /\ answer'[r] = "queued"),
           \A r \in Waiters' : r \in Waiters \/ asked[r] \notin {"send", "none"}
    PROVE  Book'
<1>1. PreparedInv'
  BY DEF PreparedInv
<1>2. Takes(s)
  BY DEF Takes, Draws
<1>3. \A r \in Waiters' : asked[r] \notin {"send", "none"}
  BY WaitersFit
<1> QED BY <1>1, <1>2, <1>3, BookKeeps

-----------------------------------------------------------------------------
(* One lemma for every step: it keeps Book.                                *)

LEMMA StaysMail ==
    ASSUME Core, Book, Stays PROVE MailFits /\ Shrinks
BY SameMail, ReceivedMail DEF Stays, Shrinks

LEMMA SenderFacts ==
    ASSUME Core, Book, NEW r \in Requests, Asked(r, {"send"}), UNCHANGED registry
    PROVE  /\ MailFits /\ Shrinks /\ wait = NoWait
           /\ asked[r] = "send" /\ r \notin RequestsIn(mailbox') /\ answer[r] = "none"
           /\ r # wait.req /\ r # st.req /\ r # 0 /\ r \notin Range(history)
<1>1. Stays /\ mailbox # <<>> /\ wait = NoWait
  BY AskedFacts
<1>2. mailbox' = Tail(mailbox) /\ Head(mailbox).tag = "request" /\ r = Head(mailbox).n /\ asked[r] = "send"
  BY DEF Asked, Received
<1>3. MailFits /\ Head(mailbox).n \notin RequestsIn(mailbox') /\ Head(mailbox).n \in RequestsIn(mailbox)
  BY <1>1, <1>2, ReceivedMail
<1>4. answer[r] = "none" /\ r # wait.req /\ r # st.req /\ r \notin Range(history)
  BY <1>2, <1>3 DEF Book, OwnInv
<1>5. r # 0
  BY RequestRange
<1> QED BY <1>1, <1>2, <1>3, <1>4, <1>5 DEF Stays

LEMMA EnqueuedRange ==
    ASSUME Core, NEW r \in Requests
    PROVE  \A x \in Range(Messages(Enqueued(r))) : x = r \/ x \in Range(Messages(queue))
<1>1. queue \in Seq(EntryType) /\ Through(queue) \in Int /\ Through(queue) >= -1
  BY ThroughTyped DEF Core, TypeOK
<1> DEFINE e == [seq |-> Through(queue) + 1, req |-> r]
<1>2. e \in EntryType /\ e.req = r
  BY <1>1 DEF EntryType
<1> HIDE DEF e
<1>3. /\ Append(queue, e)[Len(queue) + 1] = e
      /\ \A i \in DOMAIN queue : Append(queue, e)[i] = queue[i]
      /\ \A i \in DOMAIN Append(queue, e) : i = Len(queue) + 1 \/ i \in DOMAIN queue
  BY <1>1, <1>2, AppendOf
<1>4. Enqueued(r) = Append(queue, e)
  BY DEF Enqueued, e
<1>5. \A i \in DOMAIN Enqueued(r) : Enqueued(r)[i].req = r \/ (i \in DOMAIN queue /\ Enqueued(r)[i] = queue[i])
  BY <1>2, <1>3, <1>4
<1> QED BY <1>5 DEF Range, Messages

LEMMA SendRejectedBook ==
    ASSUME Core, Core', Book, NEW r \in Requests, SendRejected(r)
    PROVE  Book'
<1>1. /\ UNCHANGED <<registry, st, wait, deferred, stopping, tasks, queue, history, asked>>
      /\ answer' = Answered({r}, "error") /\ Asked(r, {"send"})
  BY DEF SendRejected, actor, store
<1>2. /\ MailFits /\ Shrinks /\ wait = NoWait
      /\ asked[r] = "send" /\ r \notin RequestsIn(mailbox') /\ answer[r] = "none"
      /\ r # wait.req /\ r # st.req /\ r # 0 /\ r \notin Range(history)
  BY <1>1, SenderFacts
<1>3. answer'[r] = "error" /\ \A x \in Requests : x # r => answer'[x] = answer[x]
  BY <1>1 DEF Answered
<1>4. Served(r)
  BY <1>1, <1>2, <1>3 DEF Served
<1>5. Same(tasks') /\ Waiters' = Waiters /\ st'.req = st.req /\ st'.gen = st.gen
  BY <1>1 DEF Same, Waiters
<1>6. Range(Messages(queue')) = Range(Messages(queue))
  BY <1>1
<1> QED BY <1>1, <1>2, <1>4, <1>5, <1>6, KeptBook

LEMMA GrantedBook ==
    ASSUME Core, Core', Book, MailFits, Shrinks, NEW r \in Requests,
           asked[r] = "send", r \notin RequestsIn(mailbox'), answer[r] = "none",
           r # st.req, r \notin Range(history),
           NEW next \in {"busy", "queue", "send"}, Granted(r, next),
           next # "busy" => Leftover(tasks, gen) /\ st = Idle,
           wait' = NoWait, UNCHANGED <<deferred, stopping, history, asked>>
    PROVE  Book'
<1>1. r # 0 /\ wait'.req = 0 /\ wait'.waiters = {}
  BY RequestRange, NoWaitFacts
<1>2. ASSUME answer'[r] \in {"queued", "error"}, \A x \in Requests : x # r => answer'[x] = answer[x],
             st'.req \in {0, st.req}
      PROVE  Served(r)
  BY <1>1, <1>2 DEF Served
<1>3. next # "busy" => \A t \in tasks : t.kind = "stream"
  BY DEF Leftover
<1>4. Range(Messages(Enqueued(r))) \subseteq Range(Messages(queue)) \cup {r}
  BY EnqueuedRange
<1>5. CASE next = "send" /\ BeginPreparation(tasks, "send", r, <<>>, FALSE, FALSE)
           /\ queue' = queue /\ answer' = answer
  <2>1a. \E t : tasks' = tasks \cup {t} /\ t.take = <<r>> /\ t.gen = gen + 1 /\ t.through = -1
    <3>1. BeginPreparation(tasks, "send", r, <<>>, FALSE, FALSE)
      BY <1>5
    <3>2. Core
      OBVIOUS
    <3> QED BY <3>1, <3>2, SendPreparation
  <2>1. PICK t : tasks' = tasks \cup {t} /\ t.take = <<r>> /\ t.gen = gen + 1
    BY <2>1a
  <2>2. <<>> \in Seq(EntryType) /\ Leftover(tasks, gen)
    BY <1>5, EmptySeq
  <2>3. Began(tasks) /\ st'.req = r /\ st'.waiters = {}
    BY <1>5, <2>2, BeginPreparationBegins
  <2>4. st'.gen = gen + 1 /\ gen \in Nat
    BY <2>3 DEF Began, Core, TypeOK
  <2>5. Served(r)
    BY <1>1, <1>5, <2>3 DEF Served
  <2>6. Range(t.take) = {r}
    BY <2>1 DEF Range
  <2>7. Takes(r)
    BY <1>1, <1>3, <1>5, <2>1, <2>3, <2>6 DEF Takes
  <2>8. PreparedInv'
    <3>1. \A u \in tasks : u.gen \in 1..gen
      BY DEF Core, TypeOK
    <3>2. \A i \in DOMAIN mailbox' : mailbox'[i].tag = "prepared" => mailbox'[i].n \in 1..gen
      <4>1. \A i \in DOMAIN mailbox' : \E j \in DOMAIN mailbox : mailbox'[i] = mailbox[j]
        BY ShrinkFacts DEF Core
      <4>2. \A i \in DOMAIN mailbox : mailbox[i].tag = "prepared" => mailbox[i].n \in 1..gen
        BY DEF Core, TaskInv, Reports
      <4> QED BY <4>1, <4>2
    <3>3. \A u \in tasks' : u.gen = st'.gen => u.take = <<st'.req>> /\ st'.req \notin Range(history')
      BY <2>1, <2>3, <2>4, <3>1
    <3>4. \A i \in DOMAIN mailbox' : ~(mailbox'[i].tag = "prepared" /\ mailbox'[i].n = st'.gen)
      BY <2>4, <3>2
    <3> QED BY <3>3, <3>4 DEF PreparedInv
  <2>9. \A x \in Waiters' : x \in Waiters
    BY <1>1, <2>3 DEF Waiters
  <2>10. \A x \in Waiters' : asked[x] \notin {"send", "none"}
    BY <2>9, WaitersFit
  <2> QED BY <1>5, <2>5, <2>7, <2>8, <2>10, BookKeeps
<1>6. CASE next # "send" /\ queue' = Enqueued(r) /\ answer' = Answered({r}, "queued")
           /\ IF next = "queue" THEN Drain(tasks, Enqueued(r)) ELSE UNCHANGED <<st, gen, tasks>>
  <2>1. answer'[r] = "queued" /\ \A x \in Requests : x # r => answer'[x] = answer[x]
    BY <1>6 DEF Answered
  <2>2. \A x \in Range(Messages(queue')) :
           x \in Range(Messages(queue)) \/ (x \in Requests /\ x = r /\ answer'[x] = "queued")
    BY <1>4, <1>6, <2>1
  <2>3. CASE next = "queue"
    <3>1. Enqueued(r) \in Seq(EntryType)
      BY EnqueuedTyped DEF Core
    <3>2. st'.req = 0 /\ st'.waiters = {}
      BY <1>6, <2>3, <3>1, DrainMoves
    <3>3. Draws(tasks, queue')
      BY <1>6, <2>3, <3>1, DrainDraws
    <3>4. \A x \in Waiters' : x \in Waiters
      BY <1>1, <3>2 DEF Waiters
    <3>5. Served(r)
      BY <1>2, <2>1, <3>2
    <3> QED BY <1>3, <2>2, <2>3, <3>2, <3>3, <3>4, <3>5, SettledBook
  <2>4. CASE next # "queue"
    <3>1. Same(tasks') /\ st' = st
      BY <1>6, <2>4 DEF Same
    <3>2. \A x \in Waiters' : x \in Waiters
      BY <1>1, <3>1 DEF Waiters
    <3>3. Served(r)
      BY <1>2, <2>1, <3>1
    <3> QED BY <2>2, <3>1, <3>2, <3>3, KeptBook
  <2> QED BY <2>3, <2>4
<1>7. CASE answer' = Answered({r}, "error") /\ UNCHANGED <<st, gen, tasks, queue>>
  <2>1. answer'[r] = "error" /\ \A x \in Requests : x # r => answer'[x] = answer[x]
    BY <1>7 DEF Answered
  <2>2. Same(tasks') /\ st' = st
    BY <1>7 DEF Same
  <2>3. \A x \in Waiters' : x \in Waiters
    BY <1>1, <2>2 DEF Waiters
  <2>4. Served(r)
    BY <1>2, <2>1, <2>2
  <2>5. Range(Messages(queue')) = Range(Messages(queue))
    BY <1>7
  <2> QED BY <2>2, <2>3, <2>4, <2>5, KeptBook
<1> QED BY <1>5, <1>6, <1>7 DEF Granted

LEMMA SendBook ==
    ASSUME Core, Core', Book, NEW r \in Requests, Send(r)
    PROVE  Book'
<1>1. /\ UNCHANGED <<registry, deferred, stopping, history, asked>> /\ Asked(r, {"send"})
      /\ IF leased
         THEN Granted(r, SendKind) /\ UNCHANGED wait
         ELSE /\ wait' = Claiming(SendKind, r)
              /\ UNCHANGED <<st, gen, tasks, queue, answer, faults, renumbered>>
  BY DEF Send
<1>2. /\ MailFits /\ Shrinks /\ wait = NoWait
      /\ asked[r] = "send" /\ r \notin RequestsIn(mailbox') /\ answer[r] = "none"
      /\ r # wait.req /\ r # st.req /\ r # 0 /\ r \notin Range(history)
  BY <1>1, SenderFacts
<1>3. PICK next \in {"busy", "queue", "send"} : next = SendKind /\ (next # "busy" => st = Idle)
  BY SendKindFacts
<1>4. CASE leased
  <2>1. Granted(r, next) /\ wait' = NoWait
    BY <1>1, <1>2, <1>3, <1>4
  <2>2. next # "busy" => Leftover(tasks, gen) /\ st = Idle
    <3>1. phase = "running"
      BY <1>1, AskedFacts
    <3> QED BY <1>3, <3>1, IdleFacts, LeftoverAtRest DEF Same
  <2> QED BY <1>1, <1>2, <2>1, <2>2, GrantedBook
<1>5. CASE ~leased
  <2>1. /\ wait' = Claiming(next, r)
        /\ UNCHANGED <<st, gen, tasks, queue, answer>>
    BY <1>1, <1>3, <1>5
  <2>2. wait'.req = r /\ wait'.waiters = {}
    BY <2>1, ClaimingFacts
  <2>3. Served(r)
    BY <1>2, <2>1, <2>2 DEF Served
  <2>4. Same(tasks') /\ st' = st /\ Range(Messages(queue')) = Range(Messages(queue))
    BY <2>1 DEF Same
  <2>5. \A x \in Waiters' : x \in Waiters
    BY <1>1, <2>1, <2>2 DEF Waiters
  <2> QED BY <1>1, <1>2, <2>3, <2>4, <2>5, KeptBook
<1> QED BY <1>4, <1>5

LEMMA SendClaimBook ==
    ASSUME Core, Core', Book, SendClaim
    PROVE  Book'
<1>1. /\ phase = "running" /\ wait.for = "claim" /\ wait' = NoWait
      /\ UNCHANGED <<phase, closed, mailbox, deferred, stopping, history, asked>>
      /\ IF leased
         THEN /\ answer' = Answered({wait.req}, "error")
              /\ UNCHANGED <<st, gen, tasks, queue, faults, renumbered>>
         ELSE Granted(wait.req, wait.next)
  BY DEF SendClaim, registry
<1>2. PICK next \in {"busy", "queue", "send"} : next = wait.next /\ (next # "busy" => st = Idle)
  BY <1>1 DEF Core, WaitInv
<1>3. PICK r \in Requests : r = wait.req
  BY <1>1 DEF Core, WaitInv
<1>4. r # 0
  BY RequestRange
<1>5. asked[r] = "send" /\ answer[r] = "none" /\ r # st.req /\ r \notin Range(history)
  BY <1>3, <1>4 DEF Book, KindInv, OwnInv
<1>6. MailFits /\ Shrinks /\ r \notin RequestsIn(mailbox')
  <2>1. MailFits
    BY <1>1, SameMail
  <2>2. r \notin RequestsIn(mailbox)
    BY <1>3, <1>5 DEF Book, OwnInv
  <2> QED BY <1>1, <2>1, <2>2 DEF Shrinks
<1>7. wait'.req = 0 /\ wait'.waiters = {}
  BY <1>1, NoWaitFacts
<1>8. CASE leased
  <2>1. answer' = Answered({r}, "error") /\ UNCHANGED <<st, gen, tasks, queue>>
    BY <1>1, <1>3, <1>8
  <2>2. answer'[r] = "error" /\ \A x \in Requests : x # r => answer'[x] = answer[x]
    BY <2>1 DEF Answered
  <2>3. Served(r)
    BY <1>3, <1>4, <1>5, <1>6, <1>7, <2>1, <2>2 DEF Served
  <2>4. Same(tasks') /\ st' = st /\ Range(Messages(queue')) = Range(Messages(queue))
    BY <2>1 DEF Same
  <2>5. \A x \in Waiters' : x \in Waiters
    BY <1>1, <2>1, <1>7 DEF Waiters
  <2> QED BY <1>1, <1>6, <2>3, <2>4, <2>5, KeptBook
<1>9. CASE ~leased
  <2>1. Granted(r, next)
    BY <1>1, <1>2, <1>3, <1>9
  <2>2. next # "busy" => Leftover(tasks, gen) /\ st = Idle
    BY <1>1, <1>2, IdleFacts, LeftoverAtRest DEF Same
  <2> QED BY <1>1, <1>5, <1>6, <2>1, <2>2, GrantedBook
<1> QED BY <1>8, <1>9

LEMMA AskerFacts ==
    ASSUME Core, Book, NEW r \in Requests, NEW kinds, Asked(r, kinds), "send" \notin kinds,
           "none" \notin kinds, UNCHANGED registry
    PROVE  /\ MailFits /\ Shrinks /\ wait = NoWait /\ wait.req = 0 /\ wait.waiters = {}
           /\ phase = "running" /\ asked[r] \notin {"send", "none"}
<1>1. Stays /\ wait = NoWait /\ phase = "running"
  BY AskedFacts
<1> QED BY <1>1, StaysMail, NoWaitFacts DEF Asked

LEMMA ReceiverFacts ==
    ASSUME Core, Book, NEW tag, Received(tag), UNCHANGED registry
    PROVE  MailFits /\ Shrinks /\ wait = NoWait /\ wait.req = 0 /\ wait.waiters = {}
BY ReceivedFacts, StaysMail, NoWaitFacts

(* Requests that are no user messages are answered. *)
AnswersFit ==
    \A x \in Requests : answer'[x] = answer[x] \/ (asked[x] \notin {"send", "none"} /\ answer'[x] # "started")

LEMMA OthersAnswered ==
    ASSUME NEW rs, NEW a, a # "started", answer' = Answered(rs, a),
           \A x \in rs : asked[x] \notin {"send", "none"}
    PROVE  AnswersFit
BY DEF AnswersFit, Answered

LEMMA WaiterKinds ==
    ASSUME Book
    PROVE  /\ \A x \in Waiters : asked[x] \notin {"send", "none"}
           /\ \A x \in wait.waiters \cup st.waiters \cup Range(deferred) : asked[x] \notin {"send", "none"}
BY DEF Book, KindInv, Waiters

LEMMA SettlesBook ==
    ASSUME Core, Core', Book, UNCHANGED <<history, asked, deferred, stopping>>, MailFits, AnswersFit,
           wait'.req = 0, wait'.waiters = {}, st'.req = 0, st'.waiters = {},
           NEW ts, \A t \in ts : t.kind = "stream", Draws(ts, queue'),
           Range(Messages(queue')) \subseteq Range(Messages(queue))
    PROVE  Book'
<1>1. Served(0)
  BY ServedNone DEF AnswersFit
<1>2. \A r \in Range(Messages(queue')) :
        r \in Range(Messages(queue)) \/ (r \in Requests /\ r = 0 /\ answer'[r] = "queued")
  OBVIOUS
<1>3. \A r \in Waiters' : r \in Waiters
  BY DEF Waiters
<1> QED BY <1>1, <1>2, <1>3, SettledBook

(* The handler waits for the session's tasks, which were told to end. *)
LEMMA JoiningBook ==
    ASSUME Core, Core', Book, UNCHANGED <<history, asked, answer, stopping>>, MailFits,
           NEW next \in {"cancel", "delete"}, NEW rs \in SUBSET Requests, wait' = Joining(next, rs),
           \A r \in rs : asked[r] \notin {"send", "none"},
           Range(deferred') \subseteq Range(deferred),
           st' = Idle, \A t \in tasks' : t.kind = "stream",
           Range(Messages(queue')) \subseteq Range(Messages(queue))
    PROVE  Book'
<1>1. wait'.req = 0 /\ wait'.waiters = rs /\ st'.req = 0 /\ st'.waiters = {}
  BY JoiningFacts, IdleFacts
<1>2. Served(0)
  BY <1>1, ServedNone
<1>3. \A r \in Range(Messages(queue')) :
        r \in Range(Messages(queue)) \/ (r \in Requests /\ r = 0 /\ answer'[r] = "queued")
  OBVIOUS
<1>4. \A r \in Waiters' : r \in Waiters \/ asked[r] \notin {"send", "none"}
  BY <1>1 DEF Waiters
<1>5. PICK ts : ts = tasks'
  OBVIOUS
<1>6. (\A t \in ts : t.kind = "stream") /\ Draws(ts, queue')
  BY <1>5 DEF Draws
<1> QED BY <1>1, <1>2, <1>3, <1>4, <1>6, SettledBook

LEMMA LeftoverStreams ==
    ASSUME NEW ts, NEW g, Leftover(ts, g) PROVE \A t \in ts : t.kind = "stream"
BY DEF Leftover

LEMMA ApproveBook ==
    ASSUME Core, Core', Book, NEW r \in Requests, Approve(r)
    PROVE  Book'
<1>1. /\ UNCHANGED <<registry, wait, deferred, stopping, queue, history, asked>> /\ Asked(r, {"approve"})
      /\ answer' = Answered({r}, IF st.kind = "approval" THEN "ok" ELSE "error")
      /\ IF st.kind = "approval" THEN StartScript ELSE UNCHANGED <<st, gen, tasks>>
  BY DEF Approve, store
<1>2. /\ MailFits /\ Shrinks /\ wait = NoWait /\ wait.req = 0 /\ wait.waiters = {}
      /\ phase = "running" /\ asked[r] \notin {"send", "none"}
  BY <1>1, AskerFacts
<1>3. AnswersFit
  BY <1>1, <1>2, OthersAnswered
<1>4. Range(Messages(queue')) = Range(Messages(queue))
  BY <1>1
<1>5. CASE st.kind = "approval"
  <2>1. \A t \in tasks : t.kind = "stream"
    BY <1>2, <1>5, LeftoverAtRest, LeftoverStreams DEF Same
  <2>2. Draws(tasks, queue')
    BY <1>1, <1>5, StartScriptDraws
  <2>3. st'.req = 0 /\ st'.waiters = {}
    <3>1. gen + 1 \in Nat /\ st' = Job("running", gen + 1)
      BY <1>1, <1>5 DEF Core, TypeOK, StartScript
    <3> QED BY <3>1, JobFacts
  <2> QED BY <1>1, <1>2, <1>3, <1>4, <2>1, <2>2, <2>3, SettlesBook
<1>6. CASE st.kind # "approval"
  <2>1. Same(tasks') /\ st' = st /\ Waiters' = Waiters
    BY <1>1, <1>6 DEF Same, Waiters
  <2> QED BY <1>1, <1>2, <1>3, <1>4, <2>1, QuietBook DEF AnswersFit
<1> QED BY <1>5, <1>6

LEMMA DenyBook ==
    ASSUME Core, Core', Book, NEW r \in Requests, Deny(r)
    PROVE  Book'
<1>1. /\ UNCHANGED <<registry, wait, deferred, stopping, queue, history, asked>> /\ Asked(r, {"deny"})
      /\ \/ /\ st.kind = "approval"
            /\ FinalizeScript(tasks) \/ FinishAndDrain(tasks, queue)
            /\ answer' = Answered({r}, "ok") \/ answer' = Answered({r}, "error")
         \/ /\ answer' = Answered({r}, "error")
            /\ UNCHANGED <<st, gen, tasks>>
  BY DEF Deny, store
<1>2. /\ MailFits /\ Shrinks /\ wait = NoWait /\ wait.req = 0 /\ wait.waiters = {}
      /\ phase = "running" /\ asked[r] \notin {"send", "none"}
  BY <1>1, AskerFacts
<1>3. AnswersFit
  BY <1>1, <1>2, OthersAnswered
<1>4. Range(Messages(queue')) = Range(Messages(queue)) /\ queue' = queue
  BY <1>1
<1>5. CASE st.kind = "approval" /\ (FinalizeScript(tasks) \/ FinishAndDrain(tasks, queue))
  <2>1. Leftover(tasks, gen)
    BY <1>2, <1>5, LeftoverAtRest DEF Same
  <2>2. \A t \in tasks : t.kind = "stream"
    BY <2>1, LeftoverStreams
  <2>3. Draws(tasks, queue')
    BY <1>4, <1>5, FinalizeScriptDraws, FinishAndDrainDraws DEF Core, TypeOK
  <2>4. st'.req = 0 /\ st'.waiters = {}
    BY <1>5, <2>1, FinalizeScriptSettles, FinishAndDrainSettles DEF Settles, Core, TypeOK
  <2> QED BY <1>1, <1>2, <1>3, <1>4, <2>2, <2>3, <2>4, SettlesBook
<1>6. CASE UNCHANGED <<st, gen, tasks>>
  <2>1. Same(tasks') /\ st' = st /\ Waiters' = Waiters
    BY <1>1, <1>6 DEF Same, Waiters
  <2> QED BY <1>1, <1>2, <1>3, <1>4, <2>1, QuietBook DEF AnswersFit
<1> QED BY <1>1, <1>5, <1>6

LEMMA DeleteSessionBook ==
    ASSUME Core, Core', Book, phase = "running", wait = NoWait, NEW r \in Requests, DeleteSession(r),
           asked[r] \notin {"send", "none"}, MailFits, Shrinks,
           UNCHANGED <<queue, history, asked, stopping>>, Range(deferred') \subseteq Range(deferred)
    PROVE  Book'
<1>1. wait.req = 0 /\ wait.waiters = {} /\ Range(Messages(queue')) = Range(Messages(queue))
  BY NoWaitFacts
<1>2. CASE answer' = Answered({r}, "error") /\ UNCHANGED <<st, tasks, wait>>
  <2>1. AnswersFit
    BY <1>2, OthersAnswered
  <2>2. Same(tasks') /\ st' = st /\ wait' = wait /\ \A x \in Waiters' : x \in Waiters
    BY <1>2 DEF Same, Waiters
  <2> QED BY <1>1, <2>1, <2>2, QuietBook DEF AnswersFit
<1>3. CASE /\ st.kind \in {"streaming", "idle"} /\ st' = Idle /\ tasks' = Told(st.gen)
           /\ wait' = Joining("delete", {r}) /\ answer' = answer
  <2>1. Leftover(Told(st.gen), gen)
    <3>1. CASE st.kind = "streaming"
      BY <3>1, LeftoverOnceTold
    <3>2. CASE st.kind = "idle"
      BY <3>2, LeftoverAtRest DEF Same
    <3> QED BY <3>1, <3>2, <1>3
  <2>2. \A t \in tasks' : t.kind = "stream"
    BY <1>3, <2>1, LeftoverStreams
  <2>3. {r} \in SUBSET Requests /\ \A x \in {r} : asked[x] \notin {"send", "none"}
    OBVIOUS
  <2> QED BY <1>1, <1>3, <2>2, <2>3, JoiningBook
<1> QED BY <1>2, <1>3 DEF DeleteSession

LEMMA DeleteBook ==
    ASSUME Core, Core', Book, NEW r \in Requests, Delete(r)
    PROVE  Book'
<1>1. /\ UNCHANGED <<registry, stopping, queue, history, asked>> /\ Asked(r, {"delete"})
  BY DEF Delete, store
<1>2. /\ MailFits /\ Shrinks /\ wait = NoWait /\ wait.req = 0 /\ wait.waiters = {}
      /\ phase = "running" /\ asked[r] \notin {"send", "none"}
  BY <1>1, AskerFacts
<1>3. CASE deferred' = Append(deferred, r) /\ UNCHANGED <<st, tasks, wait, answer>>
  <2>1. \A x \in Range(deferred') : x = r \/ x \in Range(deferred)
    <3>1. deferred \in Seq(Requests)
      BY DEF Core, TypeOK
    <3>2. /\ \A i \in DOMAIN deferred : Append(deferred, r)[i] = deferred[i]
          /\ \A i \in DOMAIN Append(deferred, r) : i = Len(deferred) + 1 \/ i \in DOMAIN deferred
          /\ Append(deferred, r)[Len(deferred) + 1] = r
      BY <3>1, AppendOf
    <3> QED BY <1>3, <3>2 DEF Range
  <2>2. \A x \in Waiters' : x \in Waiters \/ asked[x] \notin {"send", "none"}
    BY <1>2, <1>3, <2>1 DEF Waiters
  <2>3. Same(tasks') /\ st' = st /\ wait' = wait /\ Range(Messages(queue')) = Range(Messages(queue))
    BY <1>1, <1>3 DEF Same
  <2> QED BY <1>1, <1>2, <1>3, <2>2, <2>3, QuietBook
<1>4. CASE DeleteSession(r) /\ UNCHANGED deferred
  <2>1. Range(deferred') \subseteq Range(deferred)
    BY <1>4
  <2> QED BY <1>1, <1>2, <1>4, <2>1, DeleteSessionBook
<1> QED BY <1>3, <1>4 DEF Delete

LEMMA DeletePutOffBook ==
    ASSUME Core, Core', Book, DeletePutOff
    PROVE  Book'
<1>1. /\ mailbox' = mailbox /\ Awake /\ deferred # <<>>
      /\ deferred' = Tail(deferred) /\ DeleteSession(Head(deferred))
      /\ UNCHANGED <<stopping, queue, history, asked>>
  BY DEF DeletePutOff, PutOffDue, store
<1>2. phase = "running" /\ wait = NoWait
  BY <1>1 DEF Awake, Core, WaitInv
<1>3. /\ Head(deferred) \in Requests /\ Head(deferred) = deferred[1] /\ 1 \in DOMAIN deferred
      /\ \A i \in DOMAIN Tail(deferred) : i + 1 \in DOMAIN deferred /\ Tail(deferred)[i] = deferred[i + 1]
  BY <1>1, TailOf DEF Core, TypeOK
<1>4. PICK r \in Requests : r = Head(deferred)
  BY <1>3
<1>5. Range(deferred') \subseteq Range(deferred) /\ r \in Range(deferred)
  BY <1>1, <1>3, <1>4 DEF Range
<1>6. asked[r] \notin {"send", "none"}
  BY <1>5, WaiterKinds DEF Waiters
<1>7. MailFits /\ Shrinks
  BY <1>1, SameMail DEF Shrinks
<1> QED BY <1>1, <1>2, <1>4, <1>5, <1>6, <1>7, DeleteSessionBook

LEMMA StopBook ==
    ASSUME Core, Core', Book, Stop
    PROVE  Book'
<1>1. /\ UNCHANGED <<registry, st, wait, deferred, queue, history, asked, answer>> /\ stopping' = TRUE
      /\ Received("stop") /\ Same(tasks')
  BY DEF Stop, store, clients, Same
<1>2. MailFits /\ Shrinks
  BY <1>1, ReceiverFacts
<1>3. Waiters' = Waiters /\ Range(Messages(queue')) = Range(Messages(queue))
  BY <1>1 DEF Waiters
<1> QED BY <1>1, <1>2, <1>3, QuietBook

LEMMA StaleBook ==
    ASSUME Core, Core', Book, Stale
    PROVE  Book'
<1>1. UNCHANGED <<registry, st, wait, deferred, stopping, tasks, queue, history, asked, answer>>
  BY DEF Stale, actor, store, clients
<1>2. PICK tag \in DOMAIN Reports : Received(tag)
  BY DEF Stale
<1>3. MailFits /\ Shrinks
  BY <1>1, <1>2, ReceiverFacts
<1>4. Waiters' = Waiters /\ Range(Messages(queue')) = Range(Messages(queue)) /\ Same(tasks')
  BY <1>1 DEF Waiters, Same
<1> QED BY <1>1, <1>3, <1>4, QuietBook

LEMMA UnchangedBook ==
    ASSUME Book, UNCHANGED <<mailbox, st, wait, deferred, stopping, tasks, queue, history, asked, answer>>
    PROVE  Book'
<1>1. \A r : Copies(r)' = Copies(r)
  BY DEF Copies
<1>2. KindInv' /\ QueuedInv' /\ OwnInv'
  BY DEF Book, KindInv, QueuedInv, OwnInv
<1>3. PreparedInv'
  BY <1>1 DEF Book, PreparedInv, Copies
<1>4. StartedIsRecorded'
  BY <1>1 DEF Book, StartedIsRecorded
<1> QED BY <1>2, <1>3, <1>4 DEF Book

LEMMA ExitBook ==
    ASSUME Core, Core', Book, Exit
    PROVE  Book'
BY UnchangedBook DEF Exit, actor, store, clients

LEMMA LeaveBook ==
    ASSUME Core, Core', Book, Leave
    PROVE  Book'
<1>1. /\ phase = "exiting" /\ mailbox' = <<>>
      /\ answer' = Answered(RequestsIn(mailbox), "error")
      /\ UNCHANGED <<st, wait, deferred, stopping, tasks, queue, history, asked>>
  BY DEF Leave, actor, store
<1>2. wait = NoWait /\ wait.req = 0 /\ ~HasChild
  BY <1>1, NoWaitFacts DEF Core, PhaseInv
<1>3. st.req = 0
  BY <1>2 DEF Core, StateInv, HasChild
<1>4. DOMAIN mailbox' = {} /\ RequestsIn(mailbox') = {}
  <2>1. DOMAIN <<>> = {}
    BY EmptySeq
  <2> QED BY <1>1, <2>1 DEF RequestsIn
<1>5. \A r \in RequestsIn(mailbox) : asked[r] = "send" => answer[r] = "none" /\ r \notin Range(history)
  BY DEF Book, OwnInv
<1>6. /\ \A r \in Requests : r \notin RequestsIn(mailbox) => answer'[r] = answer[r]
      /\ \A r \in Requests : r \in RequestsIn(mailbox) => answer'[r] = "error"
  BY <1>1 DEF Answered
<1>7. \A r : Copies(r)' = Copies(r) /\ Copies(r) \in Nat /\ (r \notin Range(history) <=> Copies(r) = 0)
  <2> TAKE r
  <2>1. Copies(r)' = Copies(r)
    BY <1>1 DEF Copies
  <2> QED BY <2>1, CopiesFacts
<1>8. KindInv'
  BY <1>1, <1>4, <1>6 DEF Book, KindInv
<1>9. QueuedInv'
  <2>1. Range(Messages(queue)) \subseteq Requests
    BY MessagesTyped DEF Core, TypeOK
  <2>2. \A r \in Range(Messages(queue)) : asked[r] = "send" /\ answer[r] = "queued"
    BY DEF Book, QueuedInv
  <2>3. \A r \in Range(Messages(queue)) : answer'[r] = "queued"
    BY <1>5, <1>6, <2>1, <2>2
  <2>4. \A t \in tasks : t.kind # "prep"
    BY <1>1 DEF Core, PhaseInv
  <2> QED BY <1>1, <2>2, <2>3, <2>4 DEF QueuedInv
<1>10. OwnInv' /\ PreparedInv'
  BY <1>1, <1>2, <1>3, <1>4 DEF OwnInv, PreparedInv
<1>11. StartedIsRecorded'
  <2> SUFFICES ASSUME NEW r \in Requests
               PROVE  /\ answer'[r] = "started" => Copies(r) = 1
                      /\ answer'[r] = "error" /\ Copies(r) > 0 => stopping'
    BY <1>7 DEF StartedIsRecorded
  <2>1. /\ answer[r] = "started" => Copies(r) = 1
        /\ answer[r] = "error" /\ Copies(r) > 0 => stopping
    BY DEF Book, StartedIsRecorded
  <2>2. CASE r \notin RequestsIn(mailbox)
    BY <1>1, <1>6, <2>1, <2>2
  <2>3. CASE r \in RequestsIn(mailbox)
    <3>1. r \notin Range(history)
      BY <1>5, <2>3 DEF Book, KindInv
    <3> QED BY <1>6, <1>7, <2>3, <3>1
  <2> QED BY <2>2, <2>3
<1> QED BY <1>8, <1>9, <1>10, <1>11 DEF Book

LEMMA JoinedBook ==
    ASSUME Core, Core', Book, CancelJoined \/ DeleteJoined \/ DeleteFailed
    PROVE  Book'
<1>1. CASE CancelJoined
  <2>1. /\ UNCHANGED <<mailbox, deferred, stopping, queue, history, asked>>
        /\ Joined("cancel") /\ FinishAndDrain(tasks, queue) /\ answer' = Answered(wait.waiters, "ok")
    BY <1>1 DEF CancelJoined, store
  <2>2. wait' = NoWait /\ Leftover(tasks, gen)
    BY <2>1, JoinedFacts
  <2>3. wait'.req = 0 /\ wait'.waiters = {} /\ \A t \in tasks : t.kind = "stream"
    BY <2>2, NoWaitFacts, LeftoverStreams
  <2>4. st'.req = 0 /\ st'.waiters = {} /\ Draws(tasks, queue)
    BY <2>1, <2>2, FinishAndDrainSettles, FinishAndDrainDraws DEF Settles, Core, TypeOK
  <2>5. AnswersFit
    BY <2>1, OthersAnswered, WaiterKinds
  <2>6. MailFits /\ Draws(tasks, queue') /\ Range(Messages(queue')) = Range(Messages(queue))
    BY <2>1, <2>4, SameMail
  <2> QED BY <2>1, <2>3, <2>4, <2>5, <2>6, SettlesBook
<1>2. CASE DeleteJoined
  <2>1. /\ UNCHANGED <<mailbox, st, stopping, tasks, history, asked>>
        /\ queue' = <<>> /\ deferred' = <<>> /\ Joined("delete")
        /\ answer' = [r \in Requests |-> IF r \in wait.waiters THEN "ok"
                                         ELSE IF r \in Range(deferred) THEN "error" ELSE answer[r]]
    BY <1>2 DEF DeleteJoined
  <2>2. wait' = NoWait /\ wait'.req = 0 /\ wait'.waiters = {}
    BY <2>1, JoinedFacts, NoWaitFacts
  <2>3. AnswersFit
    BY <2>1, WaiterKinds DEF AnswersFit
  <2>4. Range(Messages(queue')) = {} /\ Range(deferred') = {}
    <3>1. DOMAIN <<>> = {}
      BY EmptySeq
    <3> QED BY <2>1, <3>1 DEF Range, Messages
  <2>5. Same(tasks') /\ st' = st /\ (\A x \in Waiters' : x \in Waiters) /\ MailFits /\ Shrinks
    BY <2>1, <2>2, <2>4, SameMail DEF Same, Waiters, Shrinks
  <2> QED BY <2>1, <2>2, <2>3, <2>4, <2>5, QuietBook DEF AnswersFit
<1>3. CASE DeleteFailed
  <2>1. /\ UNCHANGED <<mailbox, st, deferred, stopping, tasks, queue, history, asked>>
        /\ Joined("delete") /\ answer' = Answered(wait.waiters, "error")
    BY <1>3 DEF DeleteFailed, store
  <2>2. wait' = NoWait /\ wait'.req = 0 /\ wait'.waiters = {}
    BY <2>1, JoinedFacts, NoWaitFacts
  <2>3. AnswersFit
    BY <2>1, OthersAnswered, WaiterKinds
  <2>4. Same(tasks') /\ st' = st /\ (\A x \in Waiters' : x \in Waiters) /\ MailFits /\ Shrinks
        /\ Range(Messages(queue')) = Range(Messages(queue))
    BY <2>1, <2>2, SameMail DEF Same, Waiters, Shrinks
  <2> QED BY <2>1, <2>2, <2>3, <2>4, QuietBook DEF AnswersFit
<1> QED BY <1>1, <1>2, <1>3

LEMMA CancelBook ==
    ASSUME Core, Core', Book, NEW r \in Requests, Cancel(r)
    PROVE  Book'
<1> DEFINE clears == asked[r] = "cancelTurn" /\ leased
           kept == IF clears THEN <<>> ELSE queue
<1>1. /\ UNCHANGED <<registry, deferred, stopping, history, asked>>
      /\ queue' = kept /\ Asked(r, {"cancelStream", "cancelTurn"})
  BY DEF Cancel
<1>2. \/ /\ st.kind \in {"approval", "idle"}
         /\ FinishAndDrain(tasks, kept)
         /\ answer' = Answered({r}, "ok") \/ answer' = Answered({r}, "error")
         /\ UNCHANGED wait
      \/ /\ UNCHANGED <<st, tasks, wait>>
         /\ answer' = Answered({r}, "ok")
      \/ /\ tasks' = Told(st.gen)
         /\ st' = [st EXCEPT !.waiters = @ \cup {r}]
         /\ UNCHANGED <<wait, answer>>
      \/ /\ st' = [st EXCEPT !.cancelled = TRUE, !.waiters = @ \cup {r}]
         /\ UNCHANGED <<wait, tasks, answer>>
      \/ /\ st.kind = "streaming"
         /\ CancelStreamJob(tasks, st, {r}, answer)
  BY DEF Cancel
<1>3. /\ MailFits /\ Shrinks /\ wait = NoWait /\ wait.req = 0 /\ wait.waiters = {}
      /\ phase = "running" /\ asked[r] \notin {"send", "none"}
  BY <1>1, AskerFacts
<1>4. kept \in Seq(EntryType) /\ Range(Messages(kept)) \subseteq Range(Messages(queue))
  <2>1. <<>> \in Seq(EntryType) /\ DOMAIN <<>> = {}
    BY EmptySeq
  <2>2. Range(Messages(<<>>)) = {}
    BY <2>1 DEF Range, Messages
  <2> QED BY <2>1, <2>2 DEF Core, TypeOK
<1>5. Range(Messages(queue')) \subseteq Range(Messages(queue))
  BY <1>1, <1>4
<1> HIDE DEF kept, clears
<1>6. answer' = Answered({r}, "ok") \/ answer' = Answered({r}, "error") => AnswersFit
  BY <1>3, OthersAnswered
<1>7. CASE /\ st.kind \in {"approval", "idle"} /\ FinishAndDrain(tasks, kept)
           /\ answer' = Answered({r}, "ok") \/ answer' = Answered({r}, "error")
           /\ UNCHANGED wait
  <2>1. Leftover(tasks, gen)
    BY <1>3, <1>7, LeftoverAtRest DEF Same
  <2>2. \A t \in tasks : t.kind = "stream"
    BY <2>1, LeftoverStreams
  <2>3. st'.req = 0 /\ st'.waiters = {} /\ Draws(tasks, kept)
    BY <1>4, <1>7, <2>1, FinishAndDrainSettles, FinishAndDrainDraws DEF Settles
  <2>4. Draws(tasks, queue') /\ wait'.req = 0 /\ wait'.waiters = {}
    BY <1>1, <1>3, <1>7, <2>3
  <2> QED BY <1>1, <1>3, <1>5, <1>6, <1>7, <2>2, <2>3, <2>4, SettlesBook
<1>8. CASE UNCHANGED <<st, tasks, wait>> /\ answer' = Answered({r}, "ok")
  <2>1. Same(tasks') /\ st' = st /\ Waiters' = Waiters
    BY <1>1, <1>8 DEF Same, Waiters
  <2> QED BY <1>1, <1>3, <1>5, <1>6, <1>8, <2>1, QuietBook DEF AnswersFit
<1>9. ASSUME st'.req = st.req, st'.gen = st.gen, st'.waiters = st.waiters \cup {r}, Same(tasks'),
             UNCHANGED <<wait, answer>>
      PROVE  Book'
  <2>1. \A x \in Waiters' : x \in Waiters \/ asked[x] \notin {"send", "none"}
    BY <1>1, <1>3, <1>9 DEF Waiters
  <2> QED BY <1>1, <1>3, <1>5, <1>9, <2>1, QuietBook
<1>10. CASE /\ tasks' = Told(st.gen)
            /\ st' = [st EXCEPT !.waiters = @ \cup {r}]
            /\ UNCHANGED <<wait, answer>>
  <2>1. st'.req = st.req /\ st'.gen = st.gen /\ st'.waiters = st.waiters \cup {r}
    BY <1>10 DEF Core, TypeOK, JobType
  <2> QED BY <1>9, <1>10, <2>1 DEF Same
<1>11. CASE /\ st' = [st EXCEPT !.cancelled = TRUE, !.waiters = @ \cup {r}]
            /\ UNCHANGED <<wait, tasks, answer>>
  <2>1. st'.req = st.req /\ st'.gen = st.gen /\ st'.waiters = st.waiters \cup {r}
    BY <1>11 DEF Core, TypeOK, JobType
  <2> QED BY <1>9, <1>11, <2>1 DEF Same
<1>12. CASE /\ st.kind = "streaming" /\ st' = Idle
            /\ tasks' = {IF t.gen = st.gen THEN [t EXCEPT !.told = TRUE] ELSE t : t \in tasks}
            /\ wait' = Joining("cancel", {r}) /\ answer' = answer
  <2>1. tasks' = Told(st.gen)
    BY <1>12 DEF Told
  <2>2. Leftover(Told(st.gen), gen)
    BY <1>3, <1>12, LeftoverOnceTold
  <2>3. \A t \in tasks' : t.kind = "stream"
    BY <2>1, <2>2, LeftoverStreams
  <2>4. {r} \in SUBSET Requests /\ (\A x \in {r} : asked[x] \notin {"send", "none"})
        /\ Range(deferred') \subseteq Range(deferred)
    BY <1>1, <1>3
  <2> QED BY <1>1, <1>3, <1>5, <1>12, <2>3, <2>4, JoiningBook
<1>13. CASE /\ st' = st /\ tasks' = tasks /\ UNCHANGED wait
            /\ answer' = [s \in Requests |-> IF s \in {r} THEN "error" ELSE answer[s]]
  <2>1. AnswersFit
    BY <1>3, <1>13 DEF AnswersFit
  <2>2. Same(tasks') /\ Waiters' = Waiters
    BY <1>1, <1>13 DEF Same, Waiters
  <2> QED BY <1>1, <1>3, <1>5, <1>13, <2>1, <2>2, QuietBook DEF AnswersFit
<1> QED BY <1>2, <1>7, <1>8, <1>10, <1>11, <1>12, <1>13 DEF CancelStreamJob

(* The preparation of the current job has reported. *)
LEMMA PreparedFacts ==
    ASSUME Core, Book, NEW out, Reported("prepared", {out}), UNCHANGED registry
    PROVE  /\ MailFits /\ Shrinks /\ wait = NoWait /\ wait.req = 0 /\ wait.waiters = {}
           /\ Leftover(tasks, gen) /\ \A t \in tasks : t.kind = "stream"
           /\ st.req # 0 => /\ st.req \in Requests /\ asked[st.req] = "send" /\ answer[st.req] = "none"
                            /\ st.req \notin RequestsIn(mailbox')
                            /\ IF out = "ok" THEN Copies(st.req) = 1 ELSE st.req \notin Range(history)
<1>1. /\ Stays /\ mailbox # <<>> /\ Head(mailbox).out = out /\ wait = NoWait
      /\ Head(mailbox).n = st.gen /\ Leftover(tasks, gen)
  BY ReportedFacts
<1>2. Head(mailbox).tag = "prepared"
  BY DEF Reported, Received
<1>3. MailFits /\ Shrinks /\ wait.req = 0 /\ wait.waiters = {}
  BY <1>1, StaysMail, NoWaitFacts
<1>4. Head(mailbox) = mailbox[1] /\ 1 \in DOMAIN mailbox
  BY <1>1, TailOf DEF Core, TypeOK
<1>5. ASSUME st.req # 0
      PROVE  /\ st.req \in Requests /\ asked[st.req] = "send" /\ answer[st.req] = "none"
             /\ st.req \notin RequestsIn(mailbox')
             /\ IF out = "ok" THEN Copies(st.req) = 1 ELSE st.req \notin Range(history)
  <2>1. st.req \in Requests
    BY <1>5, SessionActorAssumption DEF Core, TypeOK, JobType, Requests
  <2>2. asked[st.req] = "send" /\ answer[st.req] = "none"
    BY <1>5 DEF Book, KindInv, OwnInv
  <2>3. st.req \notin RequestsIn(mailbox')
    BY <1>3, <2>2 DEF MailFits, Book, OwnInv
  <2>4. IF out = "ok" THEN Copies(st.req) = 1 ELSE st.req \notin Range(history)
    BY <1>1, <1>2, <1>4, <1>5 DEF Book, PreparedInv
  <2> QED BY <2>1, <2>2, <2>3, <2>4
<1> QED BY <1>1, <1>3, <1>5, LeftoverStreams

LEMMA PreparedAnswers ==
    ASSUME Core, Book, NEW a, answer' = PreparationAnswered(a)
    PROVE  /\ \A x \in Requests : asked[x] = "send" /\ x # st.req => answer'[x] = answer[x]
           /\ \A x \in Requests : asked[x] # "send" /\ answer'[x] = "started" => answer[x] = "started"
           /\ \A x \in Requests : asked[x] = "none" => answer'[x] = answer[x]
           /\ st.req \in Requests => answer'[st.req] = a
<1>1. \A x \in st.waiters : asked[x] \notin {"send", "none"}
  BY WaiterKinds
<1>2. \A x \in Requests : answer'[x] = IF x = st.req THEN a ELSE IF x \in st.waiters THEN "ok" ELSE answer[x]
  BY DEF PreparationAnswered
<1>3. st.req \in Requests => asked[st.req] = "send"
  BY RequestRange DEF Book, KindInv
<1> QED BY <1>1, <1>2, <1>3

LEMMA PreparedFailedBook ==
    ASSUME Core, Core', Book, PreparedFailed
    PROVE  Book'
<1>1. /\ UNCHANGED <<registry, wait, deferred, stopping, queue, history, asked>>
      /\ Reported("prepared", {"error"}) /\ answer' = PreparationAnswered("error")
      /\ \/ Retries /\ StartContinuation(tasks, TRUE)
         \/ Drain(tasks, queue)
         \/ Rest(tasks)
  BY DEF PreparedFailed, store
<1>2. /\ MailFits /\ wait.req = 0 /\ wait.waiters = {}
      /\ Leftover(tasks, gen) /\ \A t \in tasks : t.kind = "stream"
      /\ st.req # 0 => /\ st.req \in Requests /\ asked[st.req] = "send" /\ answer[st.req] = "none"
                       /\ st.req \notin RequestsIn(mailbox') /\ st.req \notin Range(history)
  BY <1>1, PreparedFacts
<1>3. st'.req = 0 /\ st'.waiters = {} /\ Draws(tasks, queue)
  <2>1. CASE Retries /\ StartContinuation(tasks, TRUE)
    <3>1. active
      <4>1. st.kind = "preparing" /\ phase = "running"
        BY <1>1, ReportedFacts DEF Reports
      <4> QED BY <2>1, <4>1 DEF Core, LeaseInv, Retries
    <3> QED BY <1>2, <2>1, <3>1, StartContinuationSettles, StartContinuationDraws DEF Settles
  <2>2. CASE Drain(tasks, queue)
    BY <1>2, <2>2, DrainMoves, DrainDraws DEF Core, TypeOK
  <2>3. CASE Rest(tasks)
    BY <1>2, <2>3, RestRests, RestDraws
  <2> QED BY <1>1, <2>1, <2>2, <2>3
<1>4. PICK s : s = st.req
  OBVIOUS
<1>5. Served(s)
  <2>1. /\ \A x \in Requests : asked[x] = "send" /\ x # s => answer'[x] = answer[x]
        /\ \A x \in Requests : asked[x] # "send" /\ answer'[x] = "started" => answer[x] = "started"
        /\ \A x \in Requests : asked[x] = "none" => answer'[x] = answer[x]
        /\ s \in Requests => answer'[s] = "error"
    BY <1>1, <1>4, PreparedAnswers
  <2>2. s \in Requests => s # 0
    BY RequestRange
  <2> QED BY <1>1, <1>2, <1>3, <1>4, <2>1, <2>2 DEF Served
<1>6. Draws(tasks, queue') /\ Range(Messages(queue')) = Range(Messages(queue))
  BY <1>1, <1>3
<1>7. \A x \in Waiters' : x \in Waiters
  BY <1>1, <1>3 DEF Waiters
<1> QED BY <1>1, <1>2, <1>3, <1>5, <1>6, <1>7, SettledBook

LEMMA PreparedStoppingBook ==
    ASSUME Core, Core', Book, PreparedStopping
    PROVE  Book'
<1>1. /\ UNCHANGED <<registry, wait, deferred, stopping, tasks, queue, history, asked>> /\ stopping
      /\ Reported("prepared", {"ok"}) /\ answer' = PreparationAnswered("error") /\ st' = Idle
  BY DEF PreparedStopping, store
<1>2. /\ MailFits /\ wait.req = 0 /\ wait.waiters = {}
      /\ \A t \in tasks : t.kind = "stream"
      /\ st.req # 0 => /\ st.req \in Requests /\ asked[st.req] = "send" /\ answer[st.req] = "none"
                       /\ st.req \notin RequestsIn(mailbox')
  BY <1>1, PreparedFacts
<1>3. st'.req = 0 /\ st'.waiters = {} /\ Draws(tasks, queue')
  BY <1>1, IdleFacts DEF Draws
<1>4. PICK s : s = st.req
  OBVIOUS
<1>5. Served(s)
  <2>1. /\ \A x \in Requests : asked[x] = "send" /\ x # s => answer'[x] = answer[x]
        /\ \A x \in Requests : asked[x] # "send" /\ answer'[x] = "started" => answer[x] = "started"
        /\ \A x \in Requests : asked[x] = "none" => answer'[x] = answer[x]
        /\ s \in Requests => answer'[s] = "error"
    BY <1>1, <1>4, PreparedAnswers
  <2>2. s \in Requests => s # 0
    BY RequestRange
  <2> QED BY <1>1, <1>2, <1>3, <1>4, <2>1, <2>2 DEF Served
<1>6. Range(Messages(queue')) = Range(Messages(queue))
  BY <1>1
<1>7. \A x \in Waiters' : x \in Waiters
  BY <1>1, <1>3 DEF Waiters
<1> QED BY <1>1, <1>2, <1>3, <1>5, <1>6, <1>7, SettledBook

LEMMA PreparedStartsBook ==
    ASSUME Core, Core', Book, PreparedStarts
    PROVE  Book'
<1> DEFINE new == Task("stream", gen + 1)
           ts == tasks \cup {new}
           job == Job("streaming", gen + 1)
           before == Answered({st.req}, "started")
<1>1. /\ UNCHANGED <<registry, deferred, stopping, queue, history, asked>>
      /\ Reported("prepared", {"ok"})
      /\ \/ CancelStreamJob(ts, job, st.waiters, before)
         \/ tasks' = ts /\ st' = job /\ answer' = before /\ wait' = wait
  BY DEF PreparedStarts, store
<1>2. /\ MailFits /\ wait = NoWait /\ wait.req = 0 /\ wait.waiters = {}
      /\ Leftover(tasks, gen) /\ \A t \in tasks : t.kind = "stream"
      /\ st.req # 0 => /\ st.req \in Requests /\ asked[st.req] = "send" /\ answer[st.req] = "none"
                       /\ st.req \notin RequestsIn(mailbox') /\ Copies(st.req) = 1
  BY <1>1, PreparedFacts
<1>3. gen + 1 \in Nat /\ st.waiters \in SUBSET Requests
  BY DEF Core, TypeOK, JobType
<1>4. new \in TaskType /\ new.kind = "stream"
  BY <1>3, TaskFacts
<1>5. job.req = 0 /\ job.waiters = {}
  BY <1>3, JobFacts
<1>6. PICK s : s = st.req
  OBVIOUS
<1>7. \A x \in Requests : before[x] = IF x = s THEN "started" ELSE answer[x]
  BY <1>6 DEF Answered
<1>8. /\ \A x \in st.waiters : asked[x] \notin {"send", "none"}
      /\ \A x \in Waiters : asked[x] \notin {"send", "none"}
  BY WaiterKinds
<1>9. ts \subseteq TaskType /\ \A t \in ts : t.kind = "stream"
  BY <1>2, <1>4 DEF Leftover
<1> HIDE DEF new, ts, job, before
<1>10. ASSUME st'.req = 0, st'.waiters = {}, wait'.req = 0, wait'.waiters \subseteq st.waiters,
              \A t \in tasks' : t.kind = "stream",
              \A x \in Requests : \/ answer'[x] = before[x]
                                  \/ asked[x] \notin {"send", "none"} /\ answer'[x] # "started"
       PROVE  Book'
  <2>1. s \in Requests => s # 0
    BY RequestRange
  <2>2. s # 0 => s \in Requests /\ asked[s] = "send"
    BY <1>2, <1>6
  <2>3. Served(s)
    BY <1>2, <1>6, <1>7, <1>10, <2>1, <2>2 DEF Served
  <2>4. PICK us : us = tasks'
    OBVIOUS
  <2>5. (\A t \in us : t.kind = "stream") /\ Draws(us, queue')
    BY <1>10, <2>4 DEF Draws
  <2>6. \A x \in Waiters' : x \in Waiters
    BY <1>1, <1>10 DEF Waiters
  <2>7. Range(Messages(queue')) = Range(Messages(queue))
    BY <1>1
  <2> QED BY <1>1, <1>2, <1>10, <2>3, <2>5, <2>6, <2>7, SettledBook
<1>11. CASE tasks' = ts /\ st' = job /\ answer' = before /\ wait' = wait
  BY <1>2, <1>5, <1>9, <1>10, <1>11
<1>12. CASE /\ st' = job /\ tasks' = ts /\ wait' = wait
            /\ answer' = [x \in Requests |-> IF x \in st.waiters THEN "error" ELSE before[x]]
  <2>1. \A x \in Requests : \/ answer'[x] = before[x]
                            \/ asked[x] \notin {"send", "none"} /\ answer'[x] # "started"
    BY <1>8, <1>12
  <2> QED BY <1>2, <1>5, <1>9, <1>10, <1>12, <2>1
<1>13. CASE /\ st' = Idle
            /\ tasks' = {IF t.gen = job.gen THEN [t EXCEPT !.told = TRUE] ELSE t : t \in ts}
            /\ wait' = Joining("cancel", st.waiters)
            /\ answer' = before
  <2>1. tasks' = {Tell(t, job.gen) : t \in ts}
    BY <1>13 DEF Tell
  <2>2. \A t \in tasks' : t.kind = "stream"
    BY <1>9, <2>1, TellFacts
  <2>3. wait'.req = 0 /\ wait'.waiters = st.waiters /\ st'.req = 0 /\ st'.waiters = {}
    BY <1>3, <1>13, JoiningFacts, IdleFacts
  <2> QED BY <1>10, <1>13, <2>2, <2>3
<1> QED BY <1>1, <1>11, <1>12, <1>13 DEF CancelStreamJob

LEMMA StreamEventFailedBook ==
    ASSUME Core, Core', Book, StreamEventFailed
    PROVE  Book'
<1>1. /\ UNCHANGED <<registry, wait, deferred, stopping, queue, history, asked, answer>>
      /\ Received("event") /\ Current("event", Head(mailbox).n)
      /\ StreamFailed(Told(st.gen))
  BY DEF StreamEventFailed, store, clients, Reported
<1>2. MailFits /\ wait.req = 0 /\ wait.waiters = {}
  BY <1>1, ReceiverFacts
<1>3. Leftover(Told(st.gen), gen)
  <2>1. st.kind = "streaming" /\ phase = "running"
    BY <1>1, ReceivedFacts DEF Current, Reports
  <2> QED BY <2>1, LeftoverOnceTold
<1>4. \A t \in Told(st.gen) : t.kind = "stream"
  BY <1>3, LeftoverStreams
<1>5. PICK ts : ts = Told(st.gen)
  OBVIOUS
<1>6. st'.req = 0 /\ st'.waiters = {} /\ Draws(ts, queue)
  BY <1>1, <1>3, <1>5, StreamFailedSettles, StreamFailedDraws DEF Settles
<1>7. Draws(ts, queue') /\ Range(Messages(queue')) = Range(Messages(queue)) /\ AnswersFit
  BY <1>1, <1>6 DEF AnswersFit
<1> QED BY <1>1, <1>2, <1>4, <1>5, <1>6, <1>7, SettlesBook

LEMMA StreamEndedBook ==
    ASSUME Core, Core', Book, StreamEnded
    PROVE  Book'
<1>1. /\ UNCHANGED <<registry, wait, deferred, stopping, queue, history, asked, answer>>
      /\ Reported("streamEnded", {"text", "result", "prompt", "run", "error", "stopped"})
      /\ \/ Rest(tasks)
         \/ FinishAndDrain(tasks, queue)
         \/ FinalizeScript(tasks)
         \/ st' = Job("approval", 0) /\ tasks' = tasks
         \/ StartScript
         \/ StreamFailed(tasks)
  BY DEF StreamEnded, store, clients
<1>2. Stays /\ wait = NoWait /\ Leftover(tasks, gen)
  BY <1>1, ReportedFacts
<1>3. MailFits /\ wait.req = 0 /\ wait.waiters = {} /\ \A t \in tasks : t.kind = "stream"
  BY <1>2, StaysMail, NoWaitFacts, LeftoverStreams
<1>4. st'.req = 0 /\ st'.waiters = {} /\ Draws(tasks, queue)
  <2>1. CASE Rest(tasks)
    BY <1>2, <2>1, RestRests, RestDraws
  <2>2. CASE FinishAndDrain(tasks, queue)
    BY <1>2, <2>2, FinishAndDrainSettles, FinishAndDrainDraws DEF Settles, Core, TypeOK
  <2>3. CASE FinalizeScript(tasks)
    BY <1>2, <2>3, FinalizeScriptSettles, FinalizeScriptDraws DEF Settles
  <2>4. CASE st' = Job("approval", 0) /\ tasks' = tasks
    BY <2>4, JobFacts DEF Draws
  <2>5. CASE StartScript
    <3>1. gen + 1 \in Nat /\ st' = Job("running", gen + 1)
      BY <2>5 DEF Core, TypeOK, StartScript
    <3> QED BY <2>5, <3>1, JobFacts, StartScriptDraws
  <2>6. CASE StreamFailed(tasks)
    BY <1>2, <2>6, StreamFailedSettles, StreamFailedDraws DEF Settles
  <2> QED BY <1>1, <2>1, <2>2, <2>3, <2>4, <2>5, <2>6
<1>5. Draws(tasks, queue') /\ Range(Messages(queue')) = Range(Messages(queue)) /\ AnswersFit
  BY <1>1, <1>4 DEF AnswersFit
<1> QED BY <1>1, <1>3, <1>4, <1>5, SettlesBook

LEMMA ScriptEndedBook ==
    ASSUME Core, Core', Book, ScriptEnded
    PROVE  Book'
<1>1. /\ UNCHANGED <<registry, wait, deferred, stopping, queue, history, asked>>
      /\ Reported("scriptEnded", {"ok", "error"})
      /\ answer' = Answered(st.waiters, "ok")
      /\ FinalizeScript(tasks) \/ FinishAndDrain(tasks, queue)
  BY DEF ScriptEnded, store
<1>2. Stays /\ wait = NoWait /\ Leftover(tasks, gen)
  BY <1>1, ReportedFacts
<1>3. MailFits /\ wait.req = 0 /\ wait.waiters = {} /\ \A t \in tasks : t.kind = "stream"
  BY <1>2, StaysMail, NoWaitFacts, LeftoverStreams
<1>4. st'.req = 0 /\ st'.waiters = {} /\ Draws(tasks, queue)
  <2>1. CASE FinishAndDrain(tasks, queue)
    BY <1>2, <2>1, FinishAndDrainSettles, FinishAndDrainDraws DEF Settles, Core, TypeOK
  <2>2. CASE FinalizeScript(tasks)
    BY <1>2, <2>2, FinalizeScriptSettles, FinalizeScriptDraws DEF Settles
  <2> QED BY <1>1, <2>1, <2>2
<1>5. AnswersFit
  BY <1>1, OthersAnswered, WaiterKinds
<1>6. Draws(tasks, queue') /\ Range(Messages(queue')) = Range(Messages(queue))
  BY <1>1, <1>4
<1> QED BY <1>1, <1>3, <1>4, <1>5, <1>6, SettlesBook

-----------------------------------------------------------------------------
(* The steps beside the actor.                                             *)

(* A step beside the actor that writes nothing into the history. *)
LEMMA BesideBook ==
    ASSUME Core, Core', Book, UNCHANGED <<st, wait, deferred, stopping, queue, history, asked, answer>>,
           \A u \in tasks' : \E t \in tasks : u.kind = t.kind /\ u.gen = t.gen /\ u.take = t.take,
           NEW m \in MessageType, m.tag # "request", mailbox' = mailbox \/ Post(m),
           m.tag = "prepared" /\ m.n = st.gen /\ st.req # 0 => m.out # "ok" /\ st.req \notin Range(history)
    PROVE  Book'
<1>1. MailFits
  BY SameMail, PostedMail
<1>2. \A i \in DOMAIN mailbox' : (\E j \in DOMAIN mailbox : mailbox'[i] = mailbox[j]) \/ mailbox'[i] = m
  BY PostFacts
<1>3. PreparedInv'
  <2> SUFFICES ASSUME st.req # 0
               PROVE  /\ \A t \in tasks' : t.gen = st.gen => t.take = <<st.req>> /\ st.req \notin Range(history)
                      /\ \A i \in DOMAIN mailbox' : mailbox'[i].tag = "prepared" /\ mailbox'[i].n = st.gen =>
                            IF mailbox'[i].out = "ok" THEN Copies(st.req) = 1 ELSE st.req \notin Range(history)
    BY DEF PreparedInv, Copies
  <2>1. /\ \A t \in tasks : t.gen = st.gen => t.take = <<st.req>> /\ st.req \notin Range(history)
        /\ \A i \in DOMAIN mailbox : mailbox[i].tag = "prepared" /\ mailbox[i].n = st.gen =>
              IF mailbox[i].out = "ok" THEN Copies(st.req) = 1 ELSE st.req \notin Range(history)
    BY DEF Book, PreparedInv
  <2> QED BY <1>2, <2>1
<1>4. Served(0)
  <2>1. wait'.req \in {0, wait.req} /\ st'.req \in {0, st.req}
    OBVIOUS
  <2>2. \A x \in Requests : \/ answer'[x] = answer[x]
                            \/ asked[x] \notin {"send", "none"} /\ answer'[x] # "started"
    OBVIOUS
  <2> QED BY <2>1, <2>2, ServedNone
<1>5. Takes(0)
  BY DEF Takes
<1>6. \A r \in Waiters' : asked[r] \notin {"send", "none"}
  <2>1. \A r \in Waiters' : r \in Waiters \/ asked[r] \notin {"send", "none"}
    BY DEF Waiters
  <2> QED BY <2>1, WaitersFit
<1>7. \A r \in Range(Messages(queue')) :
        r \in Range(Messages(queue)) \/ (r \in Requests /\ r = 0 /\ answer'[r] = "queued")
  OBVIOUS
<1> QED BY <1>1, <1>3, <1>4, <1>5, <1>6, <1>7, BookKeeps

LEMMA ReportBook ==
    ASSUME Core, Core', Book, UNCHANGED <<st, wait, deferred, stopping, queue, history, asked, answer>>,
           NEW t \in tasks, NEW tag \in {"prepared", "streamEnded", "scriptEnded"},
           NEW out \in {"error", "ok", "stopped", "text", "result", "prompt", "run"},
           tag = "prepared" => out # "ok",
           Report(t, tag, out)
    PROVE  Book'
<1>1. PICK m \in MessageType : m = Message(tag, t.gen, out) /\ m.tag = tag /\ m.n = t.gen /\ m.out = out
  <2>1. t.gen \in Nat
    BY TaskOf
  <2> QED BY <2>1, MessageFacts
<1>2. \A u \in tasks' : \E v \in tasks : u.kind = v.kind /\ u.gen = v.gen /\ u.take = v.take
  BY DEF Report
<1>3. mailbox' = mailbox \/ Post(m)
  BY <1>1 DEF Report
<1>4. m.tag = "prepared" /\ m.n = st.gen /\ st.req # 0 => m.out # "ok" /\ st.req \notin Range(history)
  BY <1>1 DEF Book, PreparedInv
<1>5. m.tag # "request"
  BY <1>1
<1> QED BY <1>2, <1>3, <1>4, <1>5, BesideBook

LEMMA BecomesBook ==
    ASSUME Core, Core', Book, UNCHANGED <<st, wait, deferred, stopping, queue, history, asked, answer>>,
           NEW t \in tasks, NEW u \in TaskType, Becomes(t, u),
           u.kind = t.kind, u.gen = t.gen, u.take = t.take,
           mailbox' = mailbox \/ Post(Message("event", t.gen, "error"))
    PROVE  Book'
<1>1. PICK m \in MessageType : m = Message("event", t.gen, "error") /\ m.tag = "event"
  <2>1. t.gen \in Nat
    BY TaskOf
  <2> QED BY <2>1, MessageFacts
<1>2. \A v \in tasks' : \E w \in tasks : v.kind = w.kind /\ v.gen = w.gen /\ v.take = w.take
  BY DEF Becomes
<1>3. mailbox' = mailbox \/ Post(m)
  BY <1>1
<1> QED BY <1>1, <1>2, <1>3, BesideBook

LEMMA StopAllBook ==
    ASSUME Core, Core', Book, StopAll PROVE Book'
<1>1. /\ UNCHANGED <<st, wait, deferred, stopping, tasks, queue, history, asked, answer>>
      /\ mailbox' = mailbox \/ Post(Message("stop", 0, "none"))
  BY DEF StopAll, actor, store, clients
<1>2. PICK m \in MessageType : m = Message("stop", 0, "none") /\ m.tag = "stop"
  BY MessageFacts
<1>3. mailbox' = mailbox \/ Post(m)
  BY <1>1, <1>2
<1>4. \A v \in tasks' : \E w \in tasks : v.kind = w.kind /\ v.gen = w.gen /\ v.take = w.take
  BY <1>1
<1> QED BY <1>1, <1>2, <1>3, <1>4, BesideBook

LEMMA PrepareOwnsBook ==
    ASSUME Core, Core', Book, NEW t \in tasks, PrepareOwns(t) PROVE Book'
<1> DEFINE step == IF leased THEN "commit" ELSE "claim"
           u == [t EXCEPT !.step = step]
<1>1. /\ Becomes(t, u) /\ mailbox' = mailbox
      /\ UNCHANGED <<st, wait, deferred, stopping, queue, history, asked, answer>>
  BY DEF PrepareOwns, actor, store, clients
<1>2. step \in {"commit", "claim"}
  OBVIOUS
<1> HIDE DEF step
<1>3. u \in TaskType /\ u.kind = t.kind /\ u.gen = t.gen /\ u.take = t.take
  BY <1>2, TaskOf DEF TaskType
<1> HIDE DEF u
<1> QED BY <1>1, <1>3, BecomesBook

LEMMA PrepareClaimBook ==
    ASSUME Core, Core', Book, NEW t \in tasks, PrepareClaim(t) PROVE Book'
<1> DEFINE u == [t EXCEPT !.step = "commit", !.newly = TRUE]
<1>1. /\ Report(t, "prepared", "error") \/ (Becomes(t, u) /\ mailbox' = mailbox)
      /\ UNCHANGED <<st, wait, deferred, stopping, queue, history, asked, answer>>
  BY DEF PrepareClaim, actor, store, clients
<1>2. u \in TaskType /\ u.kind = t.kind /\ u.gen = t.gen /\ u.take = t.take
  BY TaskOf DEF TaskType
<1> HIDE DEF u
<1>3. CASE Report(t, "prepared", "error")
  BY <1>1, <1>3, ReportBook
<1>4. CASE Becomes(t, u) /\ mailbox' = mailbox
  BY <1>1, <1>2, <1>4, BecomesBook
<1> QED BY <1>1, <1>3, <1>4

LEMMA PrepareFailBook ==
    ASSUME Core, Core', Book, NEW t \in tasks, PrepareFail(t) PROVE Book'
<1>1. /\ Report(t, "prepared", "error")
      /\ UNCHANGED <<st, wait, deferred, stopping, queue, history, asked, answer>>
  BY DEF PrepareFail, actor, store, clients
<1> QED BY <1>1, ReportBook

LEMMA StreamEndBook ==
    ASSUME Core, Core', Book, NEW t \in tasks, StreamEnd(t) PROVE Book'
<1>1. UNCHANGED <<st, wait, deferred, stopping, queue, history, asked, answer>>
  BY DEF StreamEnd, actor, store, clients
<1>2. PICK out \in {"stopped", "text", "error", "result", "prompt", "run"} : Report(t, "streamEnded", out)
  BY DEF StreamEnd
<1> QED BY <1>1, <1>2, ReportBook

LEMMA StreamEventBook ==
    ASSUME Core, Core', Book, NEW t \in tasks, StreamEvent(t) PROVE Book'
<1> DEFINE u == [t EXCEPT !.step = "failing"]
<1>1. /\ Becomes(t, u) /\ Post(Message("event", t.gen, "error"))
      /\ UNCHANGED <<st, wait, deferred, stopping, queue, history, asked, answer>>
  BY DEF StreamEvent, actor, store, clients
<1>2. u \in TaskType /\ u.kind = t.kind /\ u.gen = t.gen /\ u.take = t.take
  BY TaskOf DEF TaskType
<1> HIDE DEF u
<1> QED BY <1>1, <1>2, BecomesBook

LEMMA ScriptEndBook ==
    ASSUME Core, Core', Book, NEW t \in tasks, ScriptEnd(t) PROVE Book'
<1>1. UNCHANGED <<st, wait, deferred, stopping, queue, history, asked, answer>>
  BY DEF ScriptEnd, actor, store, clients
<1>2. PICK out \in {"ok", "error"} : Report(t, "scriptEnded", out)
  BY DEF ScriptEnd
<1> QED BY <1>1, <1>2, ReportBook

(* What a preparation adds to the history. *)
LEMMA HistoryGrows ==
    ASSUME Core, NEW take \in Seq(Requests), history' = history \o take
    PROVE  /\ Range(history') = Range(history) \cup Range(take)
           /\ \A r : r \notin Range(take) => Copies(r)' = Copies(r)
           /\ \A r : take = <<r>> /\ r \notin Range(history) => Copies(r)' = 1
<1>1. /\ history \in Seq(Requests) /\ DOMAIN history = 1..Len(history) /\ Len(history) \in Nat
      /\ DOMAIN take = 1..Len(take) /\ Len(take) \in Nat
  BY LenProperties DEF Core, TypeOK
<1>2. /\ Len(history') = Len(history) + Len(take) /\ history' \in Seq(Requests)
      /\ \A i \in 1..Len(history) + Len(take) :
            history'[i] = IF i <= Len(history) THEN history[i] ELSE take[i - Len(history)]
  BY <1>1, ConcatProperties
<1>3. DOMAIN history' = 1..Len(history) + Len(take)
  BY <1>2, LenProperties
<1>4. /\ \A i \in DOMAIN history : i \in DOMAIN history' /\ history'[i] = history[i]
      /\ \A i \in DOMAIN take : i + Len(history) \in DOMAIN history' /\ history'[i + Len(history)] = take[i]
      /\ \A i \in DOMAIN history' : \/ i \in DOMAIN history
                                    \/ i - Len(history) \in DOMAIN take /\ history'[i] = take[i - Len(history)]
  <2>1. \A i \in DOMAIN history : i \in DOMAIN history' /\ history'[i] = history[i]
    BY <1>1, <1>2, <1>3
  <2>2. \A i \in DOMAIN take : i + Len(history) \in DOMAIN history' /\ history'[i + Len(history)] = take[i]
    <3> TAKE i \in DOMAIN take
    <3>1. i \in Nat /\ i + Len(history) \in 1..Len(history) + Len(take) /\ ~(i + Len(history) <= Len(history))
          /\ i + Len(history) - Len(history) = i
      BY <1>1
    <3> QED BY <1>2, <1>3, <3>1
  <2>3. \A i \in DOMAIN history' : \/ i \in DOMAIN history
                                   \/ i - Len(history) \in DOMAIN take /\ history'[i] = take[i - Len(history)]
    BY <1>1, <1>2, <1>3
  <2> QED BY <2>1, <2>2, <2>3
<1>5. Range(history') = Range(history) \cup Range(take)
  <2>1. \A x \in Range(history') : x \in Range(history) \cup Range(take)
    BY <1>4 DEF Range
  <2>2. \A x \in Range(history) : x \in Range(history')
    BY <1>4 DEF Range
  <2>3. \A x \in Range(take) : x \in Range(history')
    <3> TAKE x \in Range(take)
    <3>1. PICK i \in DOMAIN take : x = take[i]
      BY DEF Range
    <3>2. i + Len(history) \in DOMAIN history' /\ history'[i + Len(history)] = x
      BY <1>4, <3>1
    <3> QED BY <3>2 DEF Range
  <2> QED BY <2>1, <2>2, <2>3
<1>6. ASSUME NEW r, r \notin Range(take) PROVE Copies(r)' = Copies(r)
  <2>1. {i \in DOMAIN history' : history'[i] = r} = {i \in DOMAIN history : history[i] = r}
    BY <1>4, <1>6 DEF Range
  <2> QED BY <2>1 DEF Copies
<1>7. ASSUME NEW r, take = <<r>>, r \notin Range(history) PROVE Copies(r)' = 1
  <2>1. DOMAIN take = {1} /\ take[1] = r
    BY <1>7
  <2>2. {i \in DOMAIN history' : history'[i] = r} = {1 + Len(history)}
    <3>1. \A i \in DOMAIN history : history[i] # r
      BY <1>7 DEF Range
    <3>2. \A i \in DOMAIN history' : history'[i] = r => i = 1 + Len(history)
      <4> TAKE i \in DOMAIN history'
      <4> HAVE history'[i] = r
      <4>1. i - Len(history) \in DOMAIN take
        BY <1>4, <3>1
      <4>2. i - Len(history) = 1
        BY <2>1, <4>1
      <4>3. i \in Int
        BY <1>1, <1>3
      <4> QED BY <1>1, <4>2, <4>3
    <3>3. 1 + Len(history) \in DOMAIN history' /\ history'[1 + Len(history)] = r
      BY <1>4, <2>1
    <3> QED BY <3>2, <3>3
  <2> QED BY <2>2, FS_Singleton DEF Copies
<1> QED BY <1>5, <1>6, <1>7

LEMMA ConsumedFacts ==
    ASSUME Core, NEW through \in Int
    PROVE  \E n \in Nat :
              /\ n = Cardinality({i \in DOMAIN queue : queue[i].seq <= through})
              /\ \A i \in DOMAIN Consumed(through) :
                    i \in Nat /\ i > 0 /\ n + i \in DOMAIN queue /\ Consumed(through)[i] = queue[n + i]
              /\ \A j \in DOMAIN queue : j > n =>
                    j - n \in DOMAIN Consumed(through) /\ Consumed(through)[j - n] = queue[j]
<1> DEFINE S == {i \in DOMAIN queue : queue[i].seq <= through}
           n == Cardinality(S)
<1>1. queue \in Seq(EntryType) /\ Len(queue) \in Nat /\ DOMAIN queue = 1..Len(queue)
      /\ \A i \in 1..Len(queue) : queue[i] \in EntryType
  BY LenProperties DEF Core, TypeOK
<1>2. n \in Nat
  <2>1. IsFiniteSet(1..Len(queue))
    BY <1>1, FS_Interval
  <2> QED BY <1>1, <2>1, FS_Subset, FS_CardinalityType
<1>3. n = Cardinality({i \in DOMAIN queue : queue[i].seq <= through})
  OBVIOUS
<1> HIDE DEF n
<1>4. \A i \in 1 + n..Len(queue) : queue[i] \in EntryType
  BY <1>1, <1>2
<1>5. /\ \A i \in 1..Len(SubSeq(queue, 1 + n, Len(queue))) :
            SubSeq(queue, 1 + n, Len(queue))[i] = queue[1 + n + i - 1]
      /\ Len(SubSeq(queue, 1 + n, Len(queue))) = IF 1 + n <= Len(queue) THEN Len(queue) - (1 + n) + 1 ELSE 0
      /\ SubSeq(queue, 1 + n, Len(queue)) \in Seq(EntryType)
  BY <1>1, <1>2, <1>4, SubSeqProperties
<1>6. Consumed(through) = SubSeq(queue, 1 + n, Len(queue))
  BY DEF Consumed, n
<1>7. DOMAIN Consumed(through) = 1..Len(Consumed(through))
  BY <1>5, <1>6, LenProperties
<1>8. Len(Consumed(through)) = IF 1 + n <= Len(queue) THEN Len(queue) - (1 + n) + 1 ELSE 0
  BY <1>5, <1>6
<1>9. ASSUME NEW i \in DOMAIN Consumed(through)
      PROVE  i \in Nat /\ i > 0 /\ n + i \in DOMAIN queue /\ Consumed(through)[i] = queue[n + i]
  <2>1. i \in Nat /\ i >= 1 /\ i <= Len(Consumed(through))
    BY <1>5, <1>6, <1>7, LenProperties
  <2>2. 1 + n <= Len(queue)
    BY <1>8, <2>1
  <2>3. Len(Consumed(through)) = Len(queue) - n
    BY <1>1, <1>2, <1>8, <2>2
  <2>4. n + i \in DOMAIN queue /\ 1 + n + i - 1 = n + i
    BY <1>1, <1>2, <2>1, <2>3
  <2>5. Consumed(through)[i] = queue[n + i]
    BY <1>5, <1>6, <1>7, <2>4
  <2> QED BY <2>1, <2>4, <2>5
<1>10. ASSUME NEW j \in DOMAIN queue, j > n
       PROVE  j - n \in DOMAIN Consumed(through) /\ Consumed(through)[j - n] = queue[j]
  <2>1. j \in Nat /\ j <= Len(queue) /\ 1 + n <= Len(queue)
    BY <1>1, <1>2, <1>10
  <2>2. Len(Consumed(through)) = Len(queue) - n
    BY <1>1, <1>2, <1>8, <2>1
  <2>3. j - n \in 1..Len(Consumed(through))
    BY <1>1, <1>2, <1>10, <2>1, <2>2
  <2>4. j - n \in DOMAIN Consumed(through) /\ n + (j - n) = j
    BY <1>2, <1>7, <2>1, <2>3
  <2> QED BY <1>9, <2>4
<1> QED BY <1>2, <1>3, <1>9, <1>10

LEMMA ConsumedRange ==
    ASSUME Core, NEW through \in Int
    PROVE  Range(Messages(Consumed(through))) \subseteq Range(Messages(queue))
<1>1. \A i \in DOMAIN Consumed(through) : \E j \in DOMAIN queue : Consumed(through)[i] = queue[j]
  BY ConsumedFacts
<1> QED BY <1>1 DEF Range, Messages

LEMMA PrepareCommitBook ==
    ASSUME Core, Core', Book, NEW t \in tasks, PrepareCommit(t)
    PROVE  Book'
<1>1. /\ t.kind = "prep" /\ Report(t, "prepared", "ok")
      /\ history' = history \o t.take /\ queue' = Consumed(t.through)
      /\ UNCHANGED <<st, wait, deferred, stopping, asked, answer>>
  BY DEF PrepareCommit, actor, clients
<1>2. t.take \in Seq(Requests) /\ t.through \in Int /\ t.gen \in Nat
  BY TaskOf DEF TaskType
<1>3. PICK m \in MessageType : /\ m = Message("prepared", t.gen, "ok") /\ m.tag = "prepared"
                               /\ m.n = t.gen /\ m.out = "ok"
  BY <1>2, MessageFacts
<1>4. phase = "running" /\ t.gen = st.gen
  BY <1>1 DEF Core, PhaseInv, JobInv
<1>5. Post(m) /\ tasks' = tasks \ {t}
  BY <1>1, <1>3, <1>4 DEF Report
<1>6. \A i \in DOMAIN mailbox' : (i \in DOMAIN mailbox /\ mailbox'[i] = mailbox[i]) \/ mailbox'[i] = m
  BY <1>5, PostFacts
<1>7. MailFits
  BY <1>3, <1>5, PostedMail
<1>8. /\ Range(history') = Range(history) \cup Range(t.take)
      /\ \A r : r \notin Range(t.take) => Copies(r)' = Copies(r)
      /\ \A r : t.take = <<r>> /\ r \notin Range(history) => Copies(r)' = 1
  <2>1. PICK take \in Seq(Requests) : take = t.take
    BY <1>2
  <2> QED BY <1>1, <2>1, HistoryGrows
<1>9. \A r \in Range(t.take) : asked[r] = "send" /\ (answer[r] = "queued" \/ r = st.req)
  BY <1>1 DEF Book, QueuedInv
<1>10. st.req # 0 => answer[st.req] = "none"
  BY DEF Book, OwnInv
<1>11. \A r \in Requests : answer[r] # "queued" /\ r # st.req => r \notin Range(t.take)
  BY <1>9
<1>12. st.req # 0 => t.take = <<st.req>> /\ st.req \notin Range(history)
  BY <1>4 DEF Book, PreparedInv
<1>13. KindInv'
  BY <1>1, <1>7, <1>8, <1>9 DEF Book, KindInv, MailFits
<1>14. QueuedInv'
  <2>1. Range(Messages(queue')) \subseteq Range(Messages(queue))
    <3>1. PICK through \in Int : through = t.through
      BY <1>2
    <3> QED BY <1>1, <3>1, ConsumedRange
  <2> QED BY <1>1, <1>5, <2>1 DEF Book, QueuedInv
<1>15. OwnInv'
  <2>1. \A r \in RequestsIn(mailbox) : r \in Requests
    BY DEF Book, KindInv
  <2>2. wait.req # 0 => wait.req \in Requests
    <3>1. wait.req \in 0..MaxRequests
      BY DEF Core, TypeOK, WaitType
    <3> QED BY <3>1, SessionActorAssumption DEF Requests
  <2> QED BY <1>1, <1>7, <1>8, <1>11, <2>1, <2>2 DEF Book, OwnInv, MailFits
<1>16. PreparedInv'
  <2> SUFFICES ASSUME st.req # 0
               PROVE  /\ \A u \in tasks' : u.gen # st.gen
                      /\ \A i \in DOMAIN mailbox' : mailbox'[i].tag = "prepared" /\ mailbox'[i].n = st.gen =>
                            mailbox'[i].out = "ok"
                      /\ Copies(st.req)' = 1
    <3>1. PICK q : q = st.req
      OBVIOUS
    <3> QED BY <1>1, <3>1 DEF PreparedInv, Copies
  <2>1. \A u \in tasks' : u.gen # st.gen
    BY <1>4, <1>5 DEF Core, TaskInv
  <2>2. \A i \in DOMAIN mailbox : mailbox[i].tag = "prepared" => mailbox[i].n # st.gen
    BY <1>4 DEF Core, TaskInv, IsEnd
  <2>3. PICK q : q = st.req
    OBVIOUS
  <2>4. Copies(q)' = 1
    BY <1>8, <1>12, <2>3
  <2>5. Copies(st.req)' = 1
    BY <1>1, <2>3, <2>4 DEF Copies
  <2> QED BY <1>3, <1>6, <2>1, <2>2, <2>5
<1>17. StartedIsRecorded'
  <2> SUFFICES ASSUME NEW r \in Requests
               PROVE  /\ answer[r] = "started" => Copies(r)' = 1
                      /\ answer[r] = "error" /\ Copies(r)' > 0 => stopping
    BY <1>1 DEF StartedIsRecorded
  <2>1. /\ answer[r] = "started" => Copies(r) = 1
        /\ answer[r] = "error" /\ Copies(r) > 0 => stopping
    BY DEF Book, StartedIsRecorded
  <2>2. r # 0
    BY RequestRange
  <2>3. answer[r] \in {"started", "error"} => Copies(r)' = Copies(r)
    BY <1>8, <1>10, <1>11, <2>2
  <2> QED BY <2>1, <2>3
<1> QED BY <1>13, <1>14, <1>15, <1>16, <1>17 DEF Book

(* A request that nobody has made yet is nowhere. *)
LEMMA AskBook ==
    ASSUME Core, Core', Book, Ask PROVE Book'
<1>1. PICK r \in Requests, k \in Kinds :
        /\ asked[r] = "none"
        /\ asked' = [asked EXCEPT ![r] = k]
        /\ IF closed
           THEN answer' = Answered({r}, "error") /\ UNCHANGED <<phase, mailbox, actor>>
           ELSE /\ Post(Message("request", r, "none"))
                /\ IF phase = "none"
                   THEN st' = Idle /\ wait' = NoWait /\ deferred' = <<>> /\ stopping' = FALSE
                   ELSE UNCHANGED actor
                /\ UNCHANGED answer
        /\ UNCHANGED <<tasks, queue, history>>
  BY DEF Ask, store
<1>2. /\ k # "none" /\ r # 0 /\ r \in Nat
      /\ asked \in [Requests -> Kinds \cup {"none"}]
  BY RequestRange, SessionActorAssumption DEF Core, TypeOK
<1>3. \A x \in Requests : asked[x] # "none" => x # r /\ asked'[x] = asked[x]
  BY <1>1, <1>2
<1>4. /\ \A x \in RequestsIn(mailbox) : x \in Requests /\ asked[x] # "none"
      /\ wait.req # 0 => asked[wait.req] = "send"
      /\ st.req # 0 => asked[st.req] = "send"
      /\ \A x \in Waiters : asked[x] \notin {"send", "none"}
      /\ \A x \in Range(history) : asked[x] = "send"
      /\ \A x \in Requests : asked[x] = "none" => answer[x] = "none"
  BY DEF Book, KindInv, Waiters
<1>5. /\ wait.req # 0 => wait.req \in Requests
      /\ st.req # 0 => st.req \in Requests
      /\ Waiters \subseteq Requests
      /\ Range(history) \subseteq Requests
      /\ Range(Messages(queue)) \subseteq Requests
      /\ \A t \in tasks : Range(t.take) \subseteq Requests
  <2>1. wait.req # 0 => wait.req \in Requests
    <3>1. wait.req \in 0..MaxRequests
      BY DEF Core, TypeOK, WaitType
    <3> QED BY <3>1, SessionActorAssumption DEF Requests
  <2>2. st.req # 0 => st.req \in Requests
    <3>1. st.req \in 0..MaxRequests
      BY DEF Core, TypeOK, JobType
    <3> QED BY <3>1, SessionActorAssumption DEF Requests
  <2>3. Range(history) \subseteq Requests
    BY LenProperties DEF Core, TypeOK, Range
  <2>4. Range(Messages(queue)) \subseteq Requests
    BY MessagesTyped DEF Core, TypeOK
  <2>5. \A t \in tasks : Range(t.take) \subseteq Requests
    <3> TAKE t \in tasks
    <3>1. t.take \in Seq(Requests)
      BY TaskOf DEF TaskType
    <3> QED BY <3>1, LenProperties DEF Range
  <2> QED BY <2>1, <2>2, <2>3, <2>4, <2>5, WaitersTyped
<1>6. answer[r] = "none" /\ \A x \in Requests : x # r => answer'[x] = answer[x]
  BY <1>1, <1>4 DEF Answered
<1>7. answer'[r] \in {"none", "error"}
  BY <1>1, <1>6 DEF Answered
<1>8. /\ \A x \in RequestsIn(mailbox') : x \in RequestsIn(mailbox) \/ (x = r /\ answer'[r] = "none")
      /\ \A i, j \in DOMAIN mailbox' :
            mailbox'[i].tag = "request" /\ mailbox'[j].tag = "request" /\ mailbox'[i].n = mailbox'[j].n => i = j
  <2>1. /\ r \notin RequestsIn(mailbox)
        /\ \A i, j \in DOMAIN mailbox :
              mailbox[i].tag = "request" /\ mailbox[j].tag = "request" /\ mailbox[i].n = mailbox[j].n => i = j
    BY <1>1, <1>4 DEF Book, OwnInv
  <2>2. CASE mailbox' = mailbox
    BY <2>1, <2>2
  <2>3. CASE Post(Message("request", r, "none")) /\ answer' = answer
    <3>1. PICK m \in MessageType : m = Message("request", r, "none") /\ m.tag = "request" /\ m.n = r
      BY <1>2, MessageFacts
    <3>2. /\ \A i \in DOMAIN mailbox' : \/ i \in DOMAIN mailbox /\ mailbox'[i] = mailbox[i]
                                        \/ i = Len(mailbox) + 1 /\ mailbox'[i] = m
      BY <2>3, <3>1, PostFacts
    <3>3. \A i \in DOMAIN mailbox : mailbox[i].tag = "request" =>
             mailbox[i].n \in RequestsIn(mailbox) /\ mailbox[i].n # r
      BY <2>1 DEF RequestsIn
    <3>4. \A x \in RequestsIn(mailbox') : \E i \in DOMAIN mailbox' : mailbox'[i].tag = "request" /\ mailbox'[i].n = x
      BY DEF RequestsIn
    <3>5. \A x \in RequestsIn(mailbox') : x \in RequestsIn(mailbox) \/ x = r
      BY <3>1, <3>2, <3>3, <3>4
    <3>6. \A i, j \in DOMAIN mailbox' :
            mailbox'[i].tag = "request" /\ mailbox'[j].tag = "request" /\ mailbox'[i].n = mailbox'[j].n => i = j
      BY <2>1, <3>1, <3>2, <3>3
    <3>7. answer'[r] = "none"
      BY <1>6, <2>3
    <3> QED BY <3>5, <3>6, <3>7
  <2> QED BY <1>1, <2>2, <2>3
<1>9. \/ wait'.req = wait.req /\ st' = st /\ Waiters' = Waiters /\ stopping' = stopping
      \/ wait'.req = 0 /\ st' = Idle /\ Waiters' = {} /\ \A t \in tasks : t.kind = "stream"
  <2>1. CASE UNCHANGED actor
    BY <2>1 DEF actor, Waiters
  <2>2. CASE phase = "none" /\ st' = Idle /\ wait' = NoWait /\ deferred' = <<>>
    <3>1. \A t \in tasks : t.kind = "stream"
      BY <2>2 DEF Core, PhaseInv
    <3>2. wait'.req = 0 /\ wait'.waiters = {} /\ st'.waiters = {} /\ Range(deferred') = {}
      BY <2>2, NoWaitFacts, IdleFacts DEF Range
    <3> QED BY <2>2, <3>1, <3>2 DEF Waiters
  <2> QED BY <1>1, <2>1, <2>2
<1>10. wait'.req \in {0, wait.req} /\ st'.req \in {0, st.req} /\ \A x \in Waiters' : x \in Waiters
  BY <1>9, IdleFacts
<1>11. asked'[r] # "none"
  BY <1>1, <1>2
<1>12. KindInv'
  <2>1. \A x \in RequestsIn(mailbox') : x \in Requests /\ asked'[x] # "none"
    BY <1>3, <1>4, <1>8, <1>11
  <2>2. wait'.req # 0 => asked'[wait'.req] = "send"
    BY <1>3, <1>4, <1>5, <1>10
  <2>3. st'.req # 0 => asked'[st'.req] = "send"
    BY <1>3, <1>4, <1>5, <1>10
  <2>4. \A x \in Waiters' : asked'[x] \notin {"send", "none"}
    BY <1>3, <1>4, <1>5, <1>10
  <2>5. \A x \in Range(history) : asked'[x] = "send"
    BY <1>3, <1>4, <1>5
  <2>6. \A x \in Requests : asked'[x] = "none" => answer'[x] = "none"
    BY <1>1, <1>2, <1>4, <1>6, <1>11
  <2>7. Range(history') = Range(history)
    BY <1>1
  <2> QED BY <2>1, <2>2, <2>3, <2>4, <2>5, <2>6, <2>7 DEF KindInv, Waiters
<1>13. QueuedInv'
  <2>1. \A x \in Range(Messages(queue)) : asked'[x] = "send" /\ answer'[x] = "queued"
    BY <1>3, <1>5, <1>6 DEF Book, QueuedInv
  <2>2. ASSUME NEW t \in tasks, t.kind = "prep", NEW x \in Range(t.take)
        PROVE  asked'[x] = "send" /\ (answer'[x] = "queued" \/ x = st'.req)
    <3>1. asked[x] = "send" /\ (answer[x] = "queued" \/ x = st.req) /\ x \in Requests
      BY <1>5, <2>2 DEF Book, QueuedInv
    <3>2. x # r /\ asked'[x] = "send" /\ answer'[x] = answer[x]
      BY <1>3, <1>6, <3>1
    <3> QED BY <1>9, <2>2, <3>1, <3>2
  <2>3. Range(Messages(queue')) = Range(Messages(queue)) /\ tasks' = tasks
    BY <1>1
  <2> QED BY <2>1, <2>2, <2>3 DEF QueuedInv
<1>14. OwnInv'
  <2>1. /\ \A x \in RequestsIn(mailbox) : asked[x] = "send" =>
             answer[x] = "none" /\ x # wait.req /\ x # st.req /\ x \notin Range(history)
        /\ wait.req # 0 => answer[wait.req] = "none" /\ wait.req # st.req /\ wait.req \notin Range(history)
        /\ st.req # 0 => answer[st.req] = "none"
    BY DEF Book, OwnInv
  <2>2. r # wait.req /\ r # st.req /\ r \notin Range(history)
    BY <1>1, <1>2, <1>4
  <2>3. \A x \in RequestsIn(mailbox') : asked'[x] = "send" =>
          answer'[x] = "none" /\ x # wait'.req /\ x # st'.req /\ x \notin Range(history)
    <3> TAKE x \in RequestsIn(mailbox')
    <3> HAVE asked'[x] = "send"
    <3>1. CASE x = r /\ answer'[r] = "none"
      BY <1>2, <1>10, <2>2, <3>1
    <3>2. CASE x \in RequestsIn(mailbox)
      <4>1. x \in Requests /\ x # r /\ asked[x] = "send" /\ answer'[x] = answer[x] /\ x # 0
        BY <1>3, <1>4, <1>6, <3>2, RequestRange
      <4> QED BY <1>10, <2>1, <3>2, <4>1
    <3> QED BY <1>8, <3>1, <3>2
  <2>4. wait'.req # 0 => /\ answer'[wait'.req] = "none" /\ wait'.req # st'.req
                         /\ wait'.req \notin Range(history)
    BY <1>3, <1>4, <1>5, <1>6, <1>10, <2>1
  <2>5. st'.req # 0 => answer'[st'.req] = "none"
    BY <1>3, <1>4, <1>5, <1>6, <1>10, <2>1
  <2>6. Range(history') = Range(history)
    BY <1>1
  <2> QED BY <1>8, <2>3, <2>4, <2>5, <2>6 DEF OwnInv
<1>15. PreparedInv'
  <2>1. CASE st'.req = 0
    BY <2>1 DEF PreparedInv
  <2>2. CASE st'.req # 0
    <3>1. st' = st /\ history' = history
      BY <1>1, <1>9, <2>2, IdleFacts
    <3>2. \A t \in tasks' : \E u \in tasks : u.gen = t.gen /\ u.take = t.take
      BY <1>1
    <3>3. \A i \in DOMAIN mailbox' : mailbox'[i].tag = "prepared" =>
              \E j \in DOMAIN mailbox : mailbox'[i] = mailbox[j]
      <4>1. PICK m \in MessageType : m = Message("request", r, "none") /\ m.tag = "request"
        BY <1>2, MessageFacts
      <4>2. mailbox' = mailbox \/ Post(m)
        BY <1>1, <4>1
      <4> QED BY <4>1, <4>2, PostFacts
    <3> QED BY <3>1, <3>2, <3>3, PreparedKept
  <2> QED BY <2>1, <2>2
<1>16. StartedIsRecorded'
  <2>1. \A x : Copies(x)' = Copies(x)
    BY <1>1 DEF Copies
  <2> SUFFICES ASSUME NEW x \in Requests
               PROVE  /\ answer'[x] = "started" => Copies(x) = 1
                      /\ answer'[x] = "error" /\ Copies(x) > 0 => stopping'
    BY <2>1 DEF StartedIsRecorded
  <2>2. CASE x = r
    <3>1. Copies(r) = 0
      BY <1>1, <1>4, CopiesFacts
    <3> QED BY <1>7, <2>2, <3>1
  <2>3. CASE x # r
    <3>1. /\ answer[x] = "started" => Copies(x) = 1
          /\ answer[x] = "error" /\ Copies(x) > 0 => stopping
      BY DEF Book, StartedIsRecorded
    <3>2. CASE stopping' = stopping \/ ~stopping
      BY <1>6, <2>3, <3>1, <3>2
    <3>3. CASE stopping' # stopping /\ stopping
      <4>1. phase = "none" /\ ~closed
        BY <1>1, <3>3 DEF actor
      <4> QED BY <3>3, <4>1 DEF Core, PhaseInv
    <3> QED BY <3>2, <3>3
  <2> QED BY <2>2, <2>3
<1> QED BY <1>12, <1>13, <1>14, <1>15, <1>16 DEF Book

-----------------------------------------------------------------------------
LEMMA InitBook == Init => Book
<1> SUFFICES ASSUME Init PROVE Book
  OBVIOUS
<1>1. /\ mailbox = <<>> /\ wait = NoWait /\ st = Idle /\ deferred = <<>> /\ history = <<>> /\ queue = <<>>
      /\ tasks = {} /\ \A r \in Requests : asked[r] = "none" /\ answer[r] = "none"
  BY DEF Init
<1>2. /\ wait.req = 0 /\ st.req = 0 /\ wait.waiters = {} /\ st.waiters = {}
      /\ DOMAIN mailbox = {} /\ RequestsIn(mailbox) = {} /\ Range(deferred) = {} /\ Range(history) = {}
      /\ Range(Messages(queue)) = {}
  BY <1>1, NoWaitFacts, IdleFacts DEF RequestsIn, Range, Messages
<1> QED BY <1>1, <1>2 DEF Book, KindInv, QueuedInv, OwnInv, PreparedInv, StartedIsRecorded

LEMMA NextBook == Core /\ Book /\ [Next]_vars => Book'
<1> SUFFICES ASSUME Core, Book, [Next]_vars PROVE Book'
  OBVIOUS
<1>0. Core'
  BY NextCore
<1>1. CASE Ask
  BY <1>0, <1>1, AskBook
<1>2. CASE StopAll
  BY <1>0, <1>2, StopAllBook
<1>3. CASE Handler
  BY <1>0, <1>3, SendBook, SendRejectedBook, CancelBook, ApproveBook, DenyBook, DeleteBook, SendClaimBook,
     JoinedBook, DeletePutOffBook, StopBook, ExitBook,
     LeaveBook, PreparedStartsBook, PreparedStoppingBook, PreparedFailedBook, StreamEventFailedBook,
     StreamEndedBook, ScriptEndedBook, StaleBook DEF Handler
<1>4. CASE TaskStep
  BY <1>0, <1>4, PrepareOwnsBook, PrepareClaimBook, PrepareCommitBook, PrepareFailBook, StreamEndBook,
     StreamEventBook, ScriptEndBook DEF TaskStep
<1>5. CASE Over \/ UNCHANGED vars
  <2>1. UNCHANGED <<mailbox, st, wait, deferred, stopping, tasks, queue, history, asked, answer>>
    BY <1>5 DEF Over, vars, registry, actor, agent, store, clients
  <2> QED BY <1>0, <2>1, UnchangedBook
<1> QED BY <1>1, <1>2, <1>3, <1>4, <1>5 DEF Next

LEMMA BookInvariance == Spec => [](Core /\ Book)
<1>1. Init => Core /\ Book
  BY InitCore, InitBook
<1>2. (Core /\ Book) /\ [Next]_vars => (Core /\ Book)'
  BY NextCore, NextBook
<1> QED BY <1>1, <1>2, PTL DEF Spec

(* A message answered "started" is in the history exactly once, and one   *)
(* that was refused is not, unless the runtime stopped (prepared).         *)
THEOREM StartedIsRecordedCorrect == Spec => []StartedIsRecorded
<1>1. Core /\ Book => StartedIsRecorded
  BY DEF Book
<1> QED BY <1>1, BookInvariance, PTL

-----------------------------------------------------------------------------
(* The numbers of the queue.                                               *)

(* The queue is in the order of its numbers, *)
QueueOrdered == \A i, j \in DOMAIN queue : i < j => queue[i].seq < queue[j].seq

(* so that what a preparation consumes are the first entries, and what it  *)
(* leaves are those that came after it had read the queue.                 *)
ConsumesTheRead ==
    \A through \in Int :
        /\ \A i \in DOMAIN Consumed(through) : Consumed(through)[i].seq > through
        /\ \A i \in DOMAIN queue : queue[i].seq > through => queue[i] \in Range(Consumed(through))

LEMMA QueueSteps ==
    ASSUME Core, [Next]_vars
    PROVE  \/ queue' = queue \/ queue' = <<>>
           \/ \E r \in Requests : queue' = Enqueued(r)
           \/ \E t \in tasks : t.kind = "prep" /\ queue' = Consumed(t.through)
<1>1. CASE Ask
  BY <1>1 DEF Ask, store
<1>2. CASE StopAll
  BY <1>2 DEF StopAll, store
<1>3. CASE Handler
  <2>1. ASSUME NEW r \in Requests, NEW next, Granted(r, next)
        PROVE  queue' = queue \/ queue' = Enqueued(r)
    BY <2>1 DEF Granted
  <2>2. ASSUME NEW r \in Requests,
               Send(r) \/ SendRejected(r) \/ Cancel(r) \/ Approve(r) \/ Deny(r) \/ Delete(r)
        PROVE  queue' = queue \/ queue' = <<>> \/ queue' = Enqueued(r)
    <3>1. CASE Send(r)
      BY <2>1, <3>1 DEF Send
    <3>2. CASE Cancel(r)
      BY <3>2 DEF Cancel
    <3>3. CASE SendRejected(r) \/ Approve(r) \/ Deny(r) \/ Delete(r)
      BY <3>3 DEF SendRejected, Approve, Deny, Delete, store
    <3> QED BY <2>2, <3>1, <3>2, <3>3
  <2>3. CASE SendClaim
    <3>1. wait.req \in Requests
      BY <2>3 DEF SendClaim, Core, WaitInv
    <3>2. PICK r \in Requests : r = wait.req
      BY <3>1
    <3>3. PICK next : next = wait.next
      OBVIOUS
    <3>4. queue' = queue \/ Granted(r, next)
      BY <2>3, <3>2, <3>3 DEF SendClaim
    <3> QED BY <2>1, <3>4
  <2>4. CASE DeleteJoined
    BY <2>4 DEF DeleteJoined
  <2>5. CASE CancelJoined \/ DeleteFailed \/ DeletePutOff \/ Stop \/ Exit \/ Leave
    BY <2>5 DEF CancelJoined, DeleteFailed, DeletePutOff, Stop, Exit, Leave, store
  <2>6. CASE \/ PreparedStarts \/ PreparedStopping \/ PreparedFailed
             \/ StreamEventFailed \/ StreamEnded \/ ScriptEnded \/ Stale
    BY <2>6 DEF PreparedStarts, PreparedStopping, PreparedFailed, StreamEventFailed, StreamEnded,
                ScriptEnded, Stale, store
  <2> QED BY <1>3, <2>2, <2>3, <2>4, <2>5, <2>6 DEF Handler
<1>4. CASE TaskStep
  <2>1. PICK t \in tasks : \/ PrepareOwns(t) \/ PrepareClaim(t) \/ PrepareCommit(t) \/ PrepareFail(t)
                           \/ StreamEnd(t) \/ StreamEvent(t) \/ ScriptEnd(t)
    BY <1>4 DEF TaskStep
  <2>2. CASE PrepareCommit(t)
    BY <2>2 DEF PrepareCommit
  <2>3. CASE \/ PrepareOwns(t) \/ PrepareClaim(t) \/ PrepareFail(t)
             \/ StreamEnd(t) \/ StreamEvent(t) \/ ScriptEnd(t)
    BY <2>3 DEF PrepareOwns, PrepareClaim, PrepareFail, StreamEnd, StreamEvent, ScriptEnd, store
  <2> QED BY <2>1, <2>2, <2>3
<1>5. CASE Over \/ UNCHANGED vars
  BY <1>5 DEF Over, vars, store
<1> QED BY <1>1, <1>2, <1>3, <1>4, <1>5 DEF Next

LEMMA QueueFacts ==
    ASSUME Core
    PROVE  /\ Len(queue) \in Nat /\ DOMAIN queue = 1..Len(queue) /\ queue \in Seq(EntryType)
           /\ \A i \in DOMAIN queue : queue[i] \in EntryType /\ queue[i].seq \in Nat
<1>1. /\ Len(queue) \in Nat /\ DOMAIN queue = 1..Len(queue) /\ queue \in Seq(EntryType)
      /\ \A i \in DOMAIN queue : queue[i] \in EntryType
  BY LenProperties DEF Core, TypeOK
<1> QED BY <1>1 DEF EntryType

LEMMA QueueOrderedStep ==
    ASSUME Core, QueueOrdered, [Next]_vars
    PROVE  QueueOrdered'
<1>1. /\ Len(queue) \in Nat /\ DOMAIN queue = 1..Len(queue) /\ queue \in Seq(EntryType)
      /\ \A i \in DOMAIN queue : queue[i] \in EntryType /\ queue[i].seq \in Nat
  BY QueueFacts
<1>2. \A i, j \in DOMAIN queue : i < j => queue[i].seq < queue[j].seq
  BY DEF QueueOrdered
<1>3. CASE queue' = queue
  BY <1>3 DEF QueueOrdered
<1>4. CASE queue' = <<>>
  BY <1>4 DEF QueueOrdered
<1>5. ASSUME NEW r \in Requests, queue' = Enqueued(r)
      PROVE  QueueOrdered'
  <2> DEFINE e == [seq |-> Through(queue) + 1, req |-> r]
  <2>1. Through(queue) \in Int /\ Through(queue) >= -1
    BY <1>1, ThroughTyped
  <2>2. e \in EntryType /\ e.seq = Through(queue) + 1
    BY <2>1 DEF EntryType
  <2>3. \A i \in DOMAIN queue : queue[i].seq <= Through(queue)
    <3> TAKE i \in DOMAIN queue
    <3>1. queue # <<>> /\ Through(queue) = queue[Len(queue)].seq /\ Len(queue) \in DOMAIN queue
      BY <1>1, EmptySeq DEF Through, Last
    <3>2. i = Len(queue) \/ i < Len(queue)
      BY <1>1
    <3> QED BY <1>1, <1>2, <3>1, <3>2
  <2>4. queue' = Append(queue, e)
    BY <1>5 DEF Enqueued
  <2> HIDE DEF e
  <2>5. /\ queue'[Len(queue) + 1] = e
        /\ \A i \in DOMAIN queue : queue'[i] = queue[i]
        /\ \A i \in DOMAIN queue' : i = Len(queue) + 1 \/ i \in DOMAIN queue
    BY <1>1, <2>2, <2>4, AppendOf
  <2>6. ASSUME NEW i \in DOMAIN queue', NEW j \in DOMAIN queue', i < j
        PROVE  queue'[i].seq < queue'[j].seq
    <3>1. i \in DOMAIN queue
      BY <1>1, <2>5, <2>6
    <3>2. CASE j \in DOMAIN queue
      BY <1>2, <2>5, <2>6, <3>1, <3>2
    <3>3. CASE j = Len(queue) + 1
      BY <1>1, <2>1, <2>2, <2>3, <2>5, <3>1, <3>3
    <3> QED BY <2>5, <3>2, <3>3
  <2> QED BY <2>6 DEF QueueOrdered
<1>6. ASSUME NEW t \in tasks, queue' = Consumed(t.through)
      PROVE  QueueOrdered'
  <2>1. PICK through \in Int : through = t.through
    BY TaskOf DEF TaskType
  <2>2. PICK n \in Nat :
          \A i \in DOMAIN queue' : i \in Nat /\ n + i \in DOMAIN queue /\ queue'[i] = queue[n + i]
    BY <1>6, <2>1, ConsumedFacts
  <2>3. ASSUME NEW i \in DOMAIN queue', NEW j \in DOMAIN queue', i < j
        PROVE  queue'[i].seq < queue'[j].seq
    <3>1. n + i < n + j
      BY <2>2, <2>3
    <3> QED BY <1>2, <2>2, <3>1
  <2> QED BY <2>3 DEF QueueOrdered
<1> QED BY <1>3, <1>4, <1>5, <1>6, QueueSteps

LEMMA OrderedConsumes ==
    ASSUME Core, QueueOrdered PROVE ConsumesTheRead
<1> SUFFICES ASSUME NEW through \in Int
             PROVE  /\ \A i \in DOMAIN Consumed(through) : Consumed(through)[i].seq > through
                    /\ \A i \in DOMAIN queue : queue[i].seq > through => queue[i] \in Range(Consumed(through))
  BY DEF ConsumesTheRead
<1> DEFINE S == {i \in DOMAIN queue : queue[i].seq <= through}
<1>1. /\ Len(queue) \in Nat /\ DOMAIN queue = 1..Len(queue)
      /\ \A i \in DOMAIN queue : queue[i] \in EntryType /\ queue[i].seq \in Nat
  BY QueueFacts
<1>2. IsFiniteSet(S)
  <2>1. IsFiniteSet(1..Len(queue))
    BY <1>1, FS_Interval
  <2> QED BY <1>1, <2>1, FS_Subset
<1>3. PICK n \in Nat :
        /\ n = Cardinality(S)
        /\ \A i \in DOMAIN Consumed(through) :
              i \in Nat /\ i > 0 /\ n + i \in DOMAIN queue /\ Consumed(through)[i] = queue[n + i]
        /\ \A j \in DOMAIN queue : j > n =>
              j - n \in DOMAIN Consumed(through) /\ Consumed(through)[j - n] = queue[j]
  BY ConsumedFacts
<1>4. \A i \in S : \A j \in DOMAIN queue : j < i => j \in S
  BY <1>1 DEF QueueOrdered
<1>5. \A j \in DOMAIN queue : j \in S => j <= n
  <2> SUFFICES ASSUME NEW j \in S PROVE j <= n
    OBVIOUS
  <2>1. j \in Nat /\ 1..j \subseteq DOMAIN queue
    BY <1>1
  <2>2. 1..j \subseteq S
    BY <1>4, <2>1
  <2>3. Cardinality(1..j) <= Cardinality(S)
    BY <1>2, <2>2, FS_Subset
  <2>4. Cardinality(1..j) = j
    <3>1. 1 \in Int /\ j \in Int /\ 1 <= j /\ j - 1 + 1 = j
      BY <1>1, <2>1
    <3> QED BY <3>1, FS_Interval
  <2> QED BY <1>3, <2>3, <2>4
<1>6. \A j \in DOMAIN queue : j \notin S => j > n
  <2> SUFFICES ASSUME NEW j \in DOMAIN queue, j \notin S PROVE j > n
    OBVIOUS
  <2>1. j \in Nat /\ j - 1 \in Nat
    BY <1>1
  <2>2. S \subseteq 1..j - 1
    <3> SUFFICES ASSUME NEW i \in S PROVE i \in 1..j - 1
      OBVIOUS
    <3>1. ~(j < i) /\ i # j
      BY <1>4
    <3> QED BY <1>1, <2>1, <3>1
  <2>3. IsFiniteSet(1..j - 1) /\ Cardinality(1..j - 1) = j - 1
    BY <2>1, FS_Interval
  <2>4. Cardinality(S) <= Cardinality(1..j - 1)
    BY <2>2, <2>3, FS_Subset
  <2> QED BY <1>3, <2>1, <2>3, <2>4
<1>7. ASSUME NEW i \in DOMAIN Consumed(through)
      PROVE  Consumed(through)[i].seq > through
  <2>1. n + i \in DOMAIN queue /\ Consumed(through)[i] = queue[n + i] /\ ~(n + i <= n)
    BY <1>3
  <2>2. n + i \notin S
    BY <1>5, <2>1
  <2> QED BY <1>1, <2>1, <2>2
<1>8. ASSUME NEW j \in DOMAIN queue, queue[j].seq > through
      PROVE  queue[j] \in Range(Consumed(through))
  <2>1. j \notin S
    BY <1>1, <1>8
  <2>2. j > n
    BY <1>6, <2>1
  <2>3. j - n \in DOMAIN Consumed(through) /\ Consumed(through)[j - n] = queue[j]
    BY <1>3, <2>2
  <2> QED BY <2>3 DEF Range
<1> QED BY <1>7, <1>8

(* consume_queued_messages takes exactly the entries its preparation has   *)
(* read, unless their numbers are used again.                              *)
THEOREM ConsumptionCorrect == Spec => [](QueueOrdered /\ ConsumesTheRead)
<1>1. Init => Core /\ QueueOrdered
  BY InitCore DEF Init, QueueOrdered
<1>2. (Core /\ QueueOrdered) /\ [Next]_vars => (Core /\ QueueOrdered)'
  BY NextCore, QueueOrderedStep
<1>3. Core /\ QueueOrdered => QueueOrdered /\ ConsumesTheRead
  BY OrderedConsumes
<1> QED BY <1>1, <1>2, <1>3, PTL DEF Spec

-----------------------------------------------------------------------------
(* The theorems.                                                           *)

LEMMA InitHeld == Init => NoRequestDropped
BY DEF Init, NoRequestDropped

LEMMA Invariance == Spec => []IInv
<1>1. Init => IInv
  BY InitCore, InitHeld DEF IInv
<1>2. IInv /\ [Next]_vars => IInv'
  BY NextCore, NextHeld DEF IInv
<1> QED BY <1>1, <1>2, PTL DEF Spec

LEMMA JobReports == Core => JobWillReport
<1> SUFFICES ASSUME Core, phase = "running", HasChild
             PROVE  Cardinality({t \in tasks : t.gen = st.gen})
                      + Cardinality({i \in DOMAIN mailbox :
                            mailbox[i].tag \in DOMAIN Reports \ {"event"} /\ mailbox[i].n = st.gen}) = 1
  BY DEF JobWillReport
<1> DEFINE T == {t \in tasks : t.gen = st.gen}
           M == {i \in DOMAIN mailbox :
                   mailbox[i].tag \in DOMAIN Reports \ {"event"} /\ mailbox[i].n = st.gen}
<1>1. M = {i \in DOMAIN mailbox : IsEnd(mailbox[i]) /\ mailbox[i].n = st.gen}
  BY DEF IsEnd, Reports
<1>2. \/ \E t \in tasks : t.gen = st.gen
      \/ \E i \in DOMAIN mailbox : IsEnd(mailbox[i]) /\ mailbox[i].n = st.gen
  BY DEF Core, JobInv
<1>3. /\ \A t, u \in tasks : t.gen = u.gen => t = u
      /\ \A i \in DOMAIN mailbox, t \in tasks : IsEnd(mailbox[i]) => mailbox[i].n # t.gen
      /\ \A i, j \in DOMAIN mailbox :
            IsEnd(mailbox[i]) /\ IsEnd(mailbox[j]) /\ mailbox[i].n = mailbox[j].n => i = j
  BY DEF Core, TaskInv
<1>4. CASE \E t \in tasks : t.gen = st.gen
  <2>1. PICK t \in tasks : t.gen = st.gen
    BY <1>4
  <2>2. T = {t} /\ M = {}
    BY <1>1, <1>3, <2>1
  <2>3. Cardinality(T) = 1 /\ Cardinality(M) = 0
    BY <2>2, FS_Singleton, FS_EmptySet
  <2> QED BY <2>3
<1>5. CASE \E i \in DOMAIN mailbox : IsEnd(mailbox[i]) /\ mailbox[i].n = st.gen
  <2>1. PICK i \in DOMAIN mailbox : IsEnd(mailbox[i]) /\ mailbox[i].n = st.gen
    BY <1>5
  <2>2. M = {i} /\ T = {}
    BY <1>1, <1>3, <2>1
  <2>3. Cardinality(M) = 1 /\ Cardinality(T) = 0
    BY <2>2, FS_Singleton, FS_EmptySet
  <2> QED BY <2>3
<1> QED BY <1>2, <1>4, <1>5

(* Every variable has its type. *)
THEOREM TypeCorrect == Spec => []TypeOK
<1>1. IInv => TypeOK
  BY DEF IInv, Core
<1> QED BY <1>1, Invariance, PTL

(* A request without an answer is in the mailbox, put off, or with the     *)
(* handler or job that answers it (SessionMessage::reject, ScriptJob).     *)
THEOREM NoRequestDroppedCorrect == Spec => []NoRequestDropped
<1>1. IInv => NoRequestDropped
  BY DEF IInv
<1> QED BY <1>1, Invariance, PTL

(* A job has exactly one task, which runs or whose report is in the        *)
(* mailbox: the actor never waits forever for one that has ended.          *)
THEOREM JobWillReportCorrect == Spec => []JobWillReport
<1>1. IInv => JobWillReport
  BY JobReports DEF IInv
<1> QED BY <1>1, Invariance, PTL

(* A stream or script that was not told to end is the current job, and a   *)
(* stream has its response, its turn and its lease.                        *)
THEOREM NoStrayWorkCorrect == Spec => []NoStrayWork
<1>1. IInv => NoStrayWork
  BY DEF IInv, Core, JobInv, LeaseInv, NoStrayWork
<1> QED BY <1>1, Invariance, PTL

(* What the actor promises whatever fails: every responder is kept, every  *)
(* job reports once, nothing runs behind the actor's back, and what was    *)
(* answered as started is in the history.                                  *)
THEOREM ActorSoundCorrect == Spec => []ActorSound
BY TypeCorrect, NoRequestDroppedCorrect, JobWillReportCorrect, NoStrayWorkCorrect,
   StartedIsRecordedCorrect, PTL DEF ActorSound

-----------------------------------------------------------------------------
(* The order of the user messages: those in the history, those that a      *)
(* preparation has taken, the queue, the message whose handler claims the  *)
(* lease, and the mailbox.                                                 *)
Increasing(s) == \A i, j \in DOMAIN s : i < j => s[i] < s[j]
Below(S, T) == \A x \in S, y \in T : x < y

Preps == {t \in tasks : t.kind = "prep"}
Queued == Range(Messages(queue))
Placed == Range(history) \cup Queued \cup UNION {Range(t.take) : t \in Preps}

(* What a preparation has taken comes before what it will leave in the     *)
(* queue.                                                                  *)
LineInv ==
    /\ Increasing(history) /\ Increasing(Messages(queue)) /\ Below(Range(history), Queued)
    /\ \A t \in Preps :
          /\ Increasing(t.take) /\ Below(Range(history), Range(t.take))
          /\ \A x \in Range(t.take), j \in DOMAIN queue : queue[j].seq > t.through => x < queue[j].req

(* What is still to be received was sent after all that has been placed,   *)
(* and the message whose handler claims the lease is in between.           *)
ArrivalInv ==
    /\ Below(Placed, RequestsIn(mailbox))
    /\ wait.req # 0 => Below(Placed, {wait.req}) /\ Below({wait.req}, RequestsIn(mailbox))

(* Requests are in the mailbox in the order in which they were sent.       *)
MailInv ==
    /\ \A i, j \in DOMAIN mailbox :
          i < j /\ mailbox[i].tag = "request" /\ mailbox[j].tag = "request" => mailbox[i].n < mailbox[j].n
    /\ \A r, s \in Requests : r < s /\ asked[s] # "none" => asked[r] # "none"

(* What a preparation consumes it has taken, and what was queued is        *)
(* somewhere, unless a number was used again.                              *)
KeptInv ==
    ~renumbered =>
        /\ \A t \in Preps, i \in DOMAIN queue : queue[i].seq <= t.through => queue[i].req \in Range(t.take)
        /\ \A r \in Requests : answer[r] = "queued" /\ r \notin discarded => r \in Range(history) \cup Queued

QueueInv == QueueOrdered /\ LineInv /\ ArrivalInv /\ MailInv /\ KeptInv

-----------------------------------------------------------------------------
LEMMA QueuedIs ==
    ASSUME NEW q PROVE \A x : x \in Range(Messages(q)) <=> \E i \in DOMAIN q : x = q[i].req
BY DEF Range, Messages

LEMMA EnqueuedFacts ==
    ASSUME Core, NEW r \in Requests
    PROVE  \E e \in EntryType :
              /\ e.seq = Through(queue) + 1 /\ e.req = r
              /\ Last(Enqueued(r)) = e
              /\ Len(queue) \in Nat /\ DOMAIN queue = 1..Len(queue)
              /\ DOMAIN Enqueued(r) = 1..Len(queue) + 1
              /\ Enqueued(r)[Len(queue) + 1] = e
              /\ \A i \in DOMAIN queue : Enqueued(r)[i] = queue[i]
              /\ \A i \in DOMAIN Enqueued(r) : i = Len(queue) + 1 \/ i \in DOMAIN queue
<1> DEFINE e == [seq |-> Through(queue) + 1, req |-> r]
<1>1. queue \in Seq(EntryType) /\ Len(queue) \in Nat /\ DOMAIN queue = 1..Len(queue)
  BY QueueFacts
<1>2. Through(queue) \in Int /\ Through(queue) >= -1
  BY <1>1, ThroughTyped
<1>3. e \in EntryType /\ e.seq = Through(queue) + 1 /\ e.req = r
  BY <1>2 DEF EntryType
<1>4. Enqueued(r) = Append(queue, e)
  BY DEF Enqueued
<1> HIDE DEF e
<1>5. /\ Enqueued(r)[Len(queue) + 1] = e
      /\ \A i \in DOMAIN queue : Enqueued(r)[i] = queue[i]
      /\ \A i \in DOMAIN Enqueued(r) : i = Len(queue) + 1 \/ i \in DOMAIN queue
  BY <1>1, <1>3, <1>4, AppendOf
<1>6. Len(Enqueued(r)) = Len(queue) + 1 /\ DOMAIN Enqueued(r) = 1..Len(queue) + 1
  BY <1>1, <1>3, <1>4, AppendProperties, LenProperties
<1>7. Last(Enqueued(r)) = e
  BY <1>5, <1>6 DEF Last
<1> QED BY <1>1, <1>3, <1>5, <1>6, <1>7

LEMMA LastOfOrdered ==
    ASSUME NEW q \in Seq(EntryType), \A i, j \in DOMAIN q : i < j => q[i].seq < q[j].seq
    PROVE  \A i \in DOMAIN q : q[i].seq <= Through(q) /\ q[i].seq > -1
<1>1. Len(q) \in Nat /\ DOMAIN q = 1..Len(q) /\ \A i \in DOMAIN q : q[i] \in EntryType
  BY LenProperties
<1> TAKE i \in DOMAIN q
<1>2. \A j \in DOMAIN q : q[j].seq \in Nat
  BY <1>1 DEF EntryType
<1>3. q # <<>> /\ Through(q) = q[Len(q)].seq /\ Len(q) \in DOMAIN q
  BY <1>1, EmptySeq DEF Through, Last
<1>4. i = Len(q) \/ i < Len(q)
  BY <1>1
<1> QED BY <1>2, <1>3, <1>4

LEMMA NumbersTyped ==
    ASSUME Core
    PROVE  /\ Range(history) \subseteq Requests /\ Queued \subseteq Requests
           /\ \A t \in tasks : /\ t.take \in Seq(Requests) /\ t.through \in Int
                               /\ Range(t.take) \subseteq Requests
           /\ Placed \subseteq Requests
           /\ Requests \subseteq Nat
<1>1. \A s \in Seq(Requests) : Range(s) \subseteq Requests
  BY LenProperties DEF Range
<1>2. Range(history) \subseteq Requests /\ Queued \subseteq Requests
  BY <1>1, MessagesTyped DEF Core, TypeOK, Queued
<1>3. \A t \in tasks : t.take \in Seq(Requests) /\ t.through \in Int
  BY TaskOf DEF TaskType
<1>4. Requests \subseteq Nat
  BY RequestRange DEF Requests
<1> QED BY <1>1, <1>2, <1>3, <1>4 DEF Placed, Preps

-----------------------------------------------------------------------------
(* What a step that is neither an arrival nor a commit does to the queue   *)
(* and the preparations.                                                   *)
Carried(t) == \E u \in Preps : u.take = t.take /\ u.through = t.through
Reads(t, q) == t.take = Messages(q) /\ t.through = Through(q)

NothingQueued(S) == \A r \in Requests \ S : answer'[r] = "queued" => answer[r] = "queued"

(* No message moves on; the queue may be given up. *)
Passes ==
    /\ wait'.req \in {0, wait.req}
    /\ queue' = queue \/ (queue' = <<>> /\ Queued \subseteq discarded')
    /\ \A t \in Preps' : Carried(t) \/ Reads(t, queue')
    /\ NothingQueued({})

(* Message s is handed to the handler that claims the lease, *)
Waits(s) ==
    /\ wait'.req = s /\ queue' = queue
    /\ \A t \in Preps' : Carried(t)
    /\ NothingQueued({})

(* queued, *)
Queues(s) ==
    /\ wait'.req = 0 /\ queue' = Enqueued(s)
    /\ \A t \in Preps' : Carried(t) \/ Reads(t, queue')
    /\ NothingQueued({s})
    /\ ~renumbered' => \A t \in Preps : ~(Last(Enqueued(s)).seq <= t.through)

(* or prepared. *)
Starts(s) ==
    /\ wait'.req = 0 /\ queue = <<>> /\ queue' = <<>>
    /\ \A t \in Preps' : Carried(t) \/ (t.take = <<s>> /\ t.through = -1)
    /\ NothingQueued({})

Comes(s) ==
    /\ s \in Requests
    /\ s = wait.req \/ s \in RequestsIn(mailbox)
    /\ Below({s}, RequestsIn(mailbox'))

Flow ==
    /\ UNCHANGED <<history, asked>>
    /\ RequestsIn(mailbox') \subseteq RequestsIn(mailbox)
    /\ discarded \subseteq discarded' /\ (renumbered => renumbered')
    /\ \/ Passes
       \/ \E s : Comes(s) /\ (Waits(s) \/ Queues(s) \/ Starts(s))

LEMMA ComesLast ==
    ASSUME Core, Book, ArrivalInv, NEW s, Comes(s)
    PROVE  s # 0 /\ Below(Placed, {s})
<1>1. s # 0
  BY RequestRange DEF Comes
<1> QED BY <1>1 DEF Comes, ArrivalInv, Below

LEMMA PassesKeeps ==
    ASSUME Core, Core', QueueInv, QueueOrdered', UNCHANGED <<history, asked>>,
           RequestsIn(mailbox') \subseteq RequestsIn(mailbox),
           discarded \subseteq discarded', renumbered => renumbered', Passes
    PROVE  LineInv' /\ ArrivalInv' /\ KeptInv'
<1>1. queue' = queue \/ queue' = <<>>
  BY DEF Passes
<1>2. DOMAIN queue' \subseteq DOMAIN queue /\ (\A i \in DOMAIN queue' : queue'[i] = queue[i])
  <2>1. DOMAIN <<>> = {}
    BY EmptySeq
  <2> QED BY <1>1, <2>1
<1>3. Range(Messages(queue')) \subseteq Queued
  BY <1>2, QueuedIs DEF Queued
<1>4. queue' \in Seq(EntryType) /\ \A i, j \in DOMAIN queue' : i < j => queue'[i].seq < queue'[j].seq
  BY DEF QueueOrdered, Core, TypeOK
<1>5. \A i \in DOMAIN queue' : queue'[i].seq \in Nat /\ queue'[i].seq <= Through(queue')
  BY <1>4, LastOfOrdered, QueueFacts, <1>2
<1>6. Through(queue') \in Int
  BY <1>4, ThroughTyped
<1>7. \A t \in Preps' : Carried(t) \/ Reads(t, queue')
  BY DEF Passes
<1>8. /\ Increasing(history) /\ Increasing(Messages(queue)) /\ Below(Range(history), Queued)
      /\ \A t \in Preps :
          /\ Increasing(t.take) /\ Below(Range(history), Range(t.take))
          /\ \A x \in Range(t.take), j \in DOMAIN queue : queue[j].seq > t.through => x < queue[j].req
  BY DEF QueueInv, LineInv
<1>9. Increasing(Messages(queue'))
  <2>1. \A i \in DOMAIN queue' : Messages(queue')[i] = Messages(queue)[i]
    BY <1>2 DEF Messages
  <2>2. DOMAIN Messages(queue') = DOMAIN queue' /\ DOMAIN Messages(queue) = DOMAIN queue
    BY DEF Messages
  <2> QED BY <2>1, <2>2, <1>2, <1>8 DEF Increasing
<1>10. Below(Range(history), Range(Messages(queue')))
  BY <1>3, <1>8 DEF Below
<1>11. ASSUME NEW t \in Preps'
       PROVE  /\ Increasing(t.take) /\ Below(Range(history), Range(t.take))
              /\ \A x \in Range(t.take), j \in DOMAIN queue' : queue'[j].seq > t.through => x < queue'[j].req
              /\ Range(t.take) \subseteq Placed
  <2>1. CASE Carried(t)
    BY <2>1, <1>2, <1>8 DEF Carried, Placed
  <2>2. CASE Reads(t, queue')
    <3>1. \A j \in DOMAIN queue' : ~(queue'[j].seq > t.through)
      BY <2>2, <1>5, <1>6 DEF Reads
    <3>2. Range(t.take) \subseteq Queued
      BY <2>2, <1>3 DEF Reads
    <3> QED BY <2>2, <3>1, <3>2, <1>9, <1>10 DEF Reads, Placed
  <2> QED BY <1>7, <2>1, <2>2
<1>12. LineInv'
  BY <1>8, <1>9, <1>10, <1>11 DEF LineInv, Queued
<1>13. Placed' \subseteq Placed
  BY <1>3, <1>11 DEF Placed, Queued
<1>14. ArrivalInv'
  <2>1. Below(Placed, RequestsIn(mailbox))
        /\ (wait.req # 0 => Below(Placed, {wait.req}) /\ Below({wait.req}, RequestsIn(mailbox)))
    BY DEF QueueInv, ArrivalInv
  <2>2. wait'.req = 0 \/ wait'.req = wait.req
    BY DEF Passes
  <2> QED BY <1>13, <2>1, <2>2 DEF ArrivalInv, Below
<1>15. KeptInv'
  <2> SUFFICES ASSUME ~renumbered'
               PROVE  /\ \A t \in Preps', i \in DOMAIN queue' :
                            queue'[i].seq <= t.through => queue'[i].req \in Range(t.take)
                      /\ \A r \in Requests : answer'[r] = "queued" /\ r \notin discarded' =>
                            r \in Range(history) \cup Range(Messages(queue'))
    BY DEF KeptInv, Queued
  <2>1. /\ \A t \in Preps, i \in DOMAIN queue : queue[i].seq <= t.through => queue[i].req \in Range(t.take)
        /\ \A r \in Requests : answer[r] = "queued" /\ r \notin discarded => r \in Range(history) \cup Queued
    BY DEF QueueInv, KeptInv
  <2>2. ASSUME NEW t \in Preps', NEW i \in DOMAIN queue', queue'[i].seq <= t.through
        PROVE  queue'[i].req \in Range(t.take)
    <3>1. CASE Carried(t)
      BY <2>1, <2>2, <3>1, <1>2 DEF Carried
    <3>2. CASE Reads(t, queue')
      BY <3>2, QueuedIs DEF Reads
    <3> QED BY <1>7, <3>1, <3>2
  <2>3. ASSUME NEW r \in Requests, answer'[r] = "queued", r \notin discarded'
        PROVE  r \in Range(history) \cup Range(Messages(queue'))
    <3>1. answer[r] = "queued" /\ r \notin discarded
      BY <2>3 DEF Passes, NothingQueued
    <3>2. CASE queue' = queue
      BY <2>1, <3>1, <3>2 DEF Queued
    <3>3. CASE queue' = <<>> /\ Queued \subseteq discarded'
      BY <2>1, <2>3, <3>1, <3>3
    <3> QED BY <3>2, <3>3 DEF Passes
  <2> QED BY <2>2, <2>3
<1> QED BY <1>12, <1>14, <1>15

LEMMA WaitsKeeps ==
    ASSUME Core, Core', Book, QueueInv, UNCHANGED <<history, asked>>,
           RequestsIn(mailbox') \subseteq RequestsIn(mailbox),
           discarded \subseteq discarded', renumbered => renumbered', NEW s, Comes(s), Waits(s)
    PROVE  LineInv' /\ ArrivalInv' /\ KeptInv'
<1>1. queue' = queue /\ wait'.req = s /\ \A t \in Preps' : Carried(t)
  BY DEF Waits
<1>2. LineInv'
  BY <1>1 DEF QueueInv, LineInv, Carried, Queued
<1>3. Placed' \subseteq Placed
  BY <1>1 DEF Placed, Carried, Queued
<1>4. Below(Placed, {s}) /\ Below({s}, RequestsIn(mailbox'))
  BY ComesLast DEF QueueInv, Comes
<1>5. ArrivalInv'
  BY <1>1, <1>3, <1>4 DEF QueueInv, ArrivalInv, Below
<1>6. \A r \in Requests : answer'[r] = "queued" => answer[r] = "queued"
  BY DEF Waits, NothingQueued
<1>7. KeptInv'
  BY <1>1, <1>6 DEF QueueInv, KeptInv, Carried, Queued
<1> QED BY <1>2, <1>5, <1>7

LEMMA StartsKeeps ==
    ASSUME Core, Core', Book, QueueInv, UNCHANGED <<history, asked>>,
           RequestsIn(mailbox') \subseteq RequestsIn(mailbox),
           discarded \subseteq discarded', renumbered => renumbered', NEW s, Comes(s), Starts(s)
    PROVE  LineInv' /\ ArrivalInv' /\ KeptInv'
<1>1. /\ queue' = <<>> /\ queue = <<>> /\ wait'.req = 0
      /\ \A t \in Preps' : Carried(t) \/ (t.take = <<s>> /\ t.through = -1)
  BY DEF Starts
<1>2. Below(Placed, {s}) /\ Below({s}, RequestsIn(mailbox'))
  BY ComesLast DEF QueueInv, Comes
<1>3. DOMAIN queue = {} /\ DOMAIN queue' = {}
  BY <1>1, EmptySeq
<1>4. Increasing(<<s>>) /\ Range(<<s>>) = {s}
  BY DEF Increasing, Range
<1>5. Below(Range(history), {s})
  BY <1>2 DEF Below, Placed
<1>6. LineInv'
  BY <1>1, <1>3, <1>4, <1>5 DEF QueueInv, LineInv, Carried, Queued
<1>7. Placed' \subseteq Placed \cup {s}
  BY <1>1, <1>4 DEF Placed, Carried, Queued
<1>8. ArrivalInv'
  BY <1>1, <1>2, <1>7 DEF QueueInv, ArrivalInv, Below
<1>9. \A r \in Requests : answer'[r] = "queued" => answer[r] = "queued"
  BY DEF Starts, NothingQueued
<1>10. KeptInv'
  BY <1>1, <1>3, <1>9 DEF QueueInv, KeptInv, Queued
<1> QED BY <1>6, <1>8, <1>10

LEMMA QueuesKeeps ==
    ASSUME Core, Core', Book, QueueInv, QueueOrdered', UNCHANGED <<history, asked>>,
           RequestsIn(mailbox') \subseteq RequestsIn(mailbox),
           discarded \subseteq discarded', renumbered => renumbered', NEW s, Comes(s), Queues(s)
    PROVE  LineInv' /\ ArrivalInv' /\ KeptInv'
<1>1. /\ queue' = Enqueued(s) /\ wait'.req = 0 /\ s \in Requests
      /\ \A t \in Preps' : Carried(t) \/ Reads(t, queue')
  BY DEF Queues, Comes
<1>2. Below(Placed, {s}) /\ Below({s}, RequestsIn(mailbox'))
  BY ComesLast DEF QueueInv, Comes
<1>3. PICK e \in EntryType :
              /\ e.seq = Through(queue) + 1 /\ e.req = s
              /\ Last(Enqueued(s)) = e
              /\ Len(queue) \in Nat /\ DOMAIN queue = 1..Len(queue)
              /\ DOMAIN Enqueued(s) = 1..Len(queue) + 1
              /\ Enqueued(s)[Len(queue) + 1] = e
              /\ \A i \in DOMAIN queue : Enqueued(s)[i] = queue[i]
              /\ \A i \in DOMAIN Enqueued(s) : i = Len(queue) + 1 \/ i \in DOMAIN queue
  BY <1>1, EnqueuedFacts
<1>4. /\ \A i \in DOMAIN queue' : queue'[i] = e \/ (i \in DOMAIN queue /\ queue'[i] = queue[i])
      /\ \A i \in DOMAIN queue : i \in DOMAIN queue' /\ queue'[i] = queue[i]
      /\ \E i \in DOMAIN queue' : queue'[i] = e
  BY <1>1, <1>3
<1>5. /\ Range(Messages(queue')) = Queued \cup {s}
      /\ Queued \subseteq Placed
  BY <1>3, <1>4, QueuedIs DEF Queued, Placed
<1>6. queue' \in Seq(EntryType) /\ \A i, j \in DOMAIN queue' : i < j => queue'[i].seq < queue'[j].seq
  BY DEF QueueOrdered, Core, TypeOK
<1>7. \A i \in DOMAIN queue' : queue'[i].seq \in Int /\ queue'[i].seq <= Through(queue')
  <2>1. \A i \in DOMAIN queue' : queue'[i] \in EntryType
    BY <1>4, QueueFacts
  <2>2. \A i \in DOMAIN queue' : queue'[i].seq \in Int
    BY <2>1 DEF EntryType
  <2>3. \A i \in DOMAIN queue' : queue'[i].seq <= Through(queue')
    BY <1>6, LastOfOrdered
  <2> QED BY <2>2, <2>3
<1>8. Through(queue') \in Int
  BY <1>6, ThroughTyped
<1>9. /\ Increasing(history) /\ Increasing(Messages(queue)) /\ Below(Range(history), Queued)
      /\ \A t \in Preps :
          /\ Increasing(t.take) /\ Below(Range(history), Range(t.take))
          /\ \A x \in Range(t.take), j \in DOMAIN queue : queue[j].seq > t.through => x < queue[j].req
  BY DEF QueueInv, LineInv
<1>10. Increasing(Messages(queue'))
  <2> SUFFICES ASSUME NEW i \in DOMAIN queue', NEW j \in DOMAIN queue', i < j
               PROVE  queue'[i].req < queue'[j].req
    BY DEF Increasing, Messages
  <2>1. i \in DOMAIN queue
    BY <1>1, <1>3
  <2>2. CASE j \in DOMAIN queue
    BY <2>1, <2>2, <1>4, <1>9 DEF Increasing, Messages
  <2>3. CASE j = Len(queue) + 1
    <3>1. queue[i].req \in Placed
      BY <2>1, <1>5, QueuedIs DEF Queued
    <3> QED BY <3>1, <2>1, <2>3, <1>1, <1>2, <1>3 DEF Below
  <2> QED BY <2>2, <2>3, <1>1, <1>3
<1>11. Below(Range(history), Range(Messages(queue')))
  BY <1>2, <1>5, <1>9 DEF Below, Placed
<1>12. ASSUME NEW t \in Preps'
       PROVE  /\ Increasing(t.take) /\ Below(Range(history), Range(t.take))
              /\ \A x \in Range(t.take), j \in DOMAIN queue' : queue'[j].seq > t.through => x < queue'[j].req
              /\ Range(t.take) \subseteq Placed \cup {s}
  <2>1. CASE Carried(t)
    <3>1. PICK u \in Preps : u.take = t.take /\ u.through = t.through
      BY <2>1 DEF Carried
    <3>2. Range(t.take) \subseteq Placed
      BY <3>1 DEF Placed
    <3>3. ASSUME NEW x \in Range(t.take), NEW j \in DOMAIN queue', queue'[j].seq > t.through
          PROVE  x < queue'[j].req
      <4>1. CASE queue'[j] = e
        BY <4>1, <3>2, <1>2, <1>3 DEF Below
      <4>2. CASE j \in DOMAIN queue /\ queue'[j] = queue[j]
        BY <4>2, <3>1, <3>3, <1>9
      <4> QED BY <4>1, <4>2, <1>4
    <3> QED BY <3>1, <3>2, <3>3, <1>9
  <2>2. CASE Reads(t, queue')
    <3>1. \A j \in DOMAIN queue' : ~(queue'[j].seq > t.through)
      BY <2>2, <1>7, <1>8 DEF Reads
    <3>2. Range(t.take) \subseteq Queued \cup {s}
      BY <2>2, <1>5 DEF Reads
    <3> QED BY <2>2, <3>1, <3>2, <1>5, <1>10, <1>11 DEF Reads
  <2> QED BY <1>1, <2>1, <2>2
<1>13. LineInv'
  BY <1>9, <1>10, <1>11, <1>12 DEF LineInv, Queued
<1>14. Placed' \subseteq Placed \cup {s}
  BY <1>5, <1>12 DEF Placed, Queued
<1>15. ArrivalInv'
  BY <1>1, <1>2, <1>14 DEF QueueInv, ArrivalInv, Below
<1>16. KeptInv'
  <2> SUFFICES ASSUME ~renumbered'
               PROVE  /\ \A t \in Preps', i \in DOMAIN queue' :
                            queue'[i].seq <= t.through => queue'[i].req \in Range(t.take)
                      /\ \A r \in Requests : answer'[r] = "queued" /\ r \notin discarded' =>
                            r \in Range(history) \cup Range(Messages(queue'))
    BY DEF KeptInv, Queued
  <2>1. /\ \A t \in Preps, i \in DOMAIN queue : queue[i].seq <= t.through => queue[i].req \in Range(t.take)
        /\ \A r \in Requests : answer[r] = "queued" /\ r \notin discarded => r \in Range(history) \cup Queued
    BY DEF QueueInv, KeptInv
  <2>2. \A t \in Preps : ~(e.seq <= t.through)
    BY <1>3 DEF Queues
  <2>3. ASSUME NEW t \in Preps', NEW i \in DOMAIN queue', queue'[i].seq <= t.through
        PROVE  queue'[i].req \in Range(t.take)
    <3>1. CASE Carried(t)
      BY <2>1, <2>2, <2>3, <3>1, <1>4 DEF Carried
    <3>2. CASE Reads(t, queue')
      BY <3>2, QueuedIs DEF Reads
    <3> QED BY <1>1, <3>1, <3>2
  <2>4. ASSUME NEW r \in Requests, answer'[r] = "queued", r \notin discarded'
        PROVE  r \in Range(history) \cup Range(Messages(queue'))
    <3>1. r # s => answer[r] = "queued" /\ r \notin discarded
      BY <2>4 DEF Queues, NothingQueued
    <3> QED BY <2>1, <3>1, <1>5
  <2> QED BY <2>3, <2>4
<1> QED BY <1>13, <1>15, <1>16

LEMMA OnePreparation ==
    ASSUME Core, NEW t \in Preps
    PROVE  phase = "running" /\ st.kind = "preparing" /\ t.gen = st.gen /\ Preps = {t}
<1>1. \A u \in Preps : phase = "running" /\ u.gen = st.gen /\ st.kind = JobOf["prep"]
  BY DEF Preps, Core, PhaseInv, JobInv
<1>2. JobOf["prep"] = "preparing"
  BY DEF JobOf
<1>3. \A u \in Preps : u = t
  BY <1>1 DEF Preps, Core, TaskInv
<1> QED BY <1>1, <1>2, <1>3

LEMMA IncreasingAppended ==
    ASSUME Core, NEW take \in Seq(Requests), history' = history \o take,
           Increasing(history), Increasing(take), Below(Range(history), Range(take))
    PROVE  Increasing(history')
<1>1. /\ history \in Seq(Requests) /\ DOMAIN history = 1..Len(history) /\ Len(history) \in Nat
      /\ DOMAIN take = 1..Len(take) /\ Len(take) \in Nat
  BY LenProperties DEF Core, TypeOK
<1>2. /\ Len(history') = Len(history) + Len(take) /\ history' \in Seq(Requests)
      /\ \A i \in 1..Len(history) + Len(take) :
            history'[i] = IF i <= Len(history) THEN history[i] ELSE take[i - Len(history)]
  BY <1>1, ConcatProperties
<1>3. DOMAIN history' = 1..Len(history) + Len(take)
  BY <1>2, LenProperties
<1> SUFFICES ASSUME NEW i \in DOMAIN history', NEW j \in DOMAIN history', i < j
             PROVE  history'[i] < history'[j]
  BY DEF Increasing
<1>4. CASE j <= Len(history)
  <2>1. i \in DOMAIN history /\ j \in DOMAIN history /\ i <= Len(history)
    BY <1>1, <1>3, <1>4
  <2> QED BY <2>1, <1>2, <1>3, <1>4 DEF Increasing
<1>5. CASE i <= Len(history) /\ ~(j <= Len(history))
  <2>1. i \in DOMAIN history /\ j - Len(history) \in DOMAIN take
    BY <1>1, <1>3, <1>5
  <2>2. history'[i] \in Range(history) /\ history'[j] \in Range(take)
    BY <2>1, <1>2, <1>3, <1>5 DEF Range
  <2> QED BY <2>2 DEF Below
<1>6. CASE ~(i <= Len(history))
  <2>1. i - Len(history) \in DOMAIN take /\ j - Len(history) \in DOMAIN take
        /\ i - Len(history) < j - Len(history) /\ ~(j <= Len(history))
    BY <1>1, <1>3, <1>6
  <2> QED BY <2>1, <1>2, <1>3, <1>6 DEF Increasing
<1> QED BY <1>1, <1>3, <1>4, <1>5, <1>6

LEMMA CommitKeeps ==
    ASSUME Core, Core', QueueInv, NEW t \in tasks, PrepareCommit(t)
    PROVE  LineInv' /\ ArrivalInv' /\ KeptInv'
<1>1. /\ t.kind = "prep" /\ Report(t, "prepared", "ok")
      /\ history' = history \o t.take /\ queue' = Consumed(t.through)
      /\ UNCHANGED <<wait, asked, answer, discarded, renumbered>>
  BY DEF PrepareCommit, actor, clients, ghosts
<1>2. t \in Preps /\ Preps = {t} /\ phase = "running"
  BY <1>1, OnePreparation DEF Preps
<1>3. tasks' = tasks \ {t}
  BY <1>1 DEF Report
<1>4. Preps' = {}
  BY <1>2, <1>3 DEF Preps
<1>5. PICK take \in Seq(Requests), through \in Int : take = t.take /\ through = t.through
  BY NumbersTyped
<1>6. Range(history') = Range(history) \cup Range(take)
  BY <1>1, <1>5, HistoryGrows
<1>7. /\ Increasing(history) /\ Increasing(Messages(queue)) /\ Below(Range(history), Queued)
      /\ Increasing(take) /\ Below(Range(history), Range(take))
      /\ \A x \in Range(take), j \in DOMAIN queue : queue[j].seq > through => x < queue[j].req
  BY <1>2, <1>5 DEF QueueInv, LineInv
<1>8. PICK n \in Nat :
        \A i \in DOMAIN queue' : i \in Nat /\ n + i \in DOMAIN queue /\ queue'[i] = queue[n + i]
  BY <1>1, <1>5, ConsumedFacts
<1>9. /\ \A i \in DOMAIN queue' : queue'[i].seq > through
      /\ \A i \in DOMAIN queue : queue[i].seq > through => queue[i] \in Range(queue')
  BY <1>1, <1>5, OrderedConsumes DEF QueueInv, ConsumesTheRead
<1>10. Increasing(history')
  BY <1>1, <1>5, <1>7, IncreasingAppended
<1>11. Increasing(Messages(queue'))
  <2> SUFFICES ASSUME NEW i \in DOMAIN queue', NEW j \in DOMAIN queue', i < j
               PROVE  queue'[i].req < queue'[j].req
    BY DEF Increasing, Messages
  <2>1. n + i \in DOMAIN queue /\ n + j \in DOMAIN queue /\ n + i < n + j
    BY <1>8
  <2> QED BY <2>1, <1>7, <1>8 DEF Increasing, Messages
<1>12. Below(Range(history'), Range(Messages(queue')))
  <2> SUFFICES ASSUME NEW x \in Range(history'), NEW i \in DOMAIN queue'
               PROVE  x < queue'[i].req
    BY QueuedIs DEF Below
  <2>1. n + i \in DOMAIN queue /\ queue'[i] = queue[n + i] /\ queue[n + i].seq > through
    BY <1>8, <1>9
  <2>2. queue[n + i].req \in Queued
    BY <2>1, QueuedIs DEF Queued
  <2> QED BY <2>1, <2>2, <1>6, <1>7 DEF Below
<1>13. LineInv'
  BY <1>4, <1>10, <1>11, <1>12 DEF LineInv, Queued
<1>14. Placed' \subseteq Placed
  <2>1. Range(Messages(queue')) \subseteq Queued
    BY <1>1, <1>5, ConsumedRange DEF Queued
  <2>2. Range(take) \subseteq Placed
    BY <1>2, <1>5 DEF Placed
  <2> QED BY <2>1, <2>2, <1>4, <1>6 DEF Placed, Queued
<1>15. RequestsIn(mailbox') = RequestsIn(mailbox)
  <2>1. PICK m \in MessageType : m = Message("prepared", t.gen, "ok") /\ m.tag = "prepared"
    <3>1. t.gen \in Nat
      BY TaskOf DEF TaskType
    <3> QED BY <3>1, MessageFacts
  <2>2. Post(m)
    BY <1>1, <1>2, <2>1 DEF Report
  <2>3. /\ \A i \in DOMAIN mailbox' : \/ i \in DOMAIN mailbox /\ mailbox'[i] = mailbox[i]
                                     \/ mailbox'[i] = m
        /\ \A i \in DOMAIN mailbox : i \in DOMAIN mailbox' /\ mailbox'[i] = mailbox[i]
    BY <2>2, PostFacts
  <2>4. \A i \in DOMAIN mailbox' : mailbox'[i].tag = "request" => i \in DOMAIN mailbox /\ mailbox'[i] = mailbox[i]
    BY <2>1, <2>3
  <2> QED BY <2>3, <2>4 DEF RequestsIn
<1>16. ArrivalInv'
  BY <1>1, <1>14, <1>15 DEF QueueInv, ArrivalInv, Below
<1>17. KeptInv'
  <2> SUFFICES ASSUME ~renumbered, NEW r \in Requests, answer[r] = "queued", r \notin discarded
               PROVE  r \in Range(history') \cup Range(Messages(queue'))
    BY <1>1, <1>4 DEF KeptInv, Queued
  <2>1. /\ \A i \in DOMAIN queue : queue[i].seq <= through => queue[i].req \in Range(take)
        /\ r \in Range(history) \cup Queued
    BY <1>2, <1>5 DEF QueueInv, KeptInv
  <2>2. CASE r \in Queued
    <3>1. PICK i \in DOMAIN queue : r = queue[i].req
      BY <2>2, QueuedIs DEF Queued
    <3>2. CASE queue[i].seq <= through
      BY <2>1, <3>1, <3>2, <1>6
    <3>3. CASE queue[i].seq > through
      <4>1. PICK k \in DOMAIN queue' : queue'[k] = queue[i]
        BY <3>3, <1>9 DEF Range
      <4> QED BY <3>1, <4>1, QueuedIs
    <3>4. queue[i].seq \in Nat
      BY QueueFacts
    <3> QED BY <3>2, <3>3, <3>4
  <2> QED BY <2>1, <2>2, <1>6
<1> QED BY <1>13, <1>16, <1>17

-----------------------------------------------------------------------------
(* Only Ask adds a request to the mailbox, and a preparation that reports  *)
(* an error leaves its trace.                                              *)
IsFailure(m) == m.tag = "prepared" /\ m.out = "error"
MailShapes ==
    \/ Shrinks \/ mailbox' = <<>>
    \/ \E m \in MessageType : m.tag # "request" /\ Post(m) /\ (IsFailure(m) => failed' \/ refused')

LEMMA ReportMail ==
    ASSUME Core, NEW t \in tasks, NEW tag \in {"prepared", "streamEnded", "scriptEnded"},
           NEW out \in {"ok", "error", "stopped", "text", "result", "prompt", "run"}, Report(t, tag, out),
           tag = "prepared" /\ out = "error" => failed' \/ refused'
    PROVE  MailShapes
<1>1. t.gen \in Nat
  BY TaskOf DEF TaskType
<1>2. Message(tag, t.gen, out) \in MessageType /\ Message(tag, t.gen, out).tag = tag
      /\ Message(tag, t.gen, out).out = out
  BY <1>1, MessageFacts
<1>3. mailbox' = mailbox \/ Post(Message(tag, t.gen, out))
  BY DEF Report
<1> QED BY <1>2, <1>3 DEF MailShapes, Shrinks, IsFailure

LEMMA MailSteps ==
    ASSUME Core, [Next]_vars, ~Ask
    PROVE  asked' = asked /\ MailShapes
<1>1. CASE StopAll
  <2>1. Message("stop", 0, "none") \in MessageType /\ Message("stop", 0, "none").tag = "stop"
    BY MessageFacts
  <2> QED BY <1>1, <2>1 DEF StopAll, clients, MailShapes, Shrinks, IsFailure
<1>2. CASE Handler
  <2>1. ASSUME NEW r \in Requests,
               Send(r) \/ SendRejected(r) \/ Cancel(r) \/ Approve(r) \/ Deny(r) \/ Delete(r)
        PROVE  asked' = asked /\ Shrinks
    BY <2>1 DEF Send, SendRejected, Cancel, Approve, Deny, Delete, Asked, Received, Ready, Shrinks
  <2>2. CASE \/ SendClaim \/ CancelJoined \/ DeleteJoined \/ DeleteFailed \/ DeletePutOff
             \/ Stop \/ Exit
    BY <2>2 DEF SendClaim, CancelJoined, DeleteJoined, DeleteFailed, DeletePutOff, Stop, Exit,
                Received, Ready, Shrinks, clients, MailShapes
  <2>3. CASE Leave
    BY <2>3 DEF Leave, MailShapes
  <2>4. CASE \/ PreparedStarts \/ PreparedStopping \/ PreparedFailed
             \/ StreamEventFailed \/ StreamEnded \/ ScriptEnded \/ Stale
    BY <2>4 DEF PreparedStarts, PreparedStopping, PreparedFailed, StreamEventFailed, StreamEnded,
                ScriptEnded, Stale, Reported, Received, Ready, Shrinks, clients, MailShapes
  <2> QED BY <1>2, <2>1, <2>2, <2>3, <2>4 DEF Handler, MailShapes
<1>3. CASE TaskStep
  <2>1. PICK t \in tasks : \/ PrepareOwns(t) \/ PrepareClaim(t) \/ PrepareCommit(t) \/ PrepareFail(t)
                           \/ StreamEnd(t) \/ StreamEvent(t) \/ ScriptEnd(t)
    BY <1>3 DEF TaskStep
  <2>2. asked' = asked
    BY <2>1 DEF PrepareOwns, PrepareClaim, PrepareCommit, PrepareFail, StreamEnd, StreamEvent,
                ScriptEnd, clients
  <2>3. CASE PrepareOwns(t)
    BY <2>2, <2>3 DEF PrepareOwns, MailShapes, Shrinks
  <2>4. CASE PrepareClaim(t) \/ PrepareCommit(t) \/ PrepareFail(t)
    <3>1. \/ \E out \in {"ok", "error"} :
                Report(t, "prepared", out) /\ (out = "error" => failed' \/ refused')
          \/ mailbox' = mailbox
      BY <2>4 DEF PrepareClaim, PrepareCommit, PrepareFail
    <3> QED BY <2>2, <3>1, ReportMail DEF MailShapes, Shrinks
  <2>5. CASE StreamEnd(t)
    <3>1. \E out \in {"stopped", "text", "error", "result", "prompt", "run"} : Report(t, "streamEnded", out)
      BY <2>5 DEF StreamEnd
    <3> QED BY <2>2, <3>1, ReportMail
  <2>6. CASE StreamEvent(t)
    <3>1. t.gen \in Nat
      BY TaskOf DEF TaskType
    <3>2. Message("event", t.gen, "error") \in MessageType /\ Message("event", t.gen, "error").tag = "event"
      BY <3>1, MessageFacts
    <3> QED BY <2>2, <2>6, <3>2 DEF StreamEvent, MailShapes, IsFailure
  <2>7. CASE ScriptEnd(t)
    <3>1. \E out \in {"ok", "error"} : Report(t, "scriptEnded", out)
      BY <2>7 DEF ScriptEnd
    <3> QED BY <2>2, <3>1, ReportMail
  <2> QED BY <2>1, <2>2, <2>3, <2>4, <2>5, <2>6, <2>7
<1>4. CASE Over \/ UNCHANGED vars
  BY <1>4 DEF Over, vars, clients, MailShapes, Shrinks
<1> QED BY <1>1, <1>2, <1>3, <1>4 DEF Next

LEMMA MailSubset ==
    ASSUME Core, MailShapes
    PROVE  RequestsIn(mailbox') \subseteq RequestsIn(mailbox)
<1>1. CASE Shrinks
  <2>1. \A i \in DOMAIN mailbox' : \E j \in DOMAIN mailbox : mailbox'[i] = mailbox[j]
    BY <1>1, ShrinkFacts DEF Core
  <2> QED BY <2>1 DEF RequestsIn
<1>2. CASE mailbox' = <<>>
  <2>1. DOMAIN mailbox' = {}
    BY <1>2, EmptySeq
  <2> QED BY <2>1 DEF RequestsIn
<1>3. ASSUME NEW m \in MessageType, m.tag # "request", Post(m)
      PROVE  RequestsIn(mailbox') \subseteq RequestsIn(mailbox)
  <2>1. \A i \in DOMAIN mailbox' : \/ i \in DOMAIN mailbox /\ mailbox'[i] = mailbox[i]
                                   \/ mailbox'[i] = m
    BY <1>3, PostFacts
  <2> QED BY <1>3, <2>1 DEF RequestsIn
<1> QED BY <1>1, <1>2, <1>3 DEF MailShapes

MailOrdered ==
    \A i, j \in DOMAIN mailbox :
          i < j /\ mailbox[i].tag = "request" /\ mailbox[j].tag = "request" => mailbox[i].n < mailbox[j].n

LEMMA MailOrderedKept ==
    ASSUME Core, MailOrdered, MailShapes
    PROVE  MailOrdered'
<1>1. CASE mailbox' = mailbox \/ mailbox' = <<>>
  <2>1. DOMAIN <<>> = {}
    BY EmptySeq
  <2> QED BY <1>1, <2>1 DEF MailOrdered
<1>2. CASE mailbox # <<>> /\ mailbox' = Tail(mailbox)
  <2>1. /\ \A i \in DOMAIN mailbox' : i + 1 \in DOMAIN mailbox /\ mailbox'[i] = mailbox[i + 1]
        /\ \A i \in DOMAIN mailbox' : i \in Nat
    BY <1>2, TailOf DEF Core, TypeOK
  <2>2. ASSUME NEW i \in DOMAIN mailbox', NEW j \in DOMAIN mailbox', i < j
        PROVE  i + 1 < j + 1
    BY <2>1, <2>2
  <2> QED BY <2>1, <2>2 DEF MailOrdered
<1>3. ASSUME NEW m \in MessageType, m.tag # "request", Post(m)
      PROVE  MailOrdered'
  <2>1. \A i \in DOMAIN mailbox' : \/ i \in DOMAIN mailbox /\ mailbox'[i] = mailbox[i]
                                   \/ mailbox'[i] = m
    BY <1>3, PostFacts
  <2> QED BY <1>3, <2>1 DEF MailOrdered
<1> QED BY <1>1, <1>2, <1>3 DEF MailShapes, Shrinks

LEMMA AskFlow ==
    ASSUME Core, Ask
    PROVE  \E r \in Requests, k \in Kinds :
              /\ asked[r] = "none" /\ \A s \in 1..r - 1 : asked[s] # "none"
              /\ asked' = [asked EXCEPT ![r] = k] /\ k # "none"
              /\ \A x \in Requests : answer'[x] = "queued" => answer[x] = "queued"
              /\ \/ mailbox' = mailbox
                 \/ \E m \in MessageType : m.tag = "request" /\ m.n = r /\ Post(m)
              /\ wait'.req \in {0, wait.req}
              /\ UNCHANGED <<tasks, queue, history, discarded, renumbered>>
<1>1. PICK r \in Requests, k \in Kinds :
        /\ asked[r] = "none" /\ \A s \in 1..r - 1 : asked[s] # "none"
        /\ asked' = [asked EXCEPT ![r] = k]
        /\ IF closed
           THEN answer' = Answered({r}, "error") /\ UNCHANGED <<phase, mailbox, actor>>
           ELSE /\ Post(Message("request", r, "none"))
                /\ IF phase = "none"
                   THEN st' = Idle /\ gen' = 0 /\ wait' = NoWait /\ deferred' = <<>> /\ stopping' = FALSE
                   ELSE UNCHANGED actor
                /\ UNCHANGED answer
        /\ UNCHANGED <<tasks, queue, history, discarded, renumbered>>
  BY DEF Ask, store, ghosts
<1>2. PICK m \in MessageType : m = Message("request", r, "none") /\ m.tag = "request" /\ m.n = r
  BY RequestRange, MessageFacts
<1>3. \A x \in Requests : answer'[x] = "queued" => answer[x] = "queued"
  BY <1>1 DEF Answered
<1>4. wait'.req \in {0, wait.req}
  BY <1>1, NoWaitFacts DEF actor
<1>5. mailbox' = mailbox \/ Post(m)
  BY <1>1, <1>2
<1>6. k # "none"
  BY SessionActorAssumption
<1> QED BY <1>1, <1>2, <1>3, <1>4, <1>5, <1>6

LEMMA AskedPlaces ==
    ASSUME Core, Book
    PROVE  \A x \in Placed \cup RequestsIn(mailbox) : x \in Requests /\ asked[x] # "none"
<1>1. \A x \in Placed : x \in Requests
  BY NumbersTyped
<1>2. /\ \A x \in RequestsIn(mailbox) : x \in Requests /\ asked[x] # "none"
      /\ \A x \in Range(history) : asked[x] = "send"
  BY DEF Book, KindInv
<1>3. /\ \A x \in Queued : asked[x] = "send"
      /\ \A t \in Preps : \A x \in Range(t.take) : asked[x] = "send"
  BY DEF Book, QueuedInv, Queued, Preps
<1> QED BY <1>1, <1>2, <1>3 DEF Placed

LEMMA AskKeeps ==
    ASSUME Core, Core', Book, QueueInv, Ask
    PROVE  LineInv' /\ ArrivalInv' /\ MailInv' /\ KeptInv'
<1>1. PICK r \in Requests, k \in Kinds :
              /\ asked[r] = "none" /\ \A s \in 1..r - 1 : asked[s] # "none"
              /\ asked' = [asked EXCEPT ![r] = k] /\ k # "none"
              /\ \A x \in Requests : answer'[x] = "queued" => answer[x] = "queued"
              /\ \/ mailbox' = mailbox
                 \/ \E m \in MessageType : m.tag = "request" /\ m.n = r /\ Post(m)
              /\ wait'.req \in {0, wait.req}
              /\ UNCHANGED <<tasks, queue, history, discarded, renumbered>>
  BY AskFlow
<1>2. LineInv' /\ KeptInv'
  BY <1>1 DEF QueueInv, LineInv, KeptInv, Preps, Queued
<1>3. Placed' = Placed
  BY <1>1 DEF Placed, Preps, Queued
<1>4. /\ \A i, j \in DOMAIN mailbox :
            i < j /\ mailbox[i].tag = "request" /\ mailbox[j].tag = "request" => mailbox[i].n < mailbox[j].n
      /\ \A x, s \in Requests : x < s /\ asked[s] # "none" => asked[x] # "none"
  BY DEF QueueInv, MailInv
<1>5. \A x \in Requests : x \in Nat
  BY RequestRange
<1>6. \A x \in Requests : asked[x] # "none" => x < r
  <2> TAKE x \in Requests
  <2> HAVE asked[x] # "none"
  <2>1. x # r /\ ~(r < x)
    BY <1>1, <1>4
  <2> QED BY <2>1, <1>5
<1>7. Below(Placed, {r}) /\ Below(RequestsIn(mailbox), {r})
  BY <1>6, AskedPlaces DEF Below
<1>8. wait.req # 0 => wait.req < r
  <2> HAVE wait.req # 0
  <2>1. wait.req \in 0..MaxRequests /\ asked[wait.req] = "send"
    BY DEF Core, TypeOK, WaitType, Book, KindInv
  <2>2. wait.req \in Requests
    BY <2>1, SessionActorAssumption DEF Requests
  <2> QED BY <1>6, <2>1, <2>2
<1>9. DOMAIN mailbox = 1..Len(mailbox) /\ Len(mailbox) \in Nat
  BY LenProperties DEF Core, TypeOK
<1>10. /\ \A i \in DOMAIN mailbox : i \in DOMAIN mailbox' /\ mailbox'[i] = mailbox[i]
       /\ \A i \in DOMAIN mailbox' : \/ i \in DOMAIN mailbox /\ mailbox'[i] = mailbox[i]
                                     \/ i = Len(mailbox) + 1 /\ mailbox'[i].n = r
  BY <1>1, PostFacts
<1>11. RequestsIn(mailbox') \subseteq RequestsIn(mailbox) \cup {r}
  BY <1>10 DEF RequestsIn
<1>12. ArrivalInv'
  BY <1>1, <1>3, <1>7, <1>8, <1>11 DEF QueueInv, ArrivalInv, Below
<1>13. \A i, j \in DOMAIN mailbox' :
            i < j /\ mailbox'[i].tag = "request" /\ mailbox'[j].tag = "request" => mailbox'[i].n < mailbox'[j].n
  <2> SUFFICES ASSUME NEW i \in DOMAIN mailbox', NEW j \in DOMAIN mailbox', i < j,
                      mailbox'[i].tag = "request", mailbox'[j].tag = "request"
               PROVE  mailbox'[i].n < mailbox'[j].n
    OBVIOUS
  <2>1. i \in DOMAIN mailbox /\ mailbox'[i] = mailbox[i]
    BY <1>9, <1>10
  <2>2. CASE j \in DOMAIN mailbox /\ mailbox'[j] = mailbox[j]
    BY <1>4, <2>1, <2>2
  <2>3. CASE mailbox'[j].n = r
    <3>1. mailbox[i].n \in RequestsIn(mailbox)
      BY <2>1 DEF RequestsIn
    <3> QED BY <3>1, <2>1, <2>3, <1>7 DEF Below
  <2> QED BY <1>10, <2>2, <2>3
<1>14. \A x, s \in Requests : x < s /\ asked'[s] # "none" => asked'[x] # "none"
  <2> TAKE x, s \in Requests
  <2> HAVE x < s /\ asked'[s] # "none"
  <2>1. asked \in [Requests -> Kinds \cup {"none"}]
    BY DEF Core, TypeOK
  <2>2. CASE s = r
    <3>1. x \in 1..r - 1 /\ x # r
      BY <1>5, <2>2 DEF Requests
    <3> QED BY <1>1, <2>1, <3>1
  <2>3. CASE s # r
    <3>1. asked[s] # "none"
      BY <1>1, <2>1, <2>3
    <3> QED BY <1>1, <1>4, <2>1, <3>1
  <2> QED BY <2>2, <2>3
<1>15. MailInv'
  BY <1>13, <1>14 DEF MailInv
<1> QED BY <1>2, <1>12, <1>15

LEMMA HeadFirst ==
    ASSUME Core, MailInv, mailbox # <<>>, mailbox' = Tail(mailbox), Head(mailbox).tag = "request"
    PROVE  /\ Head(mailbox).n \in RequestsIn(mailbox)
           /\ Below({Head(mailbox).n}, RequestsIn(mailbox'))
<1>1. /\ Head(mailbox) = mailbox[1] /\ 1 \in DOMAIN mailbox
      /\ \A i \in DOMAIN mailbox' : i + 1 \in DOMAIN mailbox /\ mailbox'[i] = mailbox[i + 1] /\ i \in Nat
  BY TailOf DEF Core, TypeOK
<1>2. \A i \in DOMAIN mailbox' : i >= 1
  <2>1. mailbox' \in Seq(MessageType)
    BY HeadTailProperties DEF Core, TypeOK
  <2> QED BY <2>1, LenProperties
<1>3. \A i \in DOMAIN mailbox' : 1 < i + 1
  BY <1>1, <1>2
<1>4. \A i \in DOMAIN mailbox' : mailbox'[i].tag = "request" => Head(mailbox).n < mailbox'[i].n
  BY <1>1, <1>3 DEF MailInv
<1> QED BY <1>1, <1>4 DEF RequestsIn, Below

-----------------------------------------------------------------------------
(* Every step but an arrival and a commit is such a step. *)
LEMMA SameDraws ==
    ASSUME NEW q, NEW ts, tasks' = ts PROVE Draws(ts, q)
BY DEF Draws

LEMMA PassFlow ==
    ASSUME Core, UNCHANGED <<history, asked>>, MailShapes,
           discarded \subseteq discarded', renumbered => renumbered',
           wait'.req \in {0, wait.req},
           queue' = queue \/ (queue' = <<>> /\ Queued \subseteq discarded'),
           NEW ts, Same(ts), Draws(ts, queue'),
           \A r \in Requests : answer'[r] = "queued" => answer[r] = "queued"
    PROVE  Flow
<1>1. \A u \in ts : \E t \in tasks : u.kind = t.kind /\ u.take = t.take /\ u.through = t.through
  BY SameTakes
<1>2. \A t \in Preps' : Carried(t) \/ Reads(t, queue')
  BY <1>1 DEF Preps, Carried, Reads, Draws
<1>3. Passes
  BY <1>2 DEF Passes, NothingQueued
<1> QED BY <1>3, MailSubset DEF Flow

LEMMA NothingNewQueued ==
    ASSUME NEW rs, NEW a, a # "queued",
           answer' = answer \/ answer' = Answered(rs, a)
    PROVE  \A r \in Requests : answer'[r] = "queued" => answer[r] = "queued"
BY DEF Answered

LEMMA StillFlow ==
    ASSUME Core, MailShapes, UNCHANGED <<history, asked, tasks, queue, discarded, renumbered>>,
           wait'.req \in {0, wait.req},
           \A r \in Requests : answer'[r] = "queued" => answer[r] = "queued"
    PROVE  Flow
<1>1. PICK ts : ts = tasks
  OBVIOUS
<1>2. Same(ts) /\ Draws(ts, queue')
  BY <1>1, SameDraws DEF Same
<1> QED BY <1>2, PassFlow

LEMMA ApproveFlow ==
    ASSUME Core, MailShapes, NEW r \in Requests, Approve(r) PROVE Flow
<1>1. /\ UNCHANGED <<history, asked, queue, discarded, renumbered, wait>>
      /\ StartScript \/ UNCHANGED <<st, gen, tasks>>
      /\ \E a \in {"ok", "error"} : answer' = Answered({r}, a)
  BY DEF Approve, store, ghosts
<1>2. \A x \in Requests : answer'[x] = "queued" => answer[x] = "queued"
  BY <1>1, NothingNewQueued
<1>3. PICK ts : ts = tasks
  OBVIOUS
<1>4. Draws(ts, queue') /\ Same(ts)
  BY <1>1, <1>3, StartScriptDraws, SameDraws DEF Same
<1> QED BY <1>1, <1>2, <1>4, PassFlow

LEMMA DenyFlow ==
    ASSUME Core, MailShapes, NEW r \in Requests, Deny(r) PROVE Flow
<1>1. /\ UNCHANGED <<history, asked, queue, discarded, renumbered, wait>>
      /\ FinalizeScript(tasks) \/ FinishAndDrain(tasks, queue) \/ UNCHANGED <<st, gen, tasks>>
      /\ \E a \in {"ok", "error"} : answer' = Answered({r}, a)
  BY DEF Deny, store, ghosts
<1>2. \A x \in Requests : answer'[x] = "queued" => answer[x] = "queued"
  BY <1>1, NothingNewQueued
<1>3. PICK ts : ts = tasks
  OBVIOUS
<1>4. Draws(ts, queue') /\ Same(ts)
  BY <1>1, <1>3, FinalizeScriptDraws, FinishAndDrainDraws, SameDraws DEF Same, Core, TypeOK
<1> QED BY <1>1, <1>2, <1>4, PassFlow

LEMMA DeleteSessionFlow ==
    ASSUME Core, MailShapes, NEW r, DeleteSession(r),
           UNCHANGED <<history, asked, queue, discarded, renumbered>>
    PROVE  Flow
<1>1. \/ UNCHANGED <<tasks, wait>> /\ answer' = Answered({r}, "error")
      \/ tasks' = Told(st.gen) /\ wait' = Joining("delete", {r}) /\ UNCHANGED answer
  BY DEF DeleteSession
<1>2. wait'.req \in {0, wait.req}
  BY <1>1, JoiningFacts DEF Joining, NoWait
<1>3. \A x \in Requests : answer'[x] = "queued" => answer[x] = "queued"
  BY <1>1, NothingNewQueued
<1>4. PICK ts : ts = tasks'
  OBVIOUS
<1>5. Draws(ts, queue') /\ Same(ts)
  BY <1>1, <1>4, SameDraws DEF Same
<1> QED BY <1>2, <1>3, <1>5, PassFlow

LEMMA DeleteFlow ==
    ASSUME Core, MailShapes, NEW r \in Requests, Delete(r) PROVE Flow
<1>1. UNCHANGED <<history, asked, queue, discarded, renumbered>>
  BY DEF Delete, store, ghosts
<1>2. CASE DeleteSession(r)
  BY <1>1, <1>2, DeleteSessionFlow
<1>3. CASE UNCHANGED <<st, tasks, wait, answer>>
  BY <1>1, <1>3, StillFlow
<1> QED BY <1>2, <1>3 DEF Delete

LEMMA DeletePutOffFlow ==
    ASSUME Core, MailShapes, DeletePutOff PROVE Flow
<1>1. UNCHANGED <<history, asked, queue, discarded, renumbered>> /\ DeleteSession(Head(deferred))
  BY DEF DeletePutOff, store, ghosts
<1>2. PICK r : r = Head(deferred)
  OBVIOUS
<1> QED BY <1>1, <1>2, DeleteSessionFlow

LEMMA StopFlow ==
    ASSUME Core, MailShapes, Stop PROVE Flow
<1>1. /\ UNCHANGED <<history, asked, queue, discarded, renumbered, wait, answer>>
      /\ tasks' = Told(st.gen) \/ tasks' = tasks
  BY DEF Stop, store, ghosts, clients
<1>2. PICK ts : ts = tasks'
  OBVIOUS
<1>3. Draws(ts, queue') /\ Same(ts)
  BY <1>1, <1>2, SameDraws DEF Same
<1> QED BY <1>1, <1>3, PassFlow

LEMMA QuietFlow ==
    ASSUME Core, MailShapes, asked' = asked,
           \/ StopAll \/ Exit \/ Leave \/ Stale \/ PreparedStopping
           \/ (\E r \in Requests : SendRejected(r)) \/ Over \/ UNCHANGED vars
    PROVE  Flow
<1>1. UNCHANGED <<history, queue, tasks, discarded, renumbered, wait>>
  BY DEF StopAll, Exit, Leave, Stale, PreparedStopping, SendRejected, Over, vars, store, actor, ghosts
<1>2. ASSUME NEW x \in Requests, answer'[x] = "queued" PROVE answer[x] = "queued"
  <2>1. CASE StopAll \/ Exit \/ Stale \/ Over \/ UNCHANGED vars
    BY <1>2, <2>1 DEF StopAll, Exit, Stale, Over, vars, clients
  <2>2. CASE Leave \/ \E r \in Requests : SendRejected(r)
    BY <1>2, <2>2 DEF Leave, SendRejected, Answered
  <2>3. CASE PreparedStopping
    BY <1>2, <2>3 DEF PreparedStopping, PreparationAnswered
  <2> QED BY <2>1, <2>2, <2>3
<1> QED BY <1>1, <1>2, StillFlow

LEMMA JoinedFlow ==
    ASSUME Core, MailShapes, CancelJoined \/ DeleteJoined \/ DeleteFailed PROVE Flow
<1>1. wait'.req = 0 /\ tasks = {}
  BY JoinedFacts, NoWaitFacts DEF CancelJoined, DeleteJoined, DeleteFailed
<1>2. PICK ts : ts = tasks
  OBVIOUS
<1>3. CASE CancelJoined
  <2>1. /\ UNCHANGED <<history, asked, queue, discarded, renumbered>>
        /\ FinishAndDrain(tasks, queue) /\ answer' = Answered(wait.waiters, "ok")
    BY <1>3 DEF CancelJoined, store, ghosts
  <2>2. Draws(ts, queue') /\ Same(ts)
    BY <1>2, <2>1, FinishAndDrainDraws DEF Same, Core, TypeOK
  <2>3. \A x \in Requests : answer'[x] = "queued" => answer[x] = "queued"
    BY <2>1, NothingNewQueued
  <2> QED BY <1>1, <2>1, <2>2, <2>3, PassFlow
<1>4. CASE DeleteJoined
  <2>1. /\ UNCHANGED <<history, asked, tasks, renumbered>>
        /\ queue' = <<>> /\ discarded' = discarded \cup Queued
        /\ answer' = [r \in Requests |-> IF r \in wait.waiters THEN "ok"
                                         ELSE IF r \in Range(deferred) THEN "error" ELSE answer[r]]
    BY <1>4 DEF DeleteJoined, Queued
  <2>2. Draws(ts, queue') /\ Same(ts)
    BY <1>2, <2>1, SameDraws DEF Same
  <2>3. \A x \in Requests : answer'[x] = "queued" => answer[x] = "queued"
    BY <2>1
  <2> QED BY <1>1, <2>1, <2>2, <2>3, PassFlow
<1>5. CASE DeleteFailed
  <2>1. /\ UNCHANGED <<history, asked, queue, tasks, discarded, renumbered>>
        /\ answer' = Answered(wait.waiters, "error")
    BY <1>5 DEF DeleteFailed, store, ghosts
  <2>2. \A x \in Requests : answer'[x] = "queued" => answer[x] = "queued"
    BY <2>1, NothingNewQueued
  <2> QED BY <1>1, <2>1, <2>2, StillFlow
<1> QED BY <1>3, <1>4, <1>5

LEMMA CancelFlow ==
    ASSUME Core, MailShapes, NEW r \in Requests, Cancel(r) PROVE Flow
<1> DEFINE clears == asked[r] = "cancelTurn" /\ leased
           kept == IF clears THEN <<>> ELSE queue
<1>1. /\ UNCHANGED <<history, asked, renumbered>>
      /\ queue' = kept
      /\ discarded' = IF clears THEN discarded \cup Queued ELSE discarded
      /\ Asked(r, {"cancelStream", "cancelTurn"})
  BY DEF Cancel, Queued
<1>2. queue' = queue \/ (queue' = <<>> /\ Queued \subseteq discarded')
  BY <1>1
<1>3. discarded \subseteq discarded'
  BY <1>1
<1>4. kept \in Seq(EntryType)
  BY EmptySeq DEF Core, TypeOK
<1>5. wait = NoWait
  BY <1>1, ReceivedFacts DEF Asked, Received, Ready, Awake, Core, WaitInv
<1>6. \/ /\ FinishAndDrain(tasks, kept) /\ wait' = wait
         /\ answer' = Answered({r}, "ok") \/ answer' = Answered({r}, "error")
      \/ /\ tasks' = Told(st.gen) /\ answer' = answer /\ wait' = wait
      \/ /\ tasks' = tasks /\ answer' = answer /\ wait' = wait
      \/ CancelStreamJob(tasks, st, {r}, answer)
      \/ /\ tasks' = tasks /\ answer' = Answered({r}, "ok") /\ wait' = wait
  BY DEF Cancel
<1> HIDE DEF clears, kept
<1>7. CASE /\ FinishAndDrain(tasks, kept) /\ wait' = wait
           /\ answer' = Answered({r}, "ok") \/ answer' = Answered({r}, "error")
  <2>1. PICK ts : ts = tasks
    OBVIOUS
  <2>2. Draws(ts, queue') /\ Same(ts)
    BY <1>1, <1>4, <1>7, <2>1, FinishAndDrainDraws DEF Same
  <2>3. \A x \in Requests : answer'[x] = "queued" => answer[x] = "queued"
    BY <1>7, NothingNewQueued
  <2> QED BY <1>1, <1>2, <1>3, <1>7, <2>2, <2>3, PassFlow
<1>8. CASE /\ tasks' = Told(st.gen) \/ tasks' = tasks
           /\ answer' = answer \/ answer' = Answered({r}, "ok")
           /\ wait' = wait
  <2>1. PICK ts : ts = tasks'
    OBVIOUS
  <2>2. Draws(ts, queue') /\ Same(ts)
    BY <1>8, <2>1, SameDraws DEF Same
  <2>3. \A x \in Requests : answer'[x] = "queued" => answer[x] = "queued"
    BY <1>8, NothingNewQueued
  <2> QED BY <1>1, <1>2, <1>3, <1>8, <2>2, <2>3, PassFlow
<1>9. CASE CancelStreamJob(tasks, st, {r}, answer)
  <2>1. /\ tasks' = Told(st.gen) \/ tasks' = tasks
        /\ wait' = wait \/ wait' = Joining("cancel", {r})
    BY <1>9 DEF CancelStreamJob, Told
  <2>2. \A x \in Requests : answer'[x] = "queued" => answer[x] = "queued"
    BY <1>9 DEF CancelStreamJob
  <2>3. wait'.req \in {0, wait.req}
    BY <2>1 DEF Joining, NoWait
  <2>4. PICK ts : ts = tasks'
    OBVIOUS
  <2>5. Draws(ts, queue') /\ Same(ts)
    BY <2>1, <2>4, SameDraws DEF Same
  <2> QED BY <1>1, <1>2, <1>3, <2>2, <2>3, <2>5, PassFlow
<1> QED BY <1>6, <1>7, <1>8, <1>9

LEMMA StreamTold ==
    ASSUME Core, NEW g, NEW ts, tasks' = ts \/ tasks' = {Tell(t, g) : t \in ts},
           ts \subseteq TaskType, \A t \in ts : t.kind # "prep"
    PROVE  Preps' = {}
BY TellFacts DEF Preps

LEMMA PreparedStartsFlow ==
    ASSUME Core, MailShapes, PreparedStarts PROVE Flow
<1> DEFINE ts == tasks \cup {Task("stream", gen + 1)}
           job == Job("streaming", gen + 1)
<1>1. /\ UNCHANGED <<history, asked, queue, discarded, renumbered>>
      /\ Reported("prepared", {"ok"}) /\ UNCHANGED registry
      /\ \/ CancelStreamJob(ts, job, st.waiters, Answered({st.req}, "started"))
         \/ tasks' = ts /\ wait' = wait /\ answer' = Answered({st.req}, "started")
  BY DEF PreparedStarts, store, ghosts
<1>2. Leftover(tasks, gen)
  BY <1>1, ReportedFacts
<1>3. gen + 1 \in Nat
  BY DEF Core, TypeOK
<1>4. ts \subseteq TaskType /\ \A t \in ts : t.kind # "prep"
  <2>1. tasks \subseteq TaskType /\ \A t \in tasks : t.kind # "prep"
    BY <1>2, TaskOf DEF Leftover
  <2>2. Task("stream", gen + 1) \in TaskType /\ Task("stream", gen + 1).kind = "stream"
    BY <1>3, TaskFacts
  <2> QED BY <2>1, <2>2
<1>5. PICK g : g = job.gen
  OBVIOUS
<1>6. tasks' = ts \/ tasks' = {Tell(t, g) : t \in ts}
  BY <1>1, <1>5 DEF CancelStreamJob, Tell
<1>7. wait'.req \in {0, wait.req}
  BY <1>1 DEF CancelStreamJob, Joining, NoWait
<1>8. \A x \in Requests : answer'[x] = "queued" => answer[x] = "queued"
  BY <1>1 DEF CancelStreamJob, Answered
<1> HIDE DEF ts, job
<1>9. Preps' = {}
  BY <1>4, <1>6, StreamTold
<1>10. Passes
  BY <1>1, <1>7, <1>8, <1>9 DEF Passes, NothingQueued
<1> QED BY <1>1, <1>10, MailSubset DEF Flow

LEMMA PreparedFailedFlow ==
    ASSUME Core, MailShapes, PreparedFailed PROVE Flow
<1>1. /\ UNCHANGED <<history, asked, queue, discarded, renumbered, wait>>
      /\ StartContinuation(tasks, TRUE) \/ Drain(tasks, queue) \/ Rest(tasks)
      /\ answer' = PreparationAnswered("error")
  BY DEF PreparedFailed, store, ghosts
<1>2. PICK ts : ts = tasks
  OBVIOUS
<1>3. Draws(ts, queue') /\ Same(ts)
  BY <1>1, <1>2, StartContinuationDraws, DrainDraws, RestDraws DEF Same, Core, TypeOK
<1>4. \A x \in Requests : answer'[x] = "queued" => answer[x] = "queued"
  BY <1>1 DEF PreparationAnswered
<1> QED BY <1>1, <1>3, <1>4, PassFlow

LEMMA StreamReportsFlow ==
    ASSUME Core, MailShapes, StreamEventFailed \/ StreamEnded \/ ScriptEnded PROVE Flow
<1>1. CASE StreamEventFailed
  <2>1. /\ UNCHANGED <<history, asked, answer, queue, discarded, renumbered, wait>>
        /\ StreamFailed(Told(st.gen))
    BY <1>1 DEF StreamEventFailed, store, ghosts, clients
  <2>2. PICK ts : ts = Told(st.gen)
    OBVIOUS
  <2>3. Draws(ts, queue') /\ Same(ts)
    BY <2>1, <2>2, StreamFailedDraws DEF Same
  <2> QED BY <2>1, <2>3, PassFlow
<1>2. PICK ts : ts = tasks
  OBVIOUS
<1>3. CASE StreamEnded
  <2>1. /\ UNCHANGED <<history, asked, answer, queue, discarded, renumbered, wait>>
        /\ \/ Rest(tasks) \/ FinishAndDrain(tasks, queue) \/ FinalizeScript(tasks)
           \/ tasks' = tasks \/ StartScript \/ StreamFailed(tasks)
    BY <1>3 DEF StreamEnded, store, ghosts, clients
  <2>2. Draws(ts, queue') /\ Same(ts)
    BY <1>2, <2>1, RestDraws, FinishAndDrainDraws, FinalizeScriptDraws, StartScriptDraws, SameDraws,
       StreamFailedDraws DEF Same, Core, TypeOK
  <2> QED BY <2>1, <2>2, PassFlow
<1>4. CASE ScriptEnded
  <2>1. /\ UNCHANGED <<history, asked, queue, discarded, renumbered, wait>>
        /\ FinalizeScript(tasks) \/ FinishAndDrain(tasks, queue)
        /\ answer' = Answered(st.waiters, "ok")
    BY <1>4 DEF ScriptEnded, store, ghosts
  <2>2. Draws(ts, queue') /\ Same(ts)
    BY <1>2, <2>1, FinishAndDrainDraws, FinalizeScriptDraws DEF Same, Core, TypeOK
  <2>3. \A x \in Requests : answer'[x] = "queued" => answer[x] = "queued"
    BY <2>1, NothingNewQueued
  <2> QED BY <2>1, <2>2, <2>3, PassFlow
<1> QED BY <1>1, <1>3, <1>4

LEMMA TaskFlow ==
    ASSUME Core, MailShapes, asked' = asked, NEW t \in tasks,
           \/ PrepareOwns(t) \/ PrepareClaim(t) \/ PrepareFail(t)
           \/ StreamEnd(t) \/ StreamEvent(t) \/ ScriptEnd(t)
    PROVE  Flow
<1>1. UNCHANGED <<history, queue, answer, discarded, renumbered, wait>>
  BY DEF PrepareOwns, PrepareClaim, PrepareFail, StreamEnd, StreamEvent, ScriptEnd, store, clients,
         ghosts, actor
<1>2. \/ tasks' = tasks \ {t}
      \/ \E u : tasks' = (tasks \ {t}) \cup {u} /\ u.kind = t.kind /\ u.take = t.take /\ u.through = t.through
  <2>1. t \in TaskType
    BY TaskOf
  <2>2. \A step : LET u == [t EXCEPT !.step = step]
                  IN  u.kind = t.kind /\ u.take = t.take /\ u.through = t.through
    BY <2>1 DEF TaskType
  <2>3. \A step, newly : LET u == [t EXCEPT !.step = step, !.newly = newly]
                         IN  u.kind = t.kind /\ u.take = t.take /\ u.through = t.through
    BY <2>1 DEF TaskType
  <2>4. CASE PrepareOwns(t)
    BY <2>2, <2>4 DEF PrepareOwns, Becomes
  <2>5. CASE PrepareClaim(t)
    <3>1. CASE leased
      BY <2>5, <3>1 DEF PrepareClaim, Report
    <3>2. CASE ~leased
      <4> DEFINE u == [t EXCEPT !.step = "commit", !.newly = TRUE]
      <4>1. tasks' = (tasks \ {t}) \cup {u}
        BY <2>5, <3>2 DEF PrepareClaim, Becomes
      <4>2. u.kind = t.kind /\ u.take = t.take /\ u.through = t.through
        BY <2>1 DEF TaskType
      <4> QED BY <4>1, <4>2
    <3> QED BY <3>1, <3>2
  <2>6. CASE StreamEvent(t)
    BY <2>2, <2>6 DEF StreamEvent, Becomes
  <2>7. CASE PrepareFail(t) \/ StreamEnd(t) \/ ScriptEnd(t)
    BY <2>7 DEF PrepareFail, StreamEnd, ScriptEnd, Report
  <2> QED BY <2>4, <2>5, <2>6, <2>7
<1>3. \A u \in Preps' : Carried(u)
  BY <1>2 DEF Preps, Carried
<1>4. Passes
  BY <1>1, <1>3 DEF Passes, NothingQueued
<1> QED BY <1>1, <1>4, MailSubset DEF Flow

LEMMA GrantedFlow ==
    ASSUME Core, MailShapes, UNCHANGED <<history, asked, discarded>>, wait' = NoWait,
           NEW s, Comes(s), NEW next \in {"busy", "queue", "send"}, Granted(s, next),
           next = "send" => queue = <<>>
    PROVE  Flow
<1>1. wait'.req = 0 /\ s \in Requests
  BY NoWaitFacts DEF Comes
<1>2. CASE next = "send" /\ BeginPreparation(tasks, "send", s, <<>>, FALSE, FALSE)
           /\ UNCHANGED <<queue, answer, faults, renumbered>>
  <2>1. PICK t : tasks' = tasks \cup {t} /\ t.take = <<s>> /\ t.through = -1
    BY <1>2, SendPreparation
  <2>2. \A u \in Preps' : Carried(u) \/ (u.take = <<s>> /\ u.through = -1)
    BY <2>1 DEF Preps, Carried
  <2>3. Starts(s)
    BY <1>1, <1>2, <2>2 DEF Starts, NothingQueued
  <2> QED BY <1>2, <2>3, MailSubset DEF Flow
<1>3. CASE /\ next # "send" /\ queue' = Enqueued(s)
           /\ answer' = Answered({s}, "queued")
           /\ renumbered' = (renumbered \/ \E t \in tasks : Last(Enqueued(s)).seq <= t.through)
           /\ IF next = "queue" THEN Drain(tasks, Enqueued(s)) ELSE UNCHANGED <<st, gen, tasks>>
  <2>1. Draws(tasks, queue')
    <3>1. Enqueued(s) \in Seq(EntryType)
      BY <1>1, EnqueuedTyped DEF Core
    <3> QED BY <1>3, <3>1, DrainDraws, SameDraws
  <2>2. \A u \in Preps' : Carried(u) \/ Reads(u, queue')
    BY <2>1 DEF Preps, Carried, Reads, Draws
  <2>3. NothingQueued({s})
    BY <1>3 DEF NothingQueued, Answered
  <2>4. ~renumbered' => \A t \in Preps : ~(Last(Enqueued(s)).seq <= t.through)
    BY <1>3 DEF Preps
  <2>5. Queues(s)
    BY <1>1, <1>3, <2>2, <2>3, <2>4 DEF Queues
  <2>6. renumbered => renumbered'
    BY <1>3
  <2> QED BY <2>5, <2>6, MailSubset DEF Flow
<1>4. CASE answer' = Answered({s}, "error") /\ UNCHANGED <<st, gen, tasks, queue, renumbered>>
  <2>1. \A x \in Requests : answer'[x] = "queued" => answer[x] = "queued"
    BY <1>4, NothingNewQueued
  <2> QED BY <1>1, <1>4, <2>1, StillFlow
<1> QED BY <1>2, <1>3, <1>4 DEF Granted

LEMMA SendFlow ==
    ASSUME Core, MailInv, MailShapes, NEW r \in Requests, Send(r) PROVE Flow
<1>1. /\ Asked(r, {"send"}) /\ UNCHANGED <<history, asked, discarded, registry>>
      /\ \/ leased /\ Granted(r, SendKind) /\ UNCHANGED wait
         \/ wait' = Claiming(SendKind, r) /\ UNCHANGED <<tasks, queue, answer, renumbered>>
  BY DEF Send
<1>2. wait = NoWait
  BY <1>1, AskedFacts
<1>3. Comes(r)
  BY <1>1, HeadFirst DEF Comes, Asked, Received, Ready
<1>4. SendKind \in {"busy", "queue", "send"} /\ (SendKind = "send" => queue = <<>>)
  BY DEF SendKind
<1>5. CASE Granted(r, SendKind) /\ UNCHANGED wait
  <2>1. PICK next \in {"busy", "queue", "send"} : next = SendKind
    BY <1>4
  <2> QED BY <1>1, <1>2, <1>3, <1>4, <1>5, <2>1, GrantedFlow
<1>6. CASE wait' = Claiming(SendKind, r) /\ UNCHANGED <<tasks, queue, answer, renumbered>>
  <2>1. wait'.req = r
    BY <1>6 DEF Claiming, NoWait
  <2>2. Waits(r)
    BY <1>6, <2>1 DEF Waits, NothingQueued, Carried, Preps
  <2> QED BY <1>1, <1>3, <1>6, <2>2, MailSubset DEF Flow
<1> QED BY <1>1, <1>5, <1>6

LEMMA SendClaimFlow ==
    ASSUME Core, ArrivalInv, wait.for = "claim" /\ wait.next = "send" => queue = <<>>,
           MailShapes, SendClaim
    PROVE  Flow
<1>1. /\ UNCHANGED <<history, asked, discarded, mailbox>> /\ wait' = NoWait
      /\ wait.for = "claim" /\ wait.req \in Requests /\ wait.next \in {"busy", "queue", "send"}
      /\ \/ answer' = Answered({wait.req}, "error") /\ UNCHANGED <<tasks, queue, renumbered>>
         \/ Granted(wait.req, wait.next)
  BY DEF SendClaim, Core, WaitInv
<1>2. PICK s \in Requests, next \in {"busy", "queue", "send"} : s = wait.req /\ next = wait.next
  BY <1>1
<1>3. Comes(s)
  BY <1>1, <1>2, RequestRange DEF ArrivalInv, Comes
<1>4. CASE Granted(s, next)
  BY <1>1, <1>2, <1>3, <1>4, GrantedFlow
<1>5. CASE answer' = Answered({wait.req}, "error") /\ UNCHANGED <<tasks, queue, renumbered>>
  <2>1. \A x \in Requests : answer'[x] = "queued" => answer[x] = "queued"
    BY <1>5, NothingNewQueued
  <2>2. wait'.req = 0
    BY <1>1, NoWaitFacts
  <2> QED BY <1>1, <1>5, <2>1, <2>2, StillFlow
<1> QED BY <1>1, <1>2, <1>4, <1>5

-----------------------------------------------------------------------------
(* A send that finds an empty queue is what its claim waits for: nothing   *)
(* is queued while the handler waits.                                      *)
ClaimSends == wait.for = "claim" /\ wait.next = "send" => queue = <<>>

LEMMA FlowSteps ==
    ASSUME Core, ArrivalInv, MailInv, ClaimSends, [Next]_vars
    PROVE  Ask \/ (\E t \in tasks : PrepareCommit(t)) \/ Flow
<1> SUFFICES ASSUME ~Ask PROVE (\E t \in tasks : PrepareCommit(t)) \/ Flow
  OBVIOUS
<1>1. asked' = asked /\ MailShapes
  BY MailSteps
<1>2. wait.for = "claim" /\ wait.next = "send" => queue = <<>>
  BY DEF ClaimSends
<1>3. CASE StopAll \/ Over \/ UNCHANGED vars
  BY <1>1, <1>3, QuietFlow
<1>4. CASE Handler
  <2>1. ASSUME NEW r \in Requests,
               Send(r) \/ SendRejected(r) \/ Cancel(r) \/ Approve(r) \/ Deny(r) \/ Delete(r)
        PROVE  Flow
    BY <1>1, <2>1, SendFlow, QuietFlow, CancelFlow, ApproveFlow, DenyFlow, DeleteFlow
  <2>2. CASE SendClaim
    BY <1>1, <1>2, <2>2, SendClaimFlow
  <2>3. CASE CancelJoined \/ DeleteJoined \/ DeleteFailed \/ DeletePutOff \/ Stop
    BY <1>1, <2>3, JoinedFlow, DeletePutOffFlow, StopFlow
  <2>4. CASE Exit \/ Leave \/ Stale \/ PreparedStopping
    BY <1>1, <2>4, QuietFlow
  <2>5. CASE PreparedStarts \/ PreparedFailed \/ StreamEventFailed \/ StreamEnded \/ ScriptEnded
    BY <1>1, <2>5, PreparedStartsFlow, PreparedFailedFlow, StreamReportsFlow
  <2> QED BY <1>4, <2>1, <2>2, <2>3, <2>4, <2>5 DEF Handler
<1>5. CASE TaskStep
  BY <1>1, <1>5, TaskFlow DEF TaskStep
<1> QED BY <1>3, <1>4, <1>5 DEF Next

LEMMA NextQueueInv ==
    ASSUME Core, Book, QueueInv, ClaimSends, [Next]_vars
    PROVE  QueueInv'
<1>1. Core' /\ QueueOrdered'
  BY NextCore, QueueOrderedStep DEF QueueInv
<1>2. LineInv /\ ArrivalInv /\ MailInv /\ KeptInv
  BY DEF QueueInv
<1>3. CASE Ask
  BY <1>1, <1>3, AskKeeps DEF QueueInv
<1>4. CASE ~Ask
  <2>1. asked' = asked /\ MailShapes
    BY <1>4, MailSteps
  <2>2. MailInv'
    <3>1. MailOrdered
      BY <1>2 DEF MailInv, MailOrdered
    <3>2. MailOrdered'
      BY <2>1, <3>1, MailOrderedKept
    <3> QED BY <1>2, <2>1, <3>2 DEF MailInv, MailOrdered
  <2>3. LineInv' /\ ArrivalInv' /\ KeptInv'
    <3>1. CASE \E t \in tasks : PrepareCommit(t)
      BY <1>1, <3>1, CommitKeeps
    <3>2. CASE Flow
      <4>1. /\ UNCHANGED <<history, asked>>
            /\ RequestsIn(mailbox') \subseteq RequestsIn(mailbox)
            /\ discarded \subseteq discarded' /\ (renumbered => renumbered')
            /\ \/ Passes
               \/ \E s : Comes(s) /\ (Waits(s) \/ Queues(s) \/ Starts(s))
        BY <3>2 DEF Flow
      <4>2. CASE Passes
        BY <1>1, <4>1, <4>2, PassesKeeps
      <4>3. ASSUME NEW s, Comes(s), Waits(s) \/ Queues(s) \/ Starts(s)
            PROVE  LineInv' /\ ArrivalInv' /\ KeptInv'
        BY <1>1, <4>1, <4>3, WaitsKeeps, QueuesKeeps, StartsKeeps
      <4> QED BY <4>1, <4>2, <4>3
    <3> QED BY <1>2, <1>4, <3>1, <3>2, FlowSteps
  <2> QED BY <1>1, <2>2, <2>3 DEF QueueInv
<1> QED BY <1>3, <1>4

LEMMA InitQueueInv == Init => QueueInv
<1> SUFFICES ASSUME Init PROVE QueueInv
  OBVIOUS
<1>1. /\ mailbox = <<>> /\ wait.req = 0 /\ tasks = {} /\ queue = <<>> /\ history = <<>>
      /\ \A r \in Requests : asked[r] = "none" /\ answer[r] = "none"
  BY DEF Init, NoWait
<1>2. DOMAIN <<>> = {}
  BY EmptySeq
<1>3. DOMAIN mailbox = {} /\ DOMAIN queue = {} /\ DOMAIN history = {} /\ Preps = {}
  BY <1>1, <1>2 DEF Preps
<1>4. Queued = {} /\ Range(history) = {} /\ DOMAIN Messages(queue) = {}
  BY <1>3 DEF Queued, Range, Messages
<1>5. QueueOrdered
  BY <1>3 DEF QueueOrdered
<1>6. LineInv
  BY <1>3, <1>4 DEF LineInv, Increasing, Below
<1>7. Placed = {}
  BY <1>3, <1>4 DEF Placed
<1>8. ArrivalInv
  BY <1>1, <1>7 DEF ArrivalInv, Below
<1>9. MailInv
  BY <1>1, <1>3 DEF MailInv
<1>10. KeptInv
  BY <1>1, <1>3 DEF KeptInv
<1> QED BY <1>5, <1>6, <1>8, <1>9, <1>10 DEF QueueInv

-----------------------------------------------------------------------------
(* What is left when the actor rests. *)
Quieted == ~active /\ ~live /\ ~leased
Calm == Quieted /\ (queue = <<>> \/ failed \/ refused)

(* A handler that has yet to place its message does so in a session that   *)
(* exists; it starts a turn only past an empty queue, without a lease.     *)
ClaimInv ==
    wait.for = "claim" =>
        /\ wait.next = "busy" => st.kind # "idle"
        /\ wait.next # "busy" => ~leased
        /\ wait.next = "send" => queue = <<>>
        /\ ~deleted

(* A deleted session is empty, and so is one that has no actor unless the  *)
(* runtime is closing.                                                     *)
GoneInv ==
    /\ deleted => queue = <<>> /\ Quieted /\ (phase = "running" => st.kind = "idle")
    /\ phase # "running" /\ ~closed => queue = <<>> /\ Quieted

(* A report of failure in the mailbox is one that has been noted.          *)
ErrorInv == \A i \in DOMAIN mailbox : IsFailure(mailbox[i]) => failed \/ refused

(* An idle actor without a handler has nothing left to do.                 *)
CalmInv ==
    phase = "running" /\ st.kind = "idle" /\ wait.for = "none" /\ ~stopping /\ faults = 0 => Calm

RestInv == ClaimInv /\ GoneInv /\ ErrorInv /\ CalmInv

-----------------------------------------------------------------------------
LEMMA GhostsGrow ==
    ASSUME Core, [Next]_vars PROVE (failed => failed') /\ (refused => refused')
<1> DEFINE grown == /\ failed' = failed \/ failed' = TRUE
                    /\ refused' = refused \/ refused' = (refused \/ leased)
<1>0. failed \in BOOLEAN /\ refused \in BOOLEAN /\ leased \in BOOLEAN
  BY FlagFacts DEF Core
<1>1. CASE Ask \/ StopAll \/ Over \/ UNCHANGED vars
  <2>1. UNCHANGED <<failed, refused>>
    BY <1>1 DEF Ask, StopAll, Over, vars, ghosts
  <2> QED BY <2>1
<1>2. CASE Handler
  <2>1. grown
    BY <1>2 DEF Handler, Send, SendRejected, Cancel, Approve, Deny, Delete, SendClaim, CancelJoined,
                DeleteJoined, DeleteFailed, DeletePutOff, Stop, Exit, Leave, PreparedStarts,
                PreparedStopping, PreparedFailed, StreamEventFailed, StreamEnded, ScriptEnded, Stale,
                ghosts
  <2>2. failed => failed'
    BY <2>1, Zenon DEF grown
  <2>3. refused => refused'
    BY <1>0, <2>1, Zenon DEF grown
  <2> QED BY <2>2, <2>3
<1>3. CASE TaskStep
  <2>1. grown
    BY <1>3 DEF TaskStep, PrepareOwns, PrepareClaim, PrepareCommit, PrepareFail, StreamEnd, StreamEvent,
                ScriptEnd, ghosts
  <2>2. failed => failed'
    BY <2>1, Zenon DEF grown
  <2>3. refused => refused'
    BY <1>0, <2>1, Zenon DEF grown
  <2> QED BY <2>2, <2>3
<1> QED BY <1>1, <1>2, <1>3 DEF Next

LEMMA NextErrorInv ==
    ASSUME Core, ErrorInv, [Next]_vars PROVE ErrorInv'
<1>1. (failed => failed') /\ (refused => refused')
  BY GhostsGrow
<1>2. ASSUME \A i \in DOMAIN mailbox' : \E j \in DOMAIN mailbox : mailbox'[i] = mailbox[j]
      PROVE  ErrorInv'
  BY <1>1, <1>2 DEF ErrorInv
<1>3. ASSUME NEW m \in MessageType, Post(m), IsFailure(m) => failed' \/ refused'
      PROVE  ErrorInv'
  <2>1. \A i \in DOMAIN mailbox' : \/ i \in DOMAIN mailbox /\ mailbox'[i] = mailbox[i]
                                   \/ mailbox'[i] = m
    BY <1>3, PostFacts
  <2> QED BY <1>1, <1>3, <2>1 DEF ErrorInv
<1>4. CASE Ask
  <2>1. \/ mailbox' = mailbox
        \/ \E m \in MessageType : m.tag = "request" /\ Post(m)
    BY <1>4, AskFlow
  <2> QED BY <1>2, <1>3, <2>1 DEF IsFailure
<1>5. CASE ~Ask
  <2>1. MailShapes
    BY <1>5, MailSteps
  <2>2. CASE Shrinks
    BY <2>2, <1>2, ShrinkFacts DEF Core
  <2>3. CASE mailbox' = <<>>
    <3>1. DOMAIN mailbox' = {}
      BY <2>3, EmptySeq
    <3> QED BY <3>1 DEF ErrorInv
  <2> QED BY <1>3, <2>1, <2>2, <2>3 DEF MailShapes
<1> QED BY <1>4, <1>5

-----------------------------------------------------------------------------
(* Only three steps end an actor or its process's part in the session. *)
LEMMA PhaseSteps ==
    ASSUME Handler PROVE Exit \/ Leave \/ DeleteJoined \/ phase' = phase
BY DEF Handler, Send, SendRejected, Cancel, Approve, Deny, Delete, SendClaim, CancelJoined,
       DeleteFailed, DeletePutOff, Stop, PreparedStarts,
       PreparedStopping, PreparedFailed, StreamEventFailed, StreamEnded, ScriptEnded, Stale, registry

LEMMA HandlersRun ==
    ASSUME Core, Handler PROVE phase = "running" \/ Leave
<1>1. ASSUME NEW r \in Requests,
             Send(r) \/ SendRejected(r) \/ Cancel(r) \/ Approve(r) \/ Deny(r) \/ Delete(r)
      PROVE  phase = "running"
  BY <1>1 DEF Send, SendRejected, Cancel, Approve, Deny, Delete, Asked, Received, Ready, Awake
<1>2. CASE \/ SendClaim \/ CancelJoined \/ DeleteJoined \/ DeleteFailed \/ DeletePutOff
           \/ Stop \/ Exit
  BY <1>2 DEF SendClaim, CancelJoined, DeleteJoined, DeleteFailed, DeletePutOff, Stop, Exit, Joined,
              Received, Ready, Awake
<1>3. CASE \/ PreparedStarts \/ PreparedStopping \/ PreparedFailed
           \/ StreamEventFailed \/ StreamEnded \/ ScriptEnded \/ Stale
  BY <1>3 DEF PreparedStarts, PreparedStopping, PreparedFailed, StreamEventFailed, StreamEnded,
              ScriptEnded, Stale, Reported, Received, Ready, Awake
<1> QED BY <1>1, <1>2, <1>3 DEF Handler

(* A task changes the agent or the queue only while it prepares. *)
LEMMA TaskRests ==
    ASSUME Core, TaskStep
    PROVE  /\ UNCHANGED <<registry, actor, deleted>> /\ faults <= faults'
           /\ \/ UNCHANGED <<agent, queue>>
              \/ phase = "running" /\ st.kind = "preparing"
<1>1. PICK t \in tasks : \/ PrepareOwns(t) \/ PrepareClaim(t) \/ PrepareCommit(t) \/ PrepareFail(t)
                         \/ StreamEnd(t) \/ StreamEvent(t) \/ ScriptEnd(t)
  BY DEF TaskStep
<1>2. faults \in Nat
  BY DEF Core, TypeOK
<1>3. UNCHANGED <<registry, actor, deleted>> /\ faults <= faults'
  BY <1>1, <1>2 DEF PrepareOwns, PrepareClaim, PrepareCommit, PrepareFail, StreamEnd, StreamEvent,
                    ScriptEnd, Fault, store, registry, actor
<1>4. CASE t.kind = "prep"
  BY <1>3, <1>4, OnePreparation DEF Preps
<1>5. CASE t.kind # "prep"
  BY <1>1, <1>3, <1>5 DEF PrepareOwns, PrepareClaim, PrepareCommit, PrepareFail, StreamEnd, StreamEvent,
                          ScriptEnd, store, agent
<1> QED BY <1>4, <1>5

-----------------------------------------------------------------------------
(* Only a send makes the handler wait for the lease. *)
LEMMA ClaimSteps ==
    ASSUME Core, Handler, wait'.for = "claim"
    PROVE  \E r \in Requests : Send(r)
<1> SUFFICES ASSUME ~\E r \in Requests : Send(r) PROVE wait'.for # "claim"
  OBVIOUS
<1>1. NoWait.for = "none" /\ \A next, rs : Joining(next, rs).for = "join"
  BY DEF NoWait, Joining
<1>2. ASSUME wait.for = "none", wait' = wait \/ wait' = NoWait \/ \E next, rs : wait' = Joining(next, rs)
      PROVE  wait'.for # "claim"
  BY <1>1, <1>2
<1>3. ASSUME NEW r \in Requests, SendRejected(r) \/ Cancel(r) \/ Approve(r) \/ Deny(r) \/ Delete(r)
      PROVE  wait'.for # "claim"
  <2>1. wait.for = "none"
    BY <1>3 DEF SendRejected, Cancel, Approve, Deny, Delete, Asked, Received, Ready, Awake
  <2>2. wait' = wait \/ wait' = NoWait \/ \E next, rs : wait' = Joining(next, rs)
    BY <1>3 DEF SendRejected, Cancel, CancelStreamJob, Approve, Deny, Delete, DeleteSession, actor
  <2> QED BY <1>2, <2>1, <2>2
<1>4. CASE SendClaim \/ CancelJoined \/ DeleteJoined \/ DeleteFailed
  BY <1>1, <1>4 DEF SendClaim, CancelJoined, DeleteJoined, DeleteFailed, Joined
<1>5. CASE DeletePutOff \/ Stop \/ Exit
  <2>1. wait.for = "none"
    BY <1>5 DEF DeletePutOff, Stop, Exit, Received, Ready, Awake
  <2>2. wait' = wait \/ wait' = NoWait \/ \E next, rs : wait' = Joining(next, rs)
    BY <1>5 DEF DeletePutOff, DeleteSession, Stop, Exit, actor
  <2> QED BY <1>2, <2>1, <2>2
<1>6. CASE Leave
  BY <1>1, <1>6 DEF Leave, actor, Core, PhaseInv
<1>7. CASE \/ PreparedStarts \/ PreparedStopping \/ PreparedFailed
           \/ StreamEventFailed \/ StreamEnded \/ ScriptEnded \/ Stale
  <2>1. wait.for = "none"
    BY <1>7 DEF PreparedStarts, PreparedStopping, PreparedFailed, StreamEventFailed, StreamEnded,
                ScriptEnded, Stale, Reported, Received, Ready, Awake
  <2>2. wait' = wait \/ wait' = NoWait \/ \E next, rs : wait' = Joining(next, rs)
    BY <1>7 DEF PreparedStarts, PreparedStopping, PreparedFailed, StreamEventFailed, StreamEnded,
                ScriptEnded, Stale, CancelStreamJob, actor
  <2> QED BY <1>2, <2>1, <2>2
<1> QED BY <1>3, <1>4, <1>5, <1>6, <1>7 DEF Handler

LEMMA NextClaimInv ==
    ASSUME Core, ClaimInv, [Next]_vars PROVE ClaimInv'
<1> SUFFICES ASSUME wait'.for = "claim"
             PROVE  /\ wait'.next = "busy" => st'.kind # "idle"
                    /\ wait'.next # "busy" => ~leased'
                    /\ wait'.next = "send" => queue' = <<>>
                    /\ ~deleted'
  BY DEF ClaimInv
<1>1. NoWait.for = "none"
  BY DEF NoWait
<1>2. CASE Handler
  <2>1. PICK r \in Requests : Send(r)
    BY <1>2, ClaimSteps
  <2>2. UNCHANGED <<agent, deleted>> /\ ~deleted
    BY <2>1 DEF Send
  <2>3. wait.for = "none"
    BY <2>1 DEF Send, Asked, Received, Ready, Awake
  <2>4. /\ ~leased /\ wait' = Claiming(SendKind, r)
        /\ UNCHANGED <<st, queue>>
    BY <2>1, <2>3 DEF Send
  <2>5. wait'.next = SendKind
    BY <2>4, ClaimingFacts DEF Claiming, NoWait
  <2>6. ~active
    BY <2>4 DEF Core, LeaseInv
  <2> QED BY <2>2, <2>4, <2>5, <2>6 DEF SendKind, agent
<1>3. CASE Ask
  <2>1. UNCHANGED <<agent, store>> /\ (UNCHANGED actor \/ wait' = NoWait)
    BY <1>3 DEF Ask
  <2> QED BY <1>1, <2>1 DEF agent, store, actor, ClaimInv
<1>4. CASE StopAll \/ Over \/ UNCHANGED vars
  <2>1. UNCHANGED <<agent, store, actor>>
    BY <1>4 DEF StopAll, Over, vars
  <2> QED BY <2>1 DEF agent, store, actor, ClaimInv
<1>5. CASE TaskStep
  <2>1. /\ UNCHANGED <<wait, st, deleted>>
        /\ UNCHANGED <<agent, queue>> \/ st.kind = "preparing"
    BY <1>5, TaskRests DEF actor
  <2>2. Idle.kind = "idle"
    BY IdleFacts
  <2>3. wait.next # "busy" => st = Idle
    BY <2>1 DEF Core, WaitInv
  <2> QED BY <2>1, <2>2, <2>3 DEF agent, ClaimInv
<1> QED BY <1>2, <1>3, <1>4, <1>5 DEF Next

-----------------------------------------------------------------------------
(* In a deleted session nothing begins any more. *)
LEMMA GoneHandlers ==
    ASSUME Core, ClaimInv, GoneInv, deleted, Handler
    PROVE  queue' = <<>> /\ Quieted' /\ (phase' = "running" => st'.kind = "idle")
<1>1. queue = <<>> /\ ~active /\ ~live /\ ~leased /\ (phase = "running" => st.kind = "idle")
  BY DEF GoneInv, Quieted
<1>2. Idle.kind = "idle"
  BY IdleFacts
<1>3. ASSUME UNCHANGED <<queue, agent>>, st' = st \/ st' = Idle, phase = "running" \/ phase' # "running"
      PROVE  queue' = <<>> /\ Quieted' /\ (phase' = "running" => st'.kind = "idle")
  BY <1>1, <1>2, <1>3 DEF agent, Quieted
<1>4. ASSUME NEW r \in Requests,
             Send(r) \/ SendRejected(r) \/ Cancel(r) \/ Approve(r) \/ Deny(r) \/ Delete(r)
      PROVE  queue' = <<>> /\ Quieted' /\ (phase' = "running" => st'.kind = "idle")
  <2>1. phase = "running" /\ st.kind = "idle"
    BY <1>1, <1>4 DEF Send, SendRejected, Cancel, Approve, Deny, Delete, Asked, Received, Ready, Awake
  <2>2. ~Send(r)
    BY DEF Send
  <2>3. CASE Cancel(r)
    <3>1. UNCHANGED <<st, agent>> /\ queue' \in {queue, <<>>}
      BY <1>1, <2>1, <2>3 DEF Cancel
    <3> QED BY <1>1, <1>3, <2>1, <3>1
  <2>4. CASE SendRejected(r) \/ Approve(r) \/ Deny(r) \/ Delete(r)
    <3>1. UNCHANGED <<queue, agent>> /\ (st' = st \/ st' = Idle)
      BY <2>1, <2>4 DEF SendRejected, Approve, Deny, Delete, DeleteSession, actor, store
    <3> QED BY <1>3, <2>1, <3>1
  <2> QED BY <1>4, <2>2, <2>3, <2>4
<1>5. ~SendClaim /\ ~DeleteJoined
  BY DEF SendClaim, DeleteJoined, ClaimInv
<1>6. CASE CancelJoined
  <2>1. FinishAndDrain(tasks, queue) /\ queue' = queue
    BY <1>6 DEF CancelJoined, store
  <2> QED BY <1>1, <1>2, <2>1 DEF FinishAndDrain, FinishTurn, Drain, Rest, Quieted
<1>7. CASE DeleteFailed
  <2>1. /\ UNCHANGED <<st, queue, phase, leased>>
        /\ UNCHANGED <<active, live>> \/ (active' = FALSE /\ live' = FALSE)
    BY <1>7 DEF DeleteFailed, store, registry
  <2>2. CASE UNCHANGED <<active, live>>
    BY <1>1, <2>1, <2>2 DEF Quieted
  <2>3. CASE active' = FALSE /\ live' = FALSE
    BY <1>1, <2>1, <2>3 DEF Quieted
  <2> QED BY <2>1, <2>2, <2>3
<1>8. CASE DeletePutOff \/ Stop \/ Exit \/ Leave
  <2>1. UNCHANGED <<queue, agent>> /\ (st' = st \/ st' = Idle)
    BY <1>8 DEF DeletePutOff, DeleteSession, Stop, Exit, Leave, actor, store
  <2>2. phase = "running" \/ phase' # "running"
    BY <1>8 DEF DeletePutOff, Stop, Leave, Exit, Awake, Received, Ready
  <2> QED BY <1>3, <2>1, <2>2
<1>9. CASE Stale
  <2>1. UNCHANGED <<queue, agent, st>> /\ phase = "running"
    BY <1>9 DEF Stale, actor, store, Received, Ready, Awake
  <2> QED BY <1>3, <2>1
<1>10. CASE \/ PreparedStarts \/ PreparedStopping \/ PreparedFailed
            \/ StreamEventFailed \/ StreamEnded \/ ScriptEnded
  <2>1. phase = "running" /\ st.kind # "idle"
    BY <1>10 DEF PreparedStarts, PreparedStopping, PreparedFailed, StreamEventFailed, StreamEnded,
                 ScriptEnded, Reported, Current, Reports, Received, Ready, Awake
  <2> QED BY <1>1, <2>1
<1> QED BY <1>4, <1>5, <1>6, <1>7, <1>8, <1>9, <1>10 DEF Handler

LEMMA NextGoneInv ==
    ASSUME Core, ClaimInv, GoneInv, [Next]_vars PROVE GoneInv'
<1>1. /\ deleted => queue = <<>> /\ ~active /\ ~live /\ ~leased /\ (phase = "running" => st.kind = "idle")
      /\ phase # "running" /\ ~closed => queue = <<>> /\ ~active /\ ~live /\ ~leased
  BY DEF GoneInv, Quieted
<1>2. Idle.kind = "idle"
  BY IdleFacts
<1>3. CASE DeleteJoined
  BY <1>3 DEF DeleteJoined, FinishTurn, GoneInv, Quieted
<1>4. CASE Ask
  <2>1. /\ UNCHANGED <<closed, queue, active, live, leased, deleted>>
        /\ \/ phase' = phase /\ (st' = st \/ st' = Idle)
           \/ phase' = "running" /\ phase = "none" /\ ~closed /\ st' = Idle
    BY <1>4 DEF Ask, agent, store, actor
  <2> QED BY <1>1, <1>2, <2>1 DEF GoneInv, Quieted
<1>5. CASE StopAll \/ Over \/ UNCHANGED vars
  <2>1. /\ UNCHANGED <<queue, active, live, leased, deleted, phase, st>>
        /\ closed' = closed \/ closed' = TRUE
    BY <1>5 DEF StopAll, Over, vars, agent, store, actor, registry
  <2> QED BY <1>1, <2>1 DEF GoneInv, Quieted
<1>6. CASE TaskStep
  <2>1. /\ UNCHANGED <<phase, closed, st, deleted>>
        /\ UNCHANGED <<active, live, leased, queue>> \/ (phase = "running" /\ st.kind = "preparing")
    BY <1>6, TaskRests DEF actor, agent, registry
  <2> QED BY <1>1, <2>1 DEF GoneInv, Quieted
<1>7. CASE Handler /\ ~DeleteJoined
  <2>1. deleted' = deleted /\ closed' = closed
    BY <1>7 DEF Handler, Send, SendRejected, Cancel, Approve, Deny, Delete, SendClaim, CancelJoined,
                DeleteFailed, DeletePutOff, Stop, Exit, Leave, PreparedStarts, PreparedStopping,
                PreparedFailed, StreamEventFailed, StreamEnded, ScriptEnded, Stale, store, registry
  <2>2. deleted => queue' = <<>> /\ Quieted' /\ (phase' = "running" => st'.kind = "idle")
    BY <1>7, GoneHandlers
  <2>3. ASSUME phase' # "running", ~closed PROVE queue' = <<>> /\ Quieted'
    <3>1. CASE Leave
      BY <1>1, <2>3, <3>1 DEF Leave, agent, store, Quieted
    <3>2. CASE Exit
      <4>1. stopping
        BY <3>2 DEF Exit, Leaving
      <4> QED BY <2>3, <4>1 DEF Core, PhaseInv
    <3>3. CASE ~Leave /\ ~Exit
      <4>1. phase = "running"
        BY <1>7, <3>3, HandlersRun
      <4>2. phase' = phase
        BY <1>7, <3>3, PhaseSteps
      <4> QED BY <2>3, <4>1, <4>2
    <3> QED BY <3>1, <3>2, <3>3
  <2> QED BY <2>1, <2>2, <2>3 DEF GoneInv
<1> QED BY <1>3, <1>4, <1>5, <1>6, <1>7 DEF Next

-----------------------------------------------------------------------------
(* A handler that ends a turn begins the next one, unless the actor was    *)
(* told to stop or the database failed, or it leaves nothing behind.       *)
Quiesces == st'.kind # "idle" \/ wait'.for # "none" \/ stopping \/ faults' > 0 \/ Calm'

Untouched == /\ UNCHANGED <<phase, st, wait, stopping, queue, agent>> /\ faults <= faults'
             /\ (failed => failed') /\ (refused => refused')

LEMMA PreparingSettles ==
    ASSUME Core, NEW ts, NEW origin, NEW r, NEW q, NEW i, NEW d, BeginPreparation(ts, origin, r, q, i, d)
    PROVE  Quiesces
<1>1. gen + 1 \in Nat
  BY DEF Core, TypeOK
<1>2. Job("preparing", gen + 1).kind = "preparing" /\ Job("preparing", gen + 1) \in JobType
  BY <1>1, JobFacts
<1>3. st'.kind = "preparing"
  BY <1>2 DEF BeginPreparation, JobType
<1> QED BY <1>3 DEF Quiesces

LEMMA StartScriptRests ==
    ASSUME Core, StartScript PROVE Quiesces
<1>1. gen + 1 \in Nat
  BY DEF Core, TypeOK
<1> QED BY <1>1, JobFacts DEF StartScript, Quiesces

LEMMA FaultSettles ==
    ASSUME Core, Fault PROVE Quiesces
BY DEF Fault, Quiesces, Core, TypeOK

LEMMA FinishSettles ==
    ASSUME Core, NEW ts, FinishAndDrain(ts, queue')
    PROVE  Quiesces
<1>1. FinishTurn /\ Drain(ts, queue')
  BY DEF FinishAndDrain
<1>2. CASE stopping
  BY <1>2 DEF Quiesces
<1>3. CASE queue' = <<>>
  BY <1>1, <1>3 DEF FinishTurn, Quiesces, Calm, Quieted
<1>4. CASE ~stopping /\ queue' # <<>>
  <2>1. PICK q : q = queue'
    OBVIOUS
  <2>2. BeginPreparation(ts, "queue", 0, q, FALSE, FALSE)
    BY <1>1, <1>4, <2>1 DEF Drain
  <2> QED BY <2>2, PreparingSettles
<1> QED BY <1>2, <1>3, <1>4

LEMMA ContinuationSettles ==
    ASSUME Core, NEW ts, NEW d, StartContinuation(ts, d)
    PROVE  Quiesces
<1>1. \/ BeginPreparation(ts, "continue", 0, queue, queue # <<>>, d) \/ Fault
  BY DEF StartContinuation
<1>2. PICK i : i = (queue # <<>>)
  OBVIOUS
<1> QED BY <1>1, <1>2, PreparingSettles, FaultSettles

LEMMA FinalizeSettles ==
    ASSUME Core, NEW ts, FinalizeScript(ts), queue' = queue
    PROVE  Quiesces
<1>1. StartContinuation(ts, FALSE) \/ FinishAndDrain(ts, queue')
  BY DEF FinalizeScript
<1> QED BY <1>1, ContinuationSettles, FinishSettles

LEMMA FailedSettles ==
    ASSUME Core, NEW ts, StreamFailed(ts), queue' = queue
    PROVE  Quiesces
BY FinishSettles, FaultSettles DEF StreamFailed

LEMMA CancelStreamSettles ==
    ASSUME Core, NEW ts, NEW job, NEW rs, NEW before, CancelStreamJob(ts, job, rs, before)
    PROVE  Quiesces
<1>1. Fault \/ wait' = Joining("cancel", rs)
  BY DEF CancelStreamJob
<1>2. wait' = Joining("cancel", rs) => wait'.for = "join"
  BY DEF Joining, NoWait
<1> QED BY <1>1, <1>2, FaultSettles DEF Quiesces

LEMMA GrantedSettles ==
    ASSUME Core, NEW r \in Requests, NEW next \in {"busy", "queue", "send"}, Granted(r, next),
           next = "busy" => st.kind # "idle"
    PROVE  Quiesces
<1>1. CASE next = "send"
  <2>1. BeginPreparation(tasks, "send", r, <<>>, FALSE, FALSE)
    BY <1>1 DEF Granted
  <2> QED BY <2>1, PreparingSettles
<1>2. CASE next # "send" /\ Fault
  BY <1>2, FaultSettles
<1>3. CASE next = "queue" /\ Drain(tasks, Enqueued(r))
  <2>1. Enqueued(r) # <<>>
    <3>1. \E e \in EntryType : DOMAIN Enqueued(r) = 1..Len(queue) + 1 /\ Len(queue) \in Nat
      BY EnqueuedFacts
    <3>2. DOMAIN <<>> = {}
      BY EmptySeq
    <3>3. 1 \in 1..Len(queue) + 1
      BY <3>1
    <3> QED BY <3>1, <3>2, <3>3
  <2>2. PICK q : q = Enqueued(r)
    OBVIOUS
  <2>3. stopping \/ BeginPreparation(tasks, "queue", 0, q, FALSE, FALSE)
    BY <1>3, <2>1, <2>2 DEF Drain
  <2>4. stopping => Quiesces
    BY DEF Quiesces
  <2> QED BY <2>3, <2>4, PreparingSettles
<1>4. CASE next = "busy" /\ st' = st
  BY <1>4 DEF Quiesces
<1> QED BY <1>1, <1>2, <1>3, <1>4 DEF Granted

-----------------------------------------------------------------------------
LEMMA FaultsGrow ==
    ASSUME Core, Handler PROVE faults <= faults' /\ faults \in Nat /\ faults' \in Nat
<1>1. faults' = faults \/ faults' = faults + 1
  BY DEF Handler, Send, SendRejected, Cancel, Approve, Deny, Delete, SendClaim, CancelJoined,
         DeleteJoined, DeleteFailed, DeletePutOff, Stop, Exit, Leave, PreparedStarts, PreparedStopping,
         PreparedFailed, StreamEventFailed, StreamEnded, ScriptEnded, Stale, Granted, CancelStreamJob,
         FinalizeScript, StartContinuation, StreamFailed, Fault
<1>2. faults \in Nat
  BY DEF Core, TypeOK
<1> QED BY <1>1, <1>2

LEMMA StoppingStays ==
    ASSUME Core, Handler PROVE stopping => stopping'
<1>1. stopping' = stopping \/ stopping' = TRUE
  BY DEF Handler, Send, SendRejected, Cancel, Approve, Deny, Delete, SendClaim, CancelJoined,
         DeleteJoined, DeleteFailed, DeletePutOff, Stop, Exit, Leave, PreparedStarts, PreparedStopping,
         PreparedFailed, StreamEventFailed, StreamEnded, ScriptEnded, Stale, actor
<1> QED BY <1>1, Zenon

LEMMA RequestSettles ==
    ASSUME Core, CalmInv, faults <= faults', (failed => failed') /\ (refused => refused'),
           NEW r \in Requests,
           Send(r) \/ SendRejected(r) \/ Cancel(r) \/ Approve(r) \/ Deny(r) \/ Delete(r)
    PROVE  Quiesces \/ Untouched
<1>1. phase = "running" /\ wait.for = "none" /\ phase' = phase
  BY DEF Send, SendRejected, Cancel, Approve, Deny, Delete, Asked, Received, Ready, Awake, registry
<1>2. faults \in Nat
  BY DEF Core, TypeOK
<1>3. \A rs : Joining("delete", rs).for = "join"
  BY DEF Joining, NoWait
<1>4. \A next : Claiming(next, r).for = "claim"
  BY DEF Claiming, NoWait
<1>5. CASE Send(r)
  <2>1. CASE wait' = Claiming(SendKind, r)
    BY <1>4, <2>1 DEF Quiesces
  <2>2. CASE leased /\ Granted(r, SendKind)
    <3>1. SendKind \in {"busy", "queue", "send"}
      BY DEF SendKind
    <3>2. CASE st.kind = "idle"
      <4>1. ~stopping
        BY <1>5 DEF Send
      <4>2. faults > 0
        BY <1>1, <1>2, <2>2, <3>2, <4>1 DEF CalmInv, Calm, Quieted
      <4>3. faults' = faults \/ faults' = faults + 1
        BY <2>2 DEF Granted, Fault
      <4>4. faults' > 0
        BY <1>2, <4>2, <4>3
      <4> QED BY <4>4 DEF Quiesces
    <3>3. CASE st.kind # "idle"
      BY <2>2, <3>1, <3>3, GrantedSettles
    <3> QED BY <3>2, <3>3
  <2> QED BY <1>5, <2>1, <2>2 DEF Send
<1>6. CASE SendRejected(r)
  BY <1>1, <1>6 DEF SendRejected, Untouched, actor, store
<1>7. CASE Cancel(r)
  <2> DEFINE clears == asked[r] = "cancelTurn" /\ leased
             kept == IF clears THEN <<>> ELSE queue
  <2>1. queue' = kept /\ stopping' = stopping
    BY <1>7 DEF Cancel
  <2>2. \/ FinishAndDrain(tasks, kept)
        \/ st.kind \in {"running", "preparing"} /\ st'.kind = st.kind
        \/ CancelStreamJob(tasks, st, {r}, answer)
        \/ /\ ~(clears /\ queue # <<>>)
           /\ UNCHANGED <<st, agent, wait>>
    BY <1>7 DEF Cancel, Core, TypeOK, JobType
  <2> HIDE DEF clears, kept
  <2>3. CASE FinishAndDrain(tasks, kept)
    BY <2>1, <2>3, FinishSettles
  <2>4. CASE st.kind \in {"running", "preparing"} /\ st'.kind = st.kind
    BY <2>4 DEF Quiesces
  <2>5. CASE CancelStreamJob(tasks, st, {r}, answer)
    BY <2>5, CancelStreamSettles
  <2>6. CASE ~(clears /\ queue # <<>>) /\ UNCHANGED <<st, agent, wait>>
    <3>1. queue' = queue
      BY <2>1, <2>6 DEF clears, kept
    <3> QED BY <1>1, <2>1, <2>6, <3>1 DEF Untouched
  <2> QED BY <2>2, <2>3, <2>4, <2>5, <2>6
<1>8. CASE Approve(r)
  <2>1. CASE StartScript
    BY <2>1, StartScriptRests
  <2>2. CASE st' = st
    BY <1>1, <1>8, <2>2 DEF Approve, Untouched, store
  <2> QED BY <1>8, <2>1, <2>2 DEF Approve
<1>9. CASE Deny(r)
  <2>1. CASE FinalizeScript(tasks)
    BY <1>9, <2>1, FinalizeSettles DEF Deny, store
  <2>2. CASE UNCHANGED <<st, agent>>
    BY <1>1, <1>9, <2>2 DEF Deny, Untouched, store
  <2>3. CASE FinishAndDrain(tasks, queue)
    BY <1>9, <2>3, FinishSettles DEF Deny, store
  <2> QED BY <1>9, <2>1, <2>2, <2>3 DEF Deny
<1>10. CASE Delete(r)
  <2>1. \/ wait' = Joining("delete", {r})
        \/ UNCHANGED <<st, wait>>
    BY <1>10 DEF Delete, DeleteSession
  <2>2. CASE wait' = Joining("delete", {r})
    BY <1>3, <2>2 DEF Quiesces
  <2>3. CASE UNCHANGED <<st, wait>>
    BY <1>1, <1>10, <2>3 DEF Delete, Untouched, store
  <2> QED BY <2>1, <2>2, <2>3
<1> QED BY <1>5, <1>6, <1>7, <1>8, <1>9, <1>10

LEMMA ReportSettles ==
    ASSUME Core, ErrorInv, (failed => failed') /\ (refused => refused'), queue' = queue,
           PreparedStarts \/ PreparedFailed \/ StreamEventFailed \/ StreamEnded \/ ScriptEnded
    PROVE  Quiesces
<1>1. CASE PreparedStarts
  <2>1. gen + 1 \in Nat
    BY DEF Core, TypeOK
  <2>2. Job("streaming", gen + 1).kind = "streaming"
    BY <2>1, JobFacts
  <2>3. PICK ts, job, rs, before :
           \/ CancelStreamJob(ts, job, rs, before)
           \/ st' = Job("streaming", gen + 1)
    BY <1>1 DEF PreparedStarts
  <2> QED BY <2>2, <2>3, CancelStreamSettles DEF Quiesces
<1>2. CASE PreparedFailed
  <2>1. CASE StartContinuation(tasks, TRUE)
    BY <2>1, ContinuationSettles
  <2>2. CASE FinishTurn
    <3>1. mailbox # <<>> /\ IsFailure(Head(mailbox))
      BY <1>2 DEF PreparedFailed, Reported, Received, Ready, IsFailure
    <3>2. Head(mailbox) = mailbox[1] /\ 1 \in DOMAIN mailbox
      BY <3>1, TailOf DEF Core, TypeOK
    <3>3. failed \/ refused
      BY <3>1, <3>2 DEF ErrorInv
    <3>4. failed' \/ refused'
      BY <3>3
    <3> QED BY <2>2, <3>4 DEF FinishTurn, Quiesces, Calm, Quieted
  <2> QED BY <1>2, <2>1, <2>2 DEF PreparedFailed
<1>3. CASE StreamEventFailed
  <2>1. PICK ts : StreamFailed(ts)
    BY <1>3 DEF StreamEventFailed
  <2> QED BY <2>1, FailedSettles
<1>4. CASE StreamEnded
  <2>1. \/ stopping
        \/ FinishAndDrain(tasks, queue')
        \/ FinalizeScript(tasks)
        \/ st' = Job("approval", 0)
        \/ StartScript
        \/ StreamFailed(tasks)
    BY <1>4 DEF StreamEnded
  <2>2. st' = Job("approval", 0) => Quiesces
    BY JobFacts DEF Quiesces
  <2>3. stopping => Quiesces
    BY DEF Quiesces
  <2> QED BY <2>1, <2>2, <2>3, FinishSettles, FinalizeSettles, StartScriptRests, FailedSettles
<1>5. CASE ScriptEnded
  <2>1. FinalizeScript(tasks) \/ FinishAndDrain(tasks, queue')
    BY <1>5 DEF ScriptEnded
  <2> QED BY <2>1, FinalizeSettles, FinishSettles
<1> QED BY <1>1, <1>2, <1>3, <1>4, <1>5

-----------------------------------------------------------------------------
LEMMA HandlerSettles ==
    ASSUME Core, RestInv, Handler, faults <= faults', (failed => failed') /\ (refused => refused'),
           phase' = "running"
    PROVE  Quiesces \/ Untouched \/ stopping'
<1>1. ClaimInv /\ GoneInv /\ ErrorInv /\ CalmInv
  BY DEF RestInv
<1>2. ASSUME NEW r \in Requests,
             Send(r) \/ SendRejected(r) \/ Cancel(r) \/ Approve(r) \/ Deny(r) \/ Delete(r)
      PROVE  Quiesces \/ Untouched
  BY <1>1, <1>2, RequestSettles
<1>3. CASE SendClaim
  <2>1. /\ wait.req \in Requests /\ wait.next \in {"busy", "queue", "send"}
        /\ wait.next = "busy" => st.kind # "idle"
        /\ wait.next # "busy" => ~leased
        /\ (leased /\ st' = st) \/ Granted(wait.req, wait.next)
    BY <1>1, <1>3 DEF SendClaim, ClaimInv, Core, WaitInv
  <2>2. PICK r \in Requests, next \in {"busy", "queue", "send"} : r = wait.req /\ next = wait.next
    BY <2>1
  <2>3. CASE leased /\ st' = st
    BY <2>1, <2>3 DEF Quiesces
  <2>4. CASE Granted(r, next)
    BY <2>1, <2>2, <2>4, GrantedSettles
  <2> QED BY <2>1, <2>2, <2>3, <2>4
<1>4. CASE CancelJoined
  <2>1. FinishAndDrain(tasks, queue')
    BY <1>4 DEF CancelJoined, store
  <2> QED BY <2>1, FinishSettles
<1>5. ~DeleteJoined /\ ~Exit /\ ~Leave
  BY DEF DeleteJoined, Exit, Leave
<1>6. CASE DeleteFailed
  <2>1. CASE deleted
    <3>1. /\ queue' = queue /\ leased' = leased
          /\ UNCHANGED <<active, live>> \/ (active' = FALSE /\ live' = FALSE)
      BY <1>6 DEF DeleteFailed, store
    <3>2. queue = <<>> /\ ~active /\ ~live /\ ~leased
      BY <1>1, <2>1 DEF GoneInv, Quieted
    <3>3. ~active' /\ ~live' /\ ~leased'
      <4>1. CASE UNCHANGED <<active, live>>
        BY <3>1, <3>2, <4>1
      <4>2. CASE active' = FALSE /\ live' = FALSE
        BY <3>1, <3>2, <4>2
      <4> QED BY <3>1, <4>1, <4>2
    <3> QED BY <3>1, <3>2, <3>3 DEF Quiesces, Calm, Quieted
  <2>2. CASE Fault
    BY <2>2, FaultSettles
  <2> QED BY <1>6, <2>1, <2>2 DEF DeleteFailed
<1>7. CASE DeletePutOff
  <2>1. \/ \E rs : wait' = Joining("delete", rs)
        \/ UNCHANGED <<st, wait>>
    BY <1>7 DEF DeletePutOff, DeleteSession
  <2>2. \A rs : Joining("delete", rs).for = "join"
    BY DEF Joining, NoWait
  <2>3. CASE UNCHANGED <<st, wait>>
    BY <1>7, <2>3 DEF DeletePutOff, Untouched, store, registry
  <2> QED BY <2>1, <2>2, <2>3 DEF Quiesces
<1>8. CASE Stop
  BY <1>8 DEF Stop
<1>9. CASE PreparedStopping
  BY <1>9 DEF PreparedStopping, Quiesces
<1>10. CASE Stale
  BY <1>10 DEF Stale, Untouched, registry, actor, store
<1>11. CASE PreparedStarts \/ PreparedFailed \/ StreamEventFailed \/ StreamEnded \/ ScriptEnded
  <2>1. queue' = queue
    BY <1>11 DEF PreparedStarts, PreparedFailed, StreamEventFailed, StreamEnded, ScriptEnded, store
  <2> QED BY <1>1, <1>11, <2>1, ReportSettles
<1> QED BY <1>2, <1>3, <1>4, <1>5, <1>6, <1>7, <1>8, <1>9, <1>10, <1>11 DEF Handler

LEMMA NextCalmInv ==
    ASSUME Core, RestInv, [Next]_vars PROVE CalmInv'
<1> SUFFICES ASSUME phase' = "running", st'.kind = "idle", wait'.for = "none", ~stopping', faults' = 0
             PROVE  Calm'
  BY DEF CalmInv
<1>1. (failed => failed') /\ (refused => refused')
  BY GhostsGrow
<1>2. faults \in Nat
  BY DEF Core, TypeOK
<1>3. ASSUME phase = "running", UNCHANGED <<st, wait, stopping, queue, agent>>, faults <= faults'
      PROVE  Calm'
  <2>1. faults = 0
    BY <1>2, <1>3
  <2>2. Calm
    BY <1>3, <2>1 DEF CalmInv, RestInv
  <2>3. Quieted'
    BY <1>3, <2>2 DEF Calm, Quieted, agent
  <2> QED BY <1>1, <1>3, <2>2, <2>3 DEF Calm
<1>4. CASE Handler
  <2>1. faults <= faults'
    BY <1>4, FaultsGrow
  <2>2. Quiesces \/ Untouched
    BY <1>1, <1>4, <2>1, HandlerSettles
  <2>3. ~stopping
    BY <1>4, StoppingStays
  <2>4. CASE Quiesces
    BY <2>3, <2>4 DEF Quiesces
  <2>5. CASE Untouched
    BY <1>3, <2>5 DEF Untouched
  <2> QED BY <2>2, <2>4, <2>5
<1>5. CASE Ask
  <2>1. /\ UNCHANGED <<queue, agent, faults>>
        /\ \/ phase = "none" /\ ~closed
           \/ phase' = phase /\ UNCHANGED <<st, wait, stopping>>
    BY <1>5 DEF Ask, actor, store
  <2>2. CASE phase = "none" /\ ~closed
    <3>1. queue = <<>> /\ ~active /\ ~live /\ ~leased
      BY <2>2 DEF RestInv, GoneInv, Quieted
    <3>2. Quieted'
      BY <2>1, <3>1 DEF Quieted, agent
    <3> QED BY <2>1, <3>1, <3>2 DEF Calm
  <2> QED BY <1>2, <1>3, <2>1, <2>2
<1>6. CASE StopAll \/ Over \/ UNCHANGED vars
  <2>1. UNCHANGED <<phase, st, wait, stopping, queue, agent, faults>>
    BY <1>6 DEF StopAll, Over, vars, registry, actor, store
  <2> QED BY <1>2, <1>3, <2>1
<1>7. CASE TaskStep
  <2>1. /\ UNCHANGED <<phase, st, wait, stopping>> /\ faults <= faults'
        /\ UNCHANGED <<agent, queue>> \/ st.kind = "preparing"
    BY <1>7, TaskRests DEF registry, actor
  <2> QED BY <1>3, <2>1
<1> QED BY <1>4, <1>5, <1>6, <1>7 DEF Next

LEMMA NextRestInv ==
    ASSUME Core, RestInv, [Next]_vars PROVE RestInv'
<1>1. ClaimInv /\ GoneInv /\ ErrorInv
  BY DEF RestInv
<1> QED BY <1>1, NextClaimInv, NextGoneInv, NextErrorInv, NextCalmInv DEF RestInv

LEMMA InitRestInv == Init => RestInv
<1> SUFFICES ASSUME Init PROVE RestInv
  OBVIOUS
<1>1. wait.for = "none" /\ DOMAIN mailbox = {}
  BY EmptySeq DEF Init, NoWait
<1>2. phase = "none" /\ ~deleted /\ queue = <<>> /\ ~active /\ ~live /\ ~leased
  BY DEF Init
<1> QED BY <1>1, <1>2 DEF RestInv, ClaimInv, GoneInv, ErrorInv, CalmInv, Quieted

LEMMA RestedIsDone == RestInv => RestMeansDone
BY DEF RestInv, CalmInv, Calm, Quieted, RestMeansDone, AtRest

-----------------------------------------------------------------------------
(* A message is recorded at most once, and not while it is queued.         *)
LEMMA OnceAtMost ==
    ASSUME NEW r, NEW S, IsFiniteSet(S), \A i, j \in S : i = j
    PROVE  Cardinality(S) <= 1 /\ Cardinality(S) \in Nat /\ (Cardinality(S) = 0 <=> S = {})
<1>1. Cardinality(S) \in Nat /\ (Cardinality(S) = 0 <=> S = {})
  BY FS_CardinalityType, FS_EmptySet
<1>2. CASE S = {}
  BY <1>1, <1>2
<1>3. CASE S # {}
  <2>1. PICK i \in S : TRUE
    BY <1>3
  <2>2. S = {i}
    BY <2>1
  <2> QED BY <1>1, <2>2, FS_Singleton
<1> QED BY <1>2, <1>3

LEMMA CountedOnce ==
    ASSUME Core, LineInv, NEW r \in Requests
    PROVE  /\ Copies(r) \in Nat /\ InQueue(r) \in Nat /\ Copies(r) <= 1 /\ InQueue(r) <= 1
           /\ Copies(r) = 0 <=> r \notin Range(history)
           /\ InQueue(r) = 0 <=> r \notin Queued
           /\ Copies(r) = 0 \/ InQueue(r) = 0
<1> DEFINE H == {i \in DOMAIN history : history[i] = r}
           Q == {i \in DOMAIN queue : queue[i].req = r}
<1>1. /\ DOMAIN history = 1..Len(history) /\ Len(history) \in Nat
      /\ DOMAIN queue = 1..Len(queue) /\ Len(queue) \in Nat
  BY LenProperties DEF Core, TypeOK
<1>2. Increasing(history) /\ Increasing(Messages(queue)) /\ Below(Range(history), Queued)
  BY DEF LineInv
<1>3. r \in Nat
  BY RequestRange DEF Requests
<1>4. IsFiniteSet(H) /\ IsFiniteSet(Q)
  <2>1. IsFiniteSet(1..Len(history)) /\ IsFiniteSet(1..Len(queue))
    BY <1>1, FS_Interval
  <2> QED BY <1>1, <2>1, FS_Subset
<1>5. \A i, j \in H : i = j
  <2>1. \A i, j \in DOMAIN history : i < j => history[i] < history[j]
    BY <1>2 DEF Increasing
  <2>2. \A i, j \in DOMAIN history : i = j \/ i < j \/ j < i
    BY <1>1
  <2> QED BY <1>3, <2>1, <2>2
<1>6. \A i, j \in Q : i = j
  <2>1. \A i, j \in DOMAIN queue : i < j => queue[i].req < queue[j].req
    BY <1>2 DEF Increasing, Messages
  <2>2. \A i, j \in DOMAIN queue : i = j \/ i < j \/ j < i
    BY <1>1
  <2> QED BY <1>3, <2>1, <2>2
<1>7. Copies(r) = Cardinality(H) /\ InQueue(r) = Cardinality(Q)
  BY DEF Copies, InQueue
<1>8. (H = {} <=> r \notin Range(history)) /\ (Q = {} <=> r \notin Queued)
  <2>1. r \in Range(history) <=> \E i \in DOMAIN history : r = history[i]
    BY DEF Range
  <2>2. r \in Queued <=> \E i \in DOMAIN queue : r = queue[i].req
    BY QueuedIs DEF Queued
  <2> QED BY <2>1, <2>2
<1> HIDE DEF H, Q
<1>9. /\ Cardinality(H) <= 1 /\ Cardinality(H) \in Nat /\ (Cardinality(H) = 0 <=> H = {})
      /\ Cardinality(Q) <= 1 /\ Cardinality(Q) \in Nat /\ (Cardinality(Q) = 0 <=> Q = {})
  BY <1>4, <1>5, <1>6, OnceAtMost
<1>10. r \notin Range(history) \/ r \notin Queued
  BY <1>2, <1>3 DEF Below
<1> QED BY <1>7, <1>8, <1>9, <1>10

LEMMA QueueIsServed ==
    ASSUME Core, QueueInv, RestInv PROVE QueueServed
<1>1. LineInv /\ KeptInv
  BY DEF QueueInv
<1>2. FirstComeFirstServed
  BY <1>1 DEF LineInv, Increasing, FirstComeFirstServed
<1>3. QueuedKeptUnlessRenumbered
  <2> SUFFICES ASSUME ~renumbered, NEW r \in Requests, answer[r] = "queued"
               PROVE  /\ Copies(r) + InQueue(r) <= 1
                      /\ r \notin discarded => Copies(r) + InQueue(r) = 1
    BY DEF QueuedKeptUnlessRenumbered, QueuedKept
  <2>1. /\ Copies(r) \in Nat /\ InQueue(r) \in Nat /\ Copies(r) <= 1 /\ InQueue(r) <= 1
        /\ Copies(r) = 0 <=> r \notin Range(history)
        /\ InQueue(r) = 0 <=> r \notin Queued
        /\ Copies(r) = 0 \/ InQueue(r) = 0
    BY <1>1, CountedOnce
  <2>2. r \notin discarded => r \in Range(history) \cup Queued
    BY <1>1 DEF KeptInv
  <2>3. r \notin discarded => Copies(r) # 0 \/ InQueue(r) # 0
    BY <2>1, <2>2
  <2> HIDE DEF Copies, InQueue
  <2> QED BY <2>1, <2>3
<1> QED BY <1>2, <1>3, RestedIsDone DEF QueueServed

(* QueueServed: no accepted message is lost, doubled or served out of      *)
(* turn, and an actor that rests has left nothing behind.                  *)
THEOREM QueueServedCorrect == Spec => []QueueServed
<1>1. Init => Core /\ Book /\ QueueInv /\ RestInv
  BY InitCore, InitBook, InitQueueInv, InitRestInv
<1>2. Core /\ Book /\ QueueInv /\ RestInv /\ [Next]_vars => (Core /\ Book /\ QueueInv /\ RestInv)'
  <2> SUFFICES ASSUME Core, Book, QueueInv, RestInv, [Next]_vars
               PROVE  (Core /\ Book /\ QueueInv /\ RestInv)'
    OBVIOUS
  <2>1. Core' /\ Book' /\ RestInv'
    BY NextCore, NextBook, NextRestInv
  <2>2. ClaimSends
    BY DEF RestInv, ClaimInv, ClaimSends
  <2>3. QueueInv'
    BY <2>2, NextQueueInv
  <2> QED BY <2>1, <2>3
<1>3. Core /\ QueueInv /\ RestInv => QueueServed
  BY QueueIsServed
<1> QED BY <1>1, <1>2, <1>3, PTL DEF Spec

=============================================================================

------------------------ MODULE NioSocketChannel_proofs ------------------------
(***************************************************************************)
(* Theorems about NioSocketChannel for every set of callers, every choice  *)
(* of calls and every bound.                                               *)
(*                                                                         *)
(* The inductive invariant is TypeOK /\ LifeInv: neither is inductive      *)
(* alone, since downs <= 1 needs that a closed channel has no pipeline,    *)
(* and LifeInv needs the types.                                            *)
(***************************************************************************)
EXTENDS NioSocketChannel, SequenceTheorems, TLAPS

IInv == TypeOK /\ LifeInv

(* TypeOK in the groups that the handlers change together.                 *)
LifeType ==
    /\ state \in States
    /\ wired \in BOOLEAN
    /\ enabled \subseteq {"read", "write"}
    /\ output \in Seq(Write)
    /\ promises \subseteq Write
    /\ held \in BOOLEAN
    /\ downs \in 0..1
    /\ fault \in Faults

AnswerType ==
    /\ yes \subseteq Write
    /\ no \subseteq Write
    /\ swallowed \subseteq Write

UserType ==
    /\ tasks \in Seq(Task)
    /\ call \in [Threads -> Call]
    /\ issued \in [Threads -> 0..MaxCalls]
    /\ refs \subseteq Threads
    /\ delayed \in Nat
    /\ bootstrap \in {"alive", "dead"}
    /\ late \in BOOLEAN
    /\ careless \in BOOLEAN

SocketType ==
    /\ ups \in 0..1
    /\ fin \in BOOLEAN
    /\ conn \in {"up", "eof", "reset", "error"}
    /\ wire \in Seq(Write)

LEMMA TypeGroups == TypeOK <=> LifeType /\ AnswerType /\ UserType /\ SocketType
BY DEF TypeOK, LifeType, AnswerType, UserType, SocketType
-----------------------------------------------------------------------------
(* Facts about values.                                                     *)

LEMMA IdleType == Idle \in Call
BY DEF Idle, Call

LEMMA EmptyOutput == <<>> \in Seq(Write)
OBVIOUS

LEMMA NextWriteType ==
  ASSUME TypeOK, NEW t \in Threads, issued[t] < MaxCalls, NEW kind \in Kinds
  PROVE  NextWrite(t, kind) \in Write /\ NextWrite(t, kind).by = t
<1>1. issued[t] \in 0..MaxCalls
  BY DEF TypeOK
<1>2. issued[t] + 1 \in 1..MaxCalls
  BY <1>1, BoundAssumption
<1> QED BY <1>2 DEF NextWrite, Write

LEMMA IssueType ==
  ASSUME TypeOK, NEW t \in Threads, issued[t] < MaxCalls
  PROVE  [issued EXCEPT ![t] = @ + 1] \in [Threads -> 0..MaxCalls]
<1>1. issued[t] \in 0..MaxCalls
  BY DEF TypeOK
<1>2. issued[t] + 1 \in 0..MaxCalls
  BY <1>1, BoundAssumption
<1> QED BY <1>2 DEF TypeOK

LEMMA LoopIsThread == Loop \in Threads
BY DEF Threads

(* The task the loop takes is an element of its queue, and so are those    *)
(* it leaves.                                                              *)
LEMMA HeadOfTasks ==
  ASSUME TypeOK, tasks # <<>>
  PROVE  /\ 1 \in DOMAIN tasks
         /\ Head(tasks) = tasks[1]
         /\ Head(tasks) \in Task
         /\ Tail(tasks) \in Seq(Task)
         /\ \A i \in DOMAIN Tail(tasks) : i + 1 \in DOMAIN tasks /\ Tail(tasks)[i] = tasks[i + 1]
BY DEF TypeOK

LEMMA AppendToTasks ==
  ASSUME TypeOK, NEW task \in Task
  PROVE  /\ Append(tasks, task) \in Seq(Task)
         /\ \A i \in DOMAIN Append(tasks, task) :
               \/ Append(tasks, task)[i] = task
               \/ i \in DOMAIN tasks /\ Append(tasks, task)[i] = tasks[i]
BY DEF TypeOK
-----------------------------------------------------------------------------
(* What the handlers do to the types and to StatesAgree.                   *)

LEMMA HandleCloseType == IInv /\ HandleClose => LifeType'
<1> SUFFICES ASSUME IInv, HandleClose PROVE LifeType'
  OBVIOUS
<1>1. (output \in Seq(Write))'
  BY EmptyOutput DEF HandleClose, RemoveChannel, ResetPipeline, IInv, TypeOK
<1>2. (downs \in 0..1)'
  BY DEF HandleClose, IInv, TypeOK, LifeInv, StatesAgree
<1>3. (fault \in Faults)'
  BY DEF HandleClose, RemoveChannel, IInv, TypeOK, Faults
<1> QED
  BY <1>1, <1>2, <1>3 DEF HandleClose, RemoveChannel, ResetPipeline, IInv, TypeOK, LifeType, States

LEMMA CloseInLoopType == IInv /\ CloseInLoop => LifeType'
BY HandleCloseType DEF CloseInLoop, life, IInv, TypeOK, LifeType

LEMMA DestroyedType == IInv /\ Destroyed /\ held' \in BOOLEAN => LifeType'
<1> SUFFICES ASSUME IInv, Destroyed, held' \in BOOLEAN PROVE LifeType'
  OBVIOUS
<1>1. (output \in Seq(Write))'
  BY EmptyOutput DEF Destroyed, ResetPipeline
<1>2. (downs \in 0..1)'
  BY DEF Destroyed, IInv, TypeOK, LifeInv, StatesAgree
<1> QED
  BY <1>1, <1>2 DEF Destroyed, ResetPipeline, IInv, TypeOK, LifeType, States

LEMMA WriteInLoopType ==
  ASSUME IInv, NEW w \in Write, WriteInLoop(w)
  PROVE  LifeType' /\ AnswerType'
<1>1. (output \in Seq(Write))'
  <2>1. output \in Seq(Write)
    BY DEF IInv, TypeOK
  <2>2. Append(output, w) \in Seq(Write)
    BY <2>1
  <2> QED BY <2>1, <2>2 DEF WriteInLoop
<1>2. (promises \subseteq Write)' /\ (no \subseteq Write)'
  BY DEF WriteInLoop, IInv, TypeOK
<1>3. (fault \in Faults)'
  BY DEF WriteInLoop, IInv, TypeOK, Faults
<1> QED
  BY <1>1, <1>2, <1>3 DEF WriteInLoop, IInv, TypeOK, LifeType, AnswerType

LEMMA HandleCloseAgrees ==
  ASSUME IInv, HandleClose, ups = 1, UNCHANGED <<ups, bootstrap, late, careless>>
  PROVE  StatesAgree'
BY DEF HandleClose, RemoveChannel, ResetPipeline, IInv, TypeOK, LifeInv, StatesAgree

(* Only an established channel can be closed.                              *)
LEMMA ClosableIsUp == IInv /\ Closable => ups = 1
BY DEF IInv, TypeOK, LifeInv, StatesAgree, Fresh, Closable

LEMMA HandleCloseFault ==
  ASSUME IInv, Running, HandleClose, Closable \/ wired, UNCHANGED <<bootstrap, late, careless>>
  PROVE  FaultCause'
BY DEF HandleClose, RemoveChannel, Running, IInv, TypeOK, LifeInv, StatesAgree, FaultCause, Closable

LEMMA HandleCloseSocket ==
  ASSUME IInv, HandleClose, UNCHANGED conn
  PROVE  WriteOffMeansBroken'
BY DEF HandleClose, RemoveChannel, ResetPipeline, IInv, LifeInv, WriteOffMeansBroken
-----------------------------------------------------------------------------
(* One lemma per action.                                                   *)

LEMMA InitInv == Init => IInv
<1> SUFFICES ASSUME Init PROVE IInv
  OBVIOUS
<1>1. TypeOK
  <2>1. call \in [Threads -> Call]
    BY IdleType DEF Init
  <2>2. issued \in [Threads -> 0..MaxCalls]
    BY BoundAssumption DEF Init
  <2>3. /\ output \in Seq(Write) /\ wire \in Seq(Write)
        /\ tasks \in Seq(Task)
    BY DEF Init
  <2>4. state \in States /\ fault \in Faults
    BY DEF Init, States, Faults
  <2>5. /\ wired \in BOOLEAN /\ held \in BOOLEAN /\ fin \in BOOLEAN
        /\ late \in BOOLEAN /\ careless \in BOOLEAN
    BY DEF Init
  <2>6. delayed \in Nat /\ ups \in 0..1 /\ downs \in 0..1
    BY DEF Init
  <2>7. LifeType /\ AnswerType
    <3>1. enabled \subseteq {"read", "write"} /\ promises \subseteq Write
      BY DEF Init
    <3>2. AnswerType
      BY DEF Init, AnswerType
    <3> QED BY <3>1, <3>2, <2>3, <2>4, <2>5, <2>6 DEF LifeType
  <2>8. UserType /\ SocketType
    <3>1. refs \subseteq Threads /\ bootstrap \in {"alive", "dead"}
      BY DEF Init
    <3>2. conn \in {"up", "eof", "reset", "error"}
      BY DEF Init
    <3> QED BY <3>1, <3>2, <2>1, <2>2, <2>3, <2>5, <2>6 DEF UserType, SocketType
  <2> QED BY <2>7, <2>8, TypeGroups
<1>2. LifeInv
  BY DEF Init, LifeInv, StatesAgree, Fresh, WriteOffMeansBroken, QueueOK, CallOK, RawQueued,
     HealthyNeverHalfClosed, FaultCause
<1> QED BY <1>1, <1>2 DEF IInv

(* The queue stays good when at most a call of the loop thread is counted. *)
LEMMA QueueStays ==
  ASSUME IInv, UNCHANGED <<tasks, call, refs, bootstrap, careless>>,
         \/ UNCHANGED issued
         \/ issued[Loop] < MaxCalls /\ issued' = [issued EXCEPT ![Loop] = @ + 1]
  PROVE  QueueOK'
<1>1. \A t \in Threads : issued[t] > 0 => issued'[t] > 0
  <2>1. issued \in [Threads -> 0..MaxCalls]
    BY DEF IInv, TypeOK
  <2> QED BY <2>1, BoundAssumption, LoopIsThread
<1>2. CallerActed => CallerActed'
  BY <1>1 DEF CallerActed, Threads
<1>3. (\A i \in DOMAIN tasks : TaskOK(tasks[i]))'
  BY <1>1, <1>2 DEF IInv, LifeInv, QueueOK, TaskOK, Threads
<1>4. (\A t \in Threads : CallOK(t))'
  BY <1>1 DEF IInv, LifeInv, QueueOK, CallOK
<1>5. (refs = {} /\ RawQueued => careless)'
  BY DEF IInv, LifeInv, QueueOK, RawQueued
<1> QED BY <1>3, <1>4, <1>5 DEF QueueOK

LEMMA NewChannelLoopInv == IInv /\ NewChannelLoop => IInv'
<1> SUFFICES ASSUME IInv, NewChannelLoop PROVE IInv'
  OBVIOUS
<1> USE DEF NewChannelLoop, Established, answers, Running
<1>1. TypeOK'
  <2>1. LifeType' /\ AnswerType'
    BY DEF IInv, TypeOK, LifeType, AnswerType, States, Faults
  <2>2. UserType' /\ SocketType'
    BY DEF IInv, TypeOK, UserType, SocketType
  <2> QED BY <2>1, <2>2 DEF TypeOK, LifeType, AnswerType, UserType, SocketType
<1>2. StatesAgree'
  BY DEF IInv, LifeInv, StatesAgree, Fresh, TypeOK
<1>3. WriteOffMeansBroken'
  BY DEF IInv, LifeInv, StatesAgree, Fresh, WriteOffMeansBroken, TypeOK
<1>4. QueueOK'
  BY DEF IInv, LifeInv, StatesAgree, Fresh, QueueOK, RawQueued, CallOK, TypeOK
<1>5. HealthyNeverHalfClosed'
  BY DEF IInv, LifeInv, HealthyNeverHalfClosed
<1>6. FaultCause'
  BY DEF IInv, LifeInv, FaultCause, TypeOK
<1> QED BY <1>1, <1>2, <1>3, <1>4, <1>5, <1>6 DEF IInv, LifeInv

LEMMA CheckInv == ASSUME NEW t \in Callers PROVE IInv /\ Check(t) => IInv'
<1> SUFFICES ASSUME IInv, Check(t) PROVE IInv'
  OBVIOUS
<1> USE DEF Check, CheckWrite, CheckClosing, life, answers, Running
<1>0. t \in Threads
  BY DEF Threads
<1>1. TypeOK'
  <2>1. issued' \in [Threads -> 0..MaxCalls]
    BY <1>0, IssueType DEF IInv
  <2>2. CASE CheckWrite(t)
    <3>1. PICK kind \in Kinds :
            LET w == NextWrite(t, kind) IN
            \/ call' = [call EXCEPT ![t] = Job("write", w)] /\ UNCHANGED tasks
            \/ /\ tasks' = IF Refusable(w) THEN Append(tasks, Job("refuse", w)) ELSE tasks
               /\ UNCHANGED call
      BY <2>2
    <3>2. NextWrite(t, kind) \in Write
      BY <1>0, NextWriteType DEF IInv
    <3>3. /\ Job("write", NextWrite(t, kind)) \in Call
          /\ Job("refuse", NextWrite(t, kind)) \in Task
      BY <3>2 DEF Job, Call, Task
    <3>4. tasks' \in Seq(Task)
      BY <3>1, <3>3, AppendToTasks DEF IInv, TypeOK
    <3>5. call' \in [Threads -> Call]
      BY <3>1, <3>3 DEF IInv, TypeOK
    <3> QED BY <2>1, <3>4, <3>5 DEF IInv, TypeOK
  <2>3. CASE CheckClosing(t)
    <3>1. call' \in [Threads -> Call]
      BY <2>3, CallsAssumption DEF IInv, TypeOK, Call, Job
    <3> QED BY <2>1, <2>3, <3>1 DEF IInv, TypeOK
  <2> QED BY <2>2, <2>3
<1>2. StatesAgree'
  BY <1>0 DEF IInv, LifeInv, StatesAgree, Fresh
<1>3. WriteOffMeansBroken' /\ HealthyNeverHalfClosed' /\ FaultCause'
  BY DEF IInv, LifeInv, WriteOffMeansBroken, HealthyNeverHalfClosed, FaultCause
<1>4. (\A u \in Threads : issued[u] > 0 => issued'[u] > 0) /\ issued'[t] > 0 /\ CallerActed'
  BY <1>0 DEF IInv, TypeOK, CallerActed
<1>5. (refs = {} /\ RawQueued => careless)'
  OBVIOUS
<1>6. QueueOK'
  <2>1. CASE CheckWrite(t)
    <3>1. PICK kind \in Kinds :
            LET w == NextWrite(t, kind) IN
            \/ call' = [call EXCEPT ![t] = Job("write", w)] /\ UNCHANGED tasks
            \/ /\ tasks' = IF Refusable(w) THEN Append(tasks, Job("refuse", w)) ELSE tasks
               /\ UNCHANGED call
      BY <2>1
    <3>2. NextWrite(t, kind) \in Write /\ NextWrite(t, kind).by = t
      BY <1>0, NextWriteType DEF IInv
    <3>3. ASSUME NEW i \in DOMAIN tasks'
          PROVE  (\E j \in DOMAIN tasks : tasks'[i] = tasks[j])
                 \/ tasks'[i] = Job("refuse", NextWrite(t, kind))
      <4>1. Job("refuse", NextWrite(t, kind)) \in Task
        BY <3>2 DEF Job, Task
      <4> QED BY <3>1, <4>1, AppendToTasks DEF IInv
    <3>4. (\A i \in DOMAIN tasks : TaskOK(tasks[i]))'
      BY <1>4, <3>2, <3>3 DEF IInv, LifeInv, QueueOK, TaskOK, Job, Threads
    <3>5. (\A u \in Threads : CallOK(u))'
      BY <1>4, <3>1, <3>2 DEF IInv, LifeInv, QueueOK, CallOK, Job, TypeOK
    <3> QED BY <1>5, <3>4, <3>5 DEF QueueOK
  <2>2. CASE CheckClosing(t)
    <3>1. (\A i \in DOMAIN tasks : TaskOK(tasks[i]))'
      BY <1>4, <2>2 DEF IInv, LifeInv, QueueOK, TaskOK, Threads
    <3>2. (\A u \in Threads : CallOK(u))'
      BY <1>4, <2>2 DEF IInv, LifeInv, QueueOK, CallOK, Job, TypeOK
    <3> QED BY <1>5, <3>1, <3>2 DEF QueueOK
  <2> QED BY <2>1, <2>2
<1> QED BY <1>1, <1>2, <1>3, <1>6 DEF IInv, LifeInv

LEMMA ActInv == ASSUME NEW t \in Callers PROVE IInv /\ Act(t) => IInv'
<1> SUFFICES ASSUME IInv, Act(t) PROVE IInv'
  OBVIOUS
<1> USE DEF Act, ScheduleClose, answers, Running
<1>0. t \in Threads /\ t \in refs /\ call[t].op \in {"write"} \cup Calls
  BY DEF Threads, IInv, LifeInv, QueueOK, CallOK, Idle
<1>1. call[t].op \in {"write", "close", "shutdown"} => call[t] \in Task
  BY <1>0 DEF IInv, TypeOK, Call, Task
<1>2. TypeOK'
  <2>1. tasks' \in Seq(Task)
    BY <1>1, AppendToTasks DEF IInv, TypeOK
  <2>2. call' \in [Threads -> Call]
    BY IdleType DEF IInv, TypeOK
  <2>3. LifeType' /\ AnswerType'
    BY DEF IInv, TypeOK, LifeType, AnswerType, States, Faults
  <2>4. delayed' \in Nat
    BY DEF IInv, TypeOK
  <2>6. late' \in BOOLEAN
    <3>1. late \in BOOLEAN
      BY DEF IInv, TypeOK
    <3>2. late' = late \/ late' = (late \/ state = "kInactive")
      OBVIOUS
    <3> QED BY <3>1, <3>2
  <2>5. UserType' /\ SocketType'
    BY <2>1, <2>2, <2>4, <2>6 DEF IInv, TypeOK, UserType, SocketType
  <2> QED BY <2>3, <2>5 DEF TypeOK, LifeType, AnswerType, UserType, SocketType
<1>3. StatesAgree'
  <2>1. ups = 1
    BY <1>0 DEF IInv, TypeOK, LifeInv, StatesAgree, Fresh, Idle
  <2>2. CASE call[t].op = "write"
    BY <2>1, <2>2 DEF IInv, LifeInv, StatesAgree
  <2>3. CASE call[t].op # "write"
    <3>1. state' = "kInactiving" /\ UNCHANGED <<wired, held, downs, ups, bootstrap>>
      BY <2>3
    <3>2. late \/ state = "kInactive" => late'
      BY <2>3
    <3> QED BY <2>1, <3>1, <3>2 DEF IInv, LifeInv, StatesAgree
  <2> QED BY <2>2, <2>3
<1>4. WriteOffMeansBroken' /\ HealthyNeverHalfClosed' /\ FaultCause'
  BY DEF IInv, LifeInv, WriteOffMeansBroken, HealthyNeverHalfClosed, FaultCause
<1>5. QueueOK'
  <2>1. TaskOK(call[t])
    BY <1>0, CallsAssumption
       DEF IInv, LifeInv, QueueOK, CallOK, TaskOK, CallerActed, Idle
  <2>2. \A i \in DOMAIN tasks' : tasks'[i] = call[t] \/ \E j \in DOMAIN tasks : tasks'[i] = tasks[j]
    BY <1>1, AppendToTasks DEF IInv
  <2>3. (\A i \in DOMAIN tasks : TaskOK(tasks[i]))'
    BY <2>1, <2>2 DEF TaskOK, CallerActed, IInv, LifeInv, QueueOK
  <2>4. (\A u \in Threads : CallOK(u))'
    BY DEF IInv, LifeInv, QueueOK, CallOK, TypeOK
  <2>5. refs' # {}
    BY <1>0
  <2> QED BY <2>3, <2>4, <2>5 DEF QueueOK
<1> QED BY <1>2, <1>3, <1>4, <1>5 DEF IInv, LifeInv

LEMMA ReleaseInv == ASSUME NEW t \in Threads PROVE IInv /\ Release(t) => IInv'
<1> SUFFICES ASSUME IInv, Release(t) PROVE IInv'
  OBVIOUS
<1> USE DEF Release, life, answers, Running
<1>1. TypeOK'
  BY DEF IInv, TypeOK
<1>2. StatesAgree'
  BY DEF IInv, LifeInv, StatesAgree, Fresh
<1>3. WriteOffMeansBroken' /\ HealthyNeverHalfClosed' /\ FaultCause'
  BY DEF IInv, LifeInv, WriteOffMeansBroken, HealthyNeverHalfClosed, FaultCause
<1>4. QueueOK'
  <2>1. (\A i \in DOMAIN tasks : TaskOK(tasks[i]))'
    BY DEF IInv, LifeInv, QueueOK, TaskOK, CallerActed
  <2>2. (\A u \in Threads : CallOK(u))'
    BY DEF IInv, LifeInv, QueueOK, CallOK
  <2>3. (refs = {} /\ RawQueued => careless)'
    BY DEF RawQueued
  <2> QED BY <2>1, <2>2, <2>3 DEF QueueOK
<1> QED BY <1>1, <1>2, <1>3, <1>4 DEF IInv, LifeInv

LEMMA LoopWriteInv == IInv /\ LoopWrite => IInv'
<1> SUFFICES ASSUME IInv, LoopWrite PROVE IInv'
  OBVIOUS
<1> USE DEF LoopWrite, LoopCalls, life, Running
<1>0. PICK kind \in Kinds :
        LET w == NextWrite(Loop, kind) IN
        \/ state = "kActive" /\ WriteInLoop(w)
        \/ /\ no' = IF Refusable(w) THEN no \cup {w} ELSE no
           /\ UNCHANGED <<life, yes, swallowed>>
  OBVIOUS
<1>1. NextWrite(Loop, kind) \in Write
  BY NextWriteType, LoopIsThread DEF IInv
<1>2. TypeOK'
  <2>1. LifeType' /\ AnswerType'
    BY <1>0, <1>1, WriteInLoopType DEF IInv, TypeOK, LifeType, AnswerType
  <2>2. UserType' /\ SocketType'
    BY IssueType, LoopIsThread DEF IInv, TypeOK, UserType, SocketType
  <2> QED BY <2>1, <2>2 DEF TypeOK, LifeType, AnswerType, UserType, SocketType
<1>3. StatesAgree'
  BY <1>0 DEF WriteInLoop, IInv, LifeInv, StatesAgree, Fresh
<1>4. WriteOffMeansBroken' /\ HealthyNeverHalfClosed'
  BY <1>0 DEF WriteInLoop, IInv, LifeInv, WriteOffMeansBroken, HealthyNeverHalfClosed
<1>5. FaultCause'
  BY <1>0 DEF WriteInLoop, IInv, LifeInv, StatesAgree, FaultCause
<1>6. QueueOK'
  BY QueueStays
<1> QED BY <1>2, <1>3, <1>4, <1>5, <1>6 DEF IInv, LifeInv

LEMMA LoopCloseInv == IInv /\ LoopClose => IInv'
<1> SUFFICES ASSUME IInv, LoopClose PROVE IInv'
  OBVIOUS
<1> USE DEF LoopClose, LoopCalls, answers, Running
<1>0. HandleClose /\ ups = 1
  BY ClosableIsUp DEF CloseInLoop
<1>1. TypeOK'
  <2>1. LifeType'
    BY <1>0, HandleCloseType
  <2>2. AnswerType' /\ UserType' /\ SocketType'
    BY IssueType, LoopIsThread DEF IInv, TypeOK, AnswerType, UserType, SocketType
  <2> QED BY <2>1, <2>2 DEF TypeOK, LifeType, AnswerType, UserType, SocketType
<1>2. StatesAgree'
  BY <1>0, HandleCloseAgrees
<1>3. WriteOffMeansBroken' /\ HealthyNeverHalfClosed'
  BY <1>0, HandleCloseSocket DEF IInv, LifeInv, HealthyNeverHalfClosed
<1>4. FaultCause'
  BY <1>0, HandleCloseFault
<1>5. QueueOK'
  BY QueueStays
<1> QED BY <1>1, <1>2, <1>3, <1>4, <1>5 DEF IInv, LifeInv

LEMMA LoopShutdownInv == IInv /\ LoopShutdown => IInv'
<1> SUFFICES ASSUME IInv, LoopShutdown PROVE IInv'
  OBVIOUS
<1> USE DEF LoopShutdown, LoopCalls, ShutdownInLoop, answers, Running
<1>1. TypeOK'
  BY IssueType, LoopIsThread DEF IInv, TypeOK, States, Faults
<1>2. StatesAgree'
  BY DEF IInv, LifeInv, StatesAgree, Fresh
<1>3. WriteOffMeansBroken'
  BY DEF IInv, LifeInv, WriteOffMeansBroken
<1>4. HealthyNeverHalfClosed'
  <2>1. fin' => fin \/ (wired /\ "write" \notin enabled)
    OBVIOUS
  <2> QED BY <2>1 DEF IInv, LifeInv, WriteOffMeansBroken, HealthyNeverHalfClosed
<1>5. FaultCause'
  BY DEF IInv, LifeInv, StatesAgree, FaultCause
<1>6. QueueOK'
  BY QueueStays
<1> QED BY <1>1, <1>2, <1>3, <1>4, <1>5, <1>6 DEF IInv, LifeInv

LEMMA LoopCloseWithDelayInv == IInv /\ LoopCloseWithDelay => IInv'
<1> SUFFICES ASSUME IInv, LoopCloseWithDelay PROVE IInv'
  OBVIOUS
<1> USE DEF LoopCloseWithDelay, LoopCalls, ScheduleClose, answers, Running
<1>1. TypeOK'
  BY IssueType, LoopIsThread DEF IInv, TypeOK, States, Faults
<1>2. StatesAgree'
  BY ClosableIsUp DEF IInv, LifeInv, StatesAgree, Closable
<1>3. WriteOffMeansBroken' /\ HealthyNeverHalfClosed' /\ FaultCause'
  BY DEF IInv, LifeInv, WriteOffMeansBroken, HealthyNeverHalfClosed, FaultCause
<1>4. QueueOK'
  BY QueueStays
<1> QED BY <1>1, <1>2, <1>3, <1>4 DEF IInv, LifeInv

(* Taking a task leaves a good queue, whatever the task did.               *)
LEMMA TailQueue ==
  ASSUME IInv, tasks # <<>>, tasks' = Tail(tasks),
         UNCHANGED <<call, issued, refs, bootstrap, careless>>
  PROVE  QueueOK'
<1>1. \A i \in DOMAIN tasks' : \E j \in DOMAIN tasks : tasks'[i] = tasks[j]
  BY HeadOfTasks DEF IInv
<1>2. (\A i \in DOMAIN tasks : TaskOK(tasks[i]))'
  BY <1>1 DEF IInv, LifeInv, QueueOK, TaskOK, CallerActed
<1>3. (\A t \in Threads : CallOK(t))'
  BY DEF IInv, LifeInv, QueueOK, CallOK
<1>4. (refs = {} /\ RawQueued => careless)'
  BY <1>1 DEF IInv, LifeInv, QueueOK, RawQueued, RawTask
<1> QED BY <1>2, <1>3, <1>4 DEF QueueOK

LEMMA RunTaskInv == IInv /\ RunTask => IInv'
<1> SUFFICES ASSUME IInv, RunTask PROVE IInv'
  OBVIOUS
<1> DEFINE task == Head(tasks)
<1>1. /\ Running /\ tasks # <<>> /\ tasks' = Tail(tasks)
      /\ UNCHANGED <<call, issued, refs, delayed, bootstrap, late, careless, ups, conn, wire>>
  BY DEF RunTask
<1>2. task \in Task /\ TaskOK(task) /\ (RawTask(task) => refs # {} \/ careless)
  <2>1. 1 \in DOMAIN tasks /\ task = tasks[1] /\ task \in Task
    BY <1>1, HeadOfTasks DEF IInv
  <2> QED BY <2>1 DEF IInv, LifeInv, QueueOK, RawQueued
<1>3. ups = 1
  BY <1>1 DEF IInv, TypeOK, LifeInv, StatesAgree, Fresh
<1>4. QueueOK'
  BY <1>1, TailQueue
<1>5. SocketType /\ UserType'
  BY <1>1, HeadOfTasks DEF IInv, TypeOK, SocketType, UserType
<1>6. ASSUME LifeType', AnswerType', fin' \in BOOLEAN
      PROVE  TypeOK'
  BY <1>1, <1>5, <1>6 DEF TypeOK, LifeType, AnswerType, UserType, SocketType
<1>7. CASE RawTask(task) /\ Gone /\ fault' = "freed"
           /\ UNCHANGED <<state, wired, enabled, output, promises, held, downs, answers, fin>>
  <2>1. TypeOK'
    <3>1. LifeType' /\ AnswerType' /\ fin' \in BOOLEAN
      BY <1>7 DEF IInv, TypeOK, LifeType, AnswerType, answers, Faults
    <3> QED BY <1>6, <3>1
  <2>2. StatesAgree'
    BY <1>1, <1>3, <1>7 DEF IInv, LifeInv, StatesAgree
  <2>3. WriteOffMeansBroken' /\ HealthyNeverHalfClosed'
    BY <1>1, <1>7 DEF IInv, LifeInv, WriteOffMeansBroken, HealthyNeverHalfClosed
  <2>4. FaultCause'
    BY <1>1, <1>2, <1>7 DEF IInv, LifeInv, FaultCause, Gone
  <2> QED BY <1>4, <2>1, <2>2, <2>3, <2>4 DEF IInv, LifeInv
<1>8. CASE task.op = "write" /\ WriteInLoop(task.w) /\ UNCHANGED fin
  <2>1. task.w \in Write /\ task.w.by \in Callers
    BY <1>2, <1>8 DEF TaskOK
  <2>2. TypeOK'
    <3>1. fin' \in BOOLEAN
      BY <1>8 DEF IInv, TypeOK
    <3> QED BY <1>6, <1>8, <2>1, <3>1, WriteInLoopType
  <2>3. StatesAgree'
    BY <1>1, <1>3, <1>8 DEF WriteInLoop, IInv, LifeInv, StatesAgree
  <2>4. WriteOffMeansBroken' /\ HealthyNeverHalfClosed'
    BY <1>1, <1>8 DEF WriteInLoop, IInv, LifeInv, WriteOffMeansBroken, HealthyNeverHalfClosed
  <2>5. FaultCause'
    <3>1. fault' = "writeInLoop" => late \/ bootstrap = "dead"
      BY <1>1, <1>8 DEF WriteInLoop, Running, IInv, TypeOK, LifeInv, StatesAgree
    <3>2. fault' = "nullPromise" => ~Promised(task.w) /\ state' = "kInactive"
      BY <1>1, <1>8 DEF WriteInLoop, Running
    <3>3. ~Promised(task.w) => Kinds \cap {"plain", "rawcb", "shared"} # {}
      BY <2>1, KindsAssumption DEF Write, Promised
    <3>4. fault' \in {"none", "writeInLoop", "nullPromise"}
      BY <1>1, <1>8 DEF WriteInLoop, Running
    <3>5. CallerActed'
      BY <1>1, <1>2, <1>8, <2>1 DEF TaskOK, CallerActed
    <3> QED BY <1>1, <3>1, <3>2, <3>3, <3>4, <3>5 DEF FaultCause
  <2> QED BY <1>4, <2>2, <2>3, <2>4, <2>5 DEF IInv, LifeInv
<1>9. CASE task.op = "refuse" /\ no' = no \cup {task.w} /\ UNCHANGED <<life, yes, swallowed, fin>>
  <2>1. TypeOK'
    <3>1. LifeType' /\ AnswerType' /\ fin' \in BOOLEAN
      BY <1>2, <1>9 DEF IInv, TypeOK, LifeType, AnswerType, TaskOK, life
    <3> QED BY <1>6, <3>1
  <2>2. StatesAgree'
    BY <1>1, <1>3, <1>9 DEF IInv, LifeInv, StatesAgree, life
  <2>3. WriteOffMeansBroken' /\ HealthyNeverHalfClosed' /\ FaultCause'
    BY <1>1, <1>9 DEF IInv, LifeInv, WriteOffMeansBroken, HealthyNeverHalfClosed, FaultCause,
       Running, life
  <2> QED BY <1>4, <2>1, <2>2, <2>3 DEF IInv, LifeInv
<1>10. CASE task.op = "close" /\ CloseInLoop /\ UNCHANGED <<answers, fin>>
  <2>1. TypeOK'
    <3>1. LifeType' /\ AnswerType' /\ fin' \in BOOLEAN
      BY <1>10, CloseInLoopType DEF IInv, TypeOK, AnswerType, answers
    <3> QED BY <1>6, <3>1
  <2>2. StatesAgree'
    BY <1>1, <1>3, <1>10, HandleCloseAgrees DEF CloseInLoop, life, IInv, LifeInv, StatesAgree
  <2>3. WriteOffMeansBroken' /\ HealthyNeverHalfClosed'
    BY <1>1, <1>10, HandleCloseSocket
       DEF CloseInLoop, life, IInv, LifeInv, WriteOffMeansBroken, HealthyNeverHalfClosed
  <2>4. FaultCause'
    BY <1>1, <1>10, HandleCloseFault DEF CloseInLoop, life, Running, FaultCause
  <2> QED BY <1>4, <2>1, <2>2, <2>3, <2>4 DEF IInv, LifeInv
<1>11. CASE task.op = "shutdown" /\ ShutdownInLoop
            /\ UNCHANGED <<state, wired, enabled, output, promises, held, downs, answers>>
  <2>1. TypeOK'
    <3>1. LifeType' /\ AnswerType'
      BY <1>11 DEF ShutdownInLoop, IInv, TypeOK, LifeType, AnswerType, answers, Faults
    <3>2. fin' \in BOOLEAN
      BY <1>11 DEF ShutdownInLoop, IInv, TypeOK
    <3> QED BY <1>6, <3>1, <3>2
  <2>2. StatesAgree'
    BY <1>1, <1>3, <1>11 DEF IInv, LifeInv, StatesAgree
  <2>3. WriteOffMeansBroken'
    BY <1>1, <1>11 DEF IInv, LifeInv, WriteOffMeansBroken
  <2>4. HealthyNeverHalfClosed'
    <3>1. fin' => fin \/ (wired /\ "write" \notin enabled)
      BY <1>11 DEF ShutdownInLoop
    <3> QED BY <1>1, <3>1 DEF IInv, LifeInv, WriteOffMeansBroken, HealthyNeverHalfClosed
  <2>5. FaultCause'
    BY <1>1, <1>2, <1>11 DEF ShutdownInLoop, TaskOK, CallerActed, IInv, LifeInv, FaultCause
  <2> QED BY <1>4, <2>1, <2>2, <2>3, <2>4, <2>5 DEF IInv, LifeInv
<1>12. CASE task.op = "destroyed" /\ Destroyed /\ UNCHANGED <<held, answers, fin>>
  <2>0. bootstrap = "dead"
    BY <1>2, <1>12 DEF TaskOK
  <2>1. TypeOK'
    <3>1. LifeType' /\ AnswerType' /\ fin' \in BOOLEAN
      BY <1>12, DestroyedType DEF IInv, TypeOK, AnswerType, answers
    <3> QED BY <1>6, <3>1
  <2>2. StatesAgree'
    BY <1>1, <1>3, <1>12, <2>0 DEF Destroyed, ResetPipeline, IInv, TypeOK, States, LifeInv, StatesAgree
  <2>3. WriteOffMeansBroken' /\ HealthyNeverHalfClosed' /\ FaultCause'
    BY <1>1, <1>12 DEF Destroyed, ResetPipeline, Running, IInv, LifeInv, WriteOffMeansBroken,
       HealthyNeverHalfClosed, FaultCause
  <2> QED BY <1>4, <2>1, <2>2, <2>3 DEF IInv, LifeInv
<1> QED BY <1>7, <1>8, <1>9, <1>10, <1>11, <1>12 DEF RunTask

LEMMA DelayedCloseInv == IInv /\ DelayedClose => IInv'
<1> SUFFICES ASSUME IInv, DelayedClose PROVE IInv'
  OBVIOUS
<1>1. /\ Running /\ delayed > 0 /\ delayed' = delayed - 1
      /\ CloseInLoop \/ UNCHANGED life
      /\ UNCHANGED <<answers, tasks, call, issued, refs, bootstrap, late, careless, ups, fin, conn, wire>>
  BY DEF DelayedClose
<1>2. ups = 1
  BY <1>1 DEF IInv, TypeOK, LifeInv, StatesAgree, Fresh
<1>3. TypeOK'
  <2>1. LifeType'
    BY <1>1, CloseInLoopType DEF IInv, TypeOK, LifeType, life
  <2>2. AnswerType' /\ UserType' /\ SocketType'
    BY <1>1 DEF IInv, TypeOK, AnswerType, UserType, SocketType, answers
  <2> QED BY <2>1, <2>2 DEF TypeOK, LifeType, AnswerType, UserType, SocketType
<1>4. StatesAgree'
  BY <1>1, <1>2, HandleCloseAgrees DEF CloseInLoop, life, IInv, LifeInv, StatesAgree
<1>5. WriteOffMeansBroken' /\ HealthyNeverHalfClosed'
  BY <1>1, HandleCloseSocket
     DEF CloseInLoop, life, IInv, LifeInv, WriteOffMeansBroken, HealthyNeverHalfClosed
<1>6. FaultCause'
  BY <1>1, HandleCloseFault DEF CloseInLoop, life, Running, FaultCause
<1>7. QueueOK'
  BY <1>1, QueueStays
<1> QED BY <1>3, <1>4, <1>5, <1>6, <1>7 DEF IInv, LifeInv

LEMMA ReadEventInv == IInv /\ ReadEvent => IInv'
<1> SUFFICES ASSUME IInv, ReadEvent PROVE IInv'
  OBVIOUS
<1>1. /\ Running /\ wired /\ "read" \in enabled
      /\ UNCHANGED <<answers, users, ups, fin, conn, wire>>
  BY DEF ReadEvent
<1>2. ups = 1
  BY <1>1 DEF IInv, TypeOK, LifeInv, StatesAgree, Fresh
<1>3. \/ HandleClose
      \/ UNCHANGED life
      \/ /\ enabled' = enabled \ {"read"}
         /\ UNCHANGED <<state, wired, output, promises, held, downs, fault>>
  BY DEF ReadEvent, ExceptionCaught, CloseInLoop
<1>4. AnswerType' /\ UserType' /\ SocketType'
  BY <1>1 DEF IInv, TypeOK, AnswerType, UserType, SocketType, answers, users
<1>5. LifeType'
  BY <1>3, HandleCloseType DEF IInv, TypeOK, LifeType, life
<1>6. TypeOK'
  BY <1>4, <1>5 DEF TypeOK, LifeType, AnswerType, UserType, SocketType
<1>7. StatesAgree'
  <2>1. CASE HandleClose
    BY <1>1, <1>2, <2>1, HandleCloseAgrees DEF users
  <2>2. CASE UNCHANGED <<state, wired, held, downs, fault>>
    BY <1>1, <1>2, <2>2 DEF users, IInv, LifeInv, StatesAgree
  <2> QED BY <1>3, <2>1, <2>2 DEF life
<1>8. WriteOffMeansBroken' /\ HealthyNeverHalfClosed'
  BY <1>1, <1>3, HandleCloseSocket
     DEF life, IInv, LifeInv, WriteOffMeansBroken, HealthyNeverHalfClosed
<1>9. FaultCause'
  BY <1>1, <1>3, HandleCloseFault DEF users, life, Running, FaultCause
<1>10. QueueOK'
  BY <1>1, QueueStays DEF users
<1> QED BY <1>6, <1>7, <1>8, <1>9, <1>10 DEF IInv, LifeInv

(* What goes out of the output, and what stays, are writes.                *)
LEMMA SplitOutput ==
  ASSUME TypeOK, NEW k \in 1..Len(output)
  PROVE  /\ SubSeq(output, 1, k) \in Seq(Write)
         /\ SubSeq(output, k + 1, Len(output)) \in Seq(Write)
         /\ wire \o SubSeq(output, 1, k) \in Seq(Write)
<1>1. output \in Seq(Write) /\ wire \in Seq(Write)
  BY DEF TypeOK
<1>2. SubSeq(output, 1, k) \in Seq(Write)
  BY <1>1, SubSeqProperties
<1>3. SubSeq(output, k + 1, Len(output)) \in Seq(Write)
  BY <1>1, SubSeqProperties
<1>4. wire \o SubSeq(output, 1, k) \in Seq(Write)
  BY <1>1, <1>2, ConcatProperties
<1> QED BY <1>2, <1>3, <1>4

LEMMA WritePromiseType ==
  ASSUME IInv, WritePromise, UNCHANGED no
  PROVE  LifeType' /\ AnswerType' /\ issued' \in [Threads -> 0..MaxCalls]
<1>1. yes' \subseteq Write /\ no' \subseteq Write
  BY DEF WritePromise, IInv, TypeOK
<1>2. CASE /\ output' = <<>> /\ promises' = {}
           /\ UNCHANGED <<state, wired, enabled, held, downs, fault, swallowed, issued>>
  <2>1. output' \in Seq(Write)
    BY <1>2, EmptyOutput
  <2> QED BY <1>1, <1>2, <2>1 DEF IInv, TypeOK, LifeType, AnswerType
<1>3. ASSUME issued[Loop] < MaxCalls,
             issued' = [issued EXCEPT ![Loop] = @ + 1],
             promises' = {},
             NEW kind \in Kinds,
             output' = IF HasBytes(NextWrite(Loop, kind)) THEN <<NextWrite(Loop, kind)>> ELSE <<>>,
             swallowed' = IF Promised(NextWrite(Loop, kind))
                          THEN swallowed \cup {NextWrite(Loop, kind)} ELSE swallowed,
             UNCHANGED <<state, wired, enabled, held, downs, fault>>
      PROVE  LifeType' /\ AnswerType' /\ issued' \in [Threads -> 0..MaxCalls]
  <2>1. NextWrite(Loop, kind) \in Write
    BY <1>3, NextWriteType, LoopIsThread DEF IInv
  <2>2. <<NextWrite(Loop, kind)>> \in Seq(Write)
    BY <2>1
  <2>3. output' \in Seq(Write)
    BY <1>3, <2>2, EmptyOutput
  <2>4. swallowed' \subseteq Write
    BY <1>3, <2>1 DEF IInv, TypeOK
  <2>5. issued' \in [Threads -> 0..MaxCalls]
    BY <1>3, IssueType, LoopIsThread DEF IInv
  <2> QED BY <1>1, <1>3, <2>3, <2>4, <2>5 DEF IInv, TypeOK, LifeType, AnswerType
<1>4. CASE /\ issued[Loop] < MaxCalls /\ issued' = [issued EXCEPT ![Loop] = @ + 1]
           /\ HandleClose /\ UNCHANGED swallowed
  <2>1. issued' \in [Threads -> 0..MaxCalls]
    BY <1>4, IssueType, LoopIsThread DEF IInv
  <2> QED BY <1>1, <1>4, <2>1, HandleCloseType DEF IInv, TypeOK, AnswerType
<1> QED BY <1>2, <1>3, <1>4 DEF WritePromise

LEMMA WriteEventInv == IInv /\ WriteEvent => IInv'
<1> SUFFICES ASSUME IInv, WriteEvent PROVE IInv'
  OBVIOUS
<1>1. /\ Running /\ wired /\ "write" \in enabled /\ output # <<>>
      /\ UNCHANGED <<tasks, call, refs, delayed, bootstrap, late, careless, ups, fin, conn>>
  BY DEF WriteEvent
<1>2. ups = 1
  BY <1>1 DEF IInv, TypeOK, LifeInv, StatesAgree, Fresh
<1>3. \/ HandleClose
      \/ UNCHANGED <<state, wired, enabled, held, downs, fault>>
      \/ conn = "error" /\ UNCHANGED <<state, wired, held, downs, fault>>
  BY DEF WriteEvent, WritePromise, ExceptionCaught, CloseInLoop, life
<1>4. LifeType' /\ AnswerType' /\ issued' \in [Threads -> 0..MaxCalls] /\ wire' \in Seq(Write)
  <2>1. ASSUME NEW k \in 1..Len(output), wire' = wire \o SubSeq(output, 1, k), UNCHANGED no,
               \/ /\ output' = SubSeq(output, k + 1, Len(output))
                  /\ UNCHANGED <<state, wired, enabled, promises, held, downs,
                                 fault, yes, swallowed, issued>>
               \/ WritePromise
        PROVE  LifeType' /\ AnswerType' /\ issued' \in [Threads -> 0..MaxCalls]
                /\ wire' \in Seq(Write)
    <3>1. wire' \in Seq(Write)
      BY <2>1, SplitOutput DEF IInv
    <3>2. CASE WritePromise
      BY <2>1, <3>1, <3>2, WritePromiseType
    <3>3. CASE /\ output' = SubSeq(output, k + 1, Len(output))
               /\ UNCHANGED <<state, wired, enabled, promises, held, downs,
                              fault, yes, swallowed, issued>>
      <4>1. output' \in Seq(Write)
        BY <3>3, SplitOutput DEF IInv
      <4> QED BY <2>1, <3>1, <3>3, <4>1 DEF IInv, TypeOK, LifeType, AnswerType
    <3> QED BY <2>1, <3>2, <3>3
  <2>2. CASE ExceptionCaught /\ UNCHANGED <<wire, answers, issued>>
    BY <2>2, CloseInLoopType DEF ExceptionCaught, answers, IInv, TypeOK, AnswerType
  <2>3. CASE /\ enabled' = enabled \ {"write"}
             /\ UNCHANGED <<state, wired, output, promises, held, downs, fault,
                            wire, answers, issued>>
    BY <2>3 DEF answers, IInv, TypeOK, LifeType, AnswerType
  <2> QED BY <2>1, <2>2, <2>3 DEF WriteEvent
<1>5. TypeOK'
  <2>1. UserType' /\ SocketType'
    BY <1>1, <1>4 DEF IInv, TypeOK, UserType, SocketType
  <2> QED BY <1>4, <2>1 DEF TypeOK, LifeType, AnswerType, UserType, SocketType
<1>6. StatesAgree'
  <2>1. CASE HandleClose
    BY <1>1, <1>2, <2>1, HandleCloseAgrees
  <2>2. CASE UNCHANGED <<state, wired, held, downs, fault>>
    BY <1>1, <1>2, <2>2 DEF IInv, LifeInv, StatesAgree
  <2> QED BY <1>3, <2>1, <2>2
<1>7. WriteOffMeansBroken' /\ HealthyNeverHalfClosed'
  BY <1>1, <1>3, HandleCloseSocket
     DEF IInv, LifeInv, WriteOffMeansBroken, HealthyNeverHalfClosed
<1>8. FaultCause'
  BY <1>1, <1>3, HandleCloseFault DEF Running, FaultCause
<1>9. QueueOK'
  <2>1. WritePromise \/ UNCHANGED issued
    BY DEF WriteEvent
  <2>2. \/ UNCHANGED issued
        \/ issued[Loop] < MaxCalls /\ issued' = [issued EXCEPT ![Loop] = @ + 1]
    BY <2>1 DEF WritePromise
  <2> QED BY <1>1, <2>2, QueueStays
<1> QED BY <1>5, <1>6, <1>7, <1>8, <1>9 DEF IInv, LifeInv

LEMMA CleanupBreaksInv == IInv /\ CleanupBreaks => IInv'
<1> SUFFICES ASSUME IInv, CleanupBreaks PROVE IInv'
  OBVIOUS
<1>1. /\ Running /\ fault' = "cleanup"
      /\ UNCHANGED <<state, wired, enabled, output, promises, held, downs, answers, users,
                     ups, fin, conn, wire>>
  BY DEF CleanupBreaks
<1> USE DEF answers, users
<1>2. TypeOK'
  <2>1. LifeType'
    BY <1>1 DEF IInv, TypeOK, LifeType, Faults
  <2>2. AnswerType' /\ UserType' /\ SocketType'
    BY <1>1 DEF IInv, TypeOK, AnswerType, UserType, SocketType
  <2> QED BY <2>1, <2>2 DEF TypeOK, LifeType, AnswerType, UserType, SocketType
<1>3. StatesAgree'
  BY <1>1 DEF IInv, LifeInv, StatesAgree, Fresh
<1>4. WriteOffMeansBroken' /\ HealthyNeverHalfClosed'
  BY <1>1 DEF IInv, LifeInv, WriteOffMeansBroken, HealthyNeverHalfClosed
<1>5. FaultCause'
  BY <1>1 DEF CleanupBreaks, FaultCause
<1>6. QueueOK'
  BY <1>1, QueueStays
<1> QED BY <1>2, <1>3, <1>4, <1>5, <1>6 DEF IInv, LifeInv

LEMMA ConnFailsInv == IInv /\ ConnFails => IInv'
<1> SUFFICES ASSUME IInv, ConnFails PROVE IInv'
  OBVIOUS
<1> USE DEF ConnFails, life, answers, users, Running
<1>1. TypeOK'
  BY DEF IInv, TypeOK
<1>2. StatesAgree'
  BY DEF IInv, LifeInv, StatesAgree, Fresh
<1>3. WriteOffMeansBroken' /\ HealthyNeverHalfClosed' /\ FaultCause'
  BY DEF IInv, LifeInv, WriteOffMeansBroken, HealthyNeverHalfClosed, FaultCause
<1>4. QueueOK'
  BY QueueStays
<1> QED BY <1>1, <1>2, <1>3, <1>4 DEF IInv, LifeInv

LEMMA BootstrapDestroyedInv == IInv /\ BootstrapDestroyed => IInv'
<1> SUFFICES ASSUME IInv, BootstrapDestroyed PROVE IInv'
  OBVIOUS
<1>1. /\ Running /\ bootstrap = "alive" /\ bootstrap' = "dead" /\ held' = FALSE
      /\ UNCHANGED <<answers, call, issued, refs, delayed, late, careless, ups, fin, conn, wire>>
  BY DEF BootstrapDestroyed
<1>2. Job("destroyed", NoWrite) \in Task
  BY DEF Job, Task
<1>3. \/ held /\ Destroyed /\ UNCHANGED tasks
      \/ /\ tasks' = IF held THEN Append(tasks, Job("destroyed", NoWrite)) ELSE tasks
         /\ UNCHANGED <<state, wired, enabled, output, promises, downs, fault>>
  BY DEF BootstrapDestroyed
<1>4. TypeOK'
  <2>1. LifeType'
    BY <1>1, <1>3, DestroyedType DEF IInv, TypeOK, LifeType
  <2>2. tasks' \in Seq(Task)
    BY <1>2, <1>3, AppendToTasks DEF IInv, TypeOK
  <2>3. AnswerType' /\ UserType' /\ SocketType'
    BY <1>1, <2>2 DEF IInv, TypeOK, AnswerType, UserType, SocketType, answers
  <2> QED BY <2>1, <2>3 DEF TypeOK, LifeType, AnswerType, UserType, SocketType
<1>5. StatesAgree'
  <2>1. CASE held /\ Destroyed
    <3>1. ups = 1
      BY <2>1 DEF IInv, TypeOK, LifeInv, StatesAgree, Fresh
    <3> QED BY <1>1, <2>1, <3>1
            DEF Destroyed, ResetPipeline, IInv, TypeOK, States, LifeInv, StatesAgree
  <2>2. CASE /\ tasks' = IF held THEN Append(tasks, Job("destroyed", NoWrite)) ELSE tasks
             /\ UNCHANGED <<state, wired, enabled, output, promises, downs, fault>>
    BY <1>1, <2>2 DEF IInv, LifeInv, StatesAgree, Fresh
  <2> QED BY <1>3, <2>1, <2>2
<1>6. WriteOffMeansBroken' /\ HealthyNeverHalfClosed'
  BY <1>1, <1>3 DEF Destroyed, ResetPipeline, IInv, LifeInv, WriteOffMeansBroken,
     HealthyNeverHalfClosed
<1>7. FaultCause'
  BY <1>1, <1>3 DEF Destroyed, Running, FaultCause
<1>8. QueueOK'
  <2>1. \A i \in DOMAIN tasks' : \/ tasks'[i] = Job("destroyed", NoWrite)
                                 \/ \E j \in DOMAIN tasks : tasks'[i] = tasks[j]
    BY <1>2, <1>3, AppendToTasks DEF IInv
  <2>2. (\A i \in DOMAIN tasks : TaskOK(tasks[i]))'
    BY <1>1, <2>1 DEF IInv, LifeInv, QueueOK, TaskOK, CallerActed, Job
  <2>3. (\A t \in Threads : CallOK(t))'
    BY <1>1 DEF IInv, LifeInv, QueueOK, CallOK
  <2>4. (refs = {} /\ RawQueued => careless)'
    BY <1>1, <2>1 DEF IInv, LifeInv, QueueOK, RawQueued, RawTask, Job
  <2> QED BY <2>2, <2>3, <2>4 DEF QueueOK
<1> QED BY <1>4, <1>5, <1>6, <1>7, <1>8 DEF IInv, LifeInv

LEMMA StutterInv == IInv /\ UNCHANGED vars => IInv'
<1> SUFFICES ASSUME IInv, UNCHANGED vars PROVE IInv'
  OBVIOUS
<1> USE DEF vars, life, answers, users
<1>1. TypeOK'
  BY DEF IInv, TypeOK
<1>2. StatesAgree'
  BY DEF IInv, LifeInv, StatesAgree, Fresh
<1>3. WriteOffMeansBroken' /\ HealthyNeverHalfClosed' /\ FaultCause'
  BY DEF IInv, LifeInv, WriteOffMeansBroken, HealthyNeverHalfClosed, FaultCause, CallerActed
<1>4. QueueOK'
  BY QueueStays
<1> QED BY <1>1, <1>2, <1>3, <1>4 DEF IInv, LifeInv

LEMMA NextInv == IInv /\ [Next]_vars => IInv'
BY NewChannelLoopInv, CheckInv, ActInv, ReleaseInv, LoopWriteInv, LoopCloseInv, LoopShutdownInv,
   LoopCloseWithDelayInv, RunTaskInv, DelayedCloseInv, ReadEventInv, WriteEventInv,
   CleanupBreaksInv, ConnFailsInv, BootstrapDestroyedInv, StutterInv DEF Next
-----------------------------------------------------------------------------
(* Theorems.                                                               *)

LEMMA SpecInv == Spec => []IInv
BY InitInv, NextInv, PTL DEF Spec

(* Every variable keeps its type; in particular user code is told          *)
(* channelActive and channelInActive at most once each.                    *)
THEOREM TypeCorrect == Spec => []TypeOK
<1>1. IInv => TypeOK
  BY DEF IInv
<1> QED BY SpecInv, <1>1, PTL

(* The states of the channel, its pipeline and the map agree, and every    *)
(* queued task was put there by a caller entitled to it.                   *)
THEOREM LifecycleInvariant == Spec => []LifeInv
<1>1. IInv => LifeInv
  BY DEF IInv
<1> QED BY SpecInv, <1>1, PTL

(* Every way the program can break has the cause FaultCause names.         *)
THEOREM FaultsHaveCauses == Spec => []FaultCause
<1>1. IInv => FaultCause
  BY DEF IInv, LifeInv
<1> QED BY SpecInv, <1>1, PTL

(* The destructor finds kInactive, with channelInActive told once, unless  *)
(* a caller overwrote kInactive or the ServerBootstrap was destroyed.      *)
THEOREM DestructorFindsInactive == Spec => []CleanDeath
<1>1. IInv => CleanDeath
  BY DEF IInv, LifeInv, StatesAgree, CleanDeath, Gone, TypeOK
<1> QED BY SpecInv, <1>1, PTL

(* shutdown() never half-closes a sound connection.                        *)
THEOREM ShutdownSparesHealthy == Spec => []HealthyNeverHalfClosed
<1>1. IInv => HealthyNeverHalfClosed
  BY DEF IInv, LifeInv
<1> QED BY SpecInv, <1>1, PTL

(* Once kInactive, the channel stays so, but for a caller's late write.    *)
THEOREM InactiveStays == Spec => InactiveIsFinal
<1>1. IInv /\ [Next]_vars => [state = "kInactive" => state' = "kInactive" \/ late']_vars
  <2> SUFFICES ASSUME IInv, Next, state = "kInactive"
               PROVE  state' = "kInactive" \/ late'
    OBVIOUS
  <2>1. ~wired /\ ups = 1
    BY DEF IInv, TypeOK, LifeInv, StatesAgree, Fresh
  <2>2. ASSUME NEW t \in Callers, Check(t) \/ Act(t) PROVE state' = "kInactive" \/ late'
    <3>1. CASE Check(t)
      BY <3>1 DEF Check, life
    <3>2. CASE Act(t)
      <4>1. call[t].op = "write" \/ late'
        BY <3>2 DEF Act
      <4>2. call[t].op = "write" => UNCHANGED state
        BY <3>2 DEF Act
      <4> QED BY <4>1, <4>2
    <3> QED BY <2>2, <3>1, <3>2
  <2>3. ASSUME NEW t \in Threads, Release(t) PROVE state' = "kInactive"
    BY <2>3 DEF Release, life
  <2>4. CASE LoopWrite \/ LoopClose \/ LoopShutdown \/ LoopCloseWithDelay
    BY <2>4 DEF LoopWrite, LoopClose, LoopShutdown, LoopCloseWithDelay, Closable, life
  <2>5. CASE RunTask \/ DelayedClose
    BY <2>5 DEF RunTask, DelayedClose, WriteInLoop, CloseInLoop, HandleClose, Destroyed, life
  <2>6. CASE NewChannelLoop \/ ReadEvent \/ WriteEvent
    BY <2>1, <2>6 DEF NewChannelLoop, ReadEvent, WriteEvent
  <2>7. CASE CleanupBreaks \/ ConnFails \/ BootstrapDestroyed
    BY <2>7 DEF CleanupBreaks, ConnFails, BootstrapDestroyed, Destroyed, life
  <2> QED BY <2>2, <2>3, <2>4, <2>5, <2>6, <2>7 DEF Next
<1> QED BY SpecInv, <1>1, PTL DEF Spec, InactiveIsFinal
-----------------------------------------------------------------------------
(* Disciplined use.                                                        *)

(* Writes have a callback and never a shared buffer, callers never close,  *)
(* no user lets go of its shared_ptr while a raw task is queued, and the   *)
(* ServerBootstrap outlives the loop.                                      *)
Disciplined ==
    /\ Kinds \cap {"plain", "rawcb", "shared", "sharedcb"} = {}
    /\ Calls = {}
    /\ ~careless
    /\ ~BootstrapDies

(* Then nothing breaks the program, except WeakCallback, which copies its  *)
(* own uninitialised member.                                               *)
SafeUse == Disciplined => fault \in {"none", "weakCallback"}

(* kInactive is overwritten only by callers that close, and the            *)
(* ServerBootstrap dies only where it may.                                 *)
NoSurprise ==
    /\ late => Calls # {}
    /\ bootstrap = "dead" => BootstrapDies

LEMMA NoSurpriseInv == IInv /\ NoSurprise /\ [Next]_vars => NoSurprise'
<1> SUFFICES ASSUME IInv, NoSurprise, [Next]_vars PROVE NoSurprise'
  OBVIOUS
<1> USE DEF NoSurprise
<1>1. ASSUME NEW t \in Callers, Act(t) PROVE NoSurprise'
  <2>1. t \in Threads
    BY DEF Threads
  <2>2. call[t].op \in {"idle", "write"} \/ call[t].op \in Calls
    BY <2>1 DEF IInv, LifeInv, QueueOK, CallOK, Idle
  <2>3. late' => late \/ Calls # {}
    BY <1>1, <2>2 DEF Act
  <2> QED BY <1>1, <2>3 DEF Act
<1>2. ASSUME NEW t \in Threads, Release(t) PROVE NoSurprise'
  BY <1>2 DEF Release
<1>3. ASSUME NEW t \in Callers, Check(t) PROVE NoSurprise'
  BY <1>3 DEF Check
<1>4. CASE BootstrapDestroyed
  BY <1>4 DEF BootstrapDestroyed
<1>5. CASE NewChannelLoop \/ LoopWrite \/ LoopClose \/ LoopShutdown \/ LoopCloseWithDelay
  BY <1>5 DEF NewChannelLoop, LoopWrite, LoopClose, LoopShutdown, LoopCloseWithDelay, LoopCalls
<1>6. CASE RunTask \/ DelayedClose \/ WriteEvent
  BY <1>6 DEF RunTask, DelayedClose, WriteEvent
<1>7. CASE ReadEvent \/ CleanupBreaks \/ ConnFails
  BY <1>7 DEF ReadEvent, CleanupBreaks, ConnFails, users
<1>8. CASE UNCHANGED vars
  BY <1>8 DEF vars, users
<1> QED BY <1>1, <1>2, <1>3, <1>4, <1>5, <1>6, <1>7, <1>8 DEF Next

(* Disciplined users never break the program through a raw pointer, a      *)
(* null pipeline_ or an empty promise.                                     *)
THEOREM DisciplinedUseIsSafe == Spec => []SafeUse
<1>1. Init => NoSurprise
  BY DEF Init, NoSurprise
<1>2. IInv /\ NoSurprise => SafeUse
  <2> SUFFICES ASSUME IInv, NoSurprise, Disciplined PROVE fault \in {"none", "weakCallback"}
    BY DEF SafeUse
  <2>1. fault \in Faults /\ FaultCause
    BY DEF IInv, TypeOK, LifeInv
  <2>2. ~late /\ bootstrap # "dead"
    BY DEF NoSurprise, Disciplined
  <2>3. \A i \in DOMAIN output : ~Shared(output[i])
    <3>1. \A i \in DOMAIN output : output[i] \in Write
      BY DEF IInv, TypeOK
    <3> QED BY <3>1 DEF Write, Shared, Disciplined
  <2> QED BY <2>1, <2>2, <2>3 DEF Faults, FaultCause, Disciplined
<1> QED BY SpecInv, <1>1, <1>2, NoSurpriseInv, PTL DEF Spec
-----------------------------------------------------------------------------
(* The writes: their order on the wire, their promises, and the contract   *)
(* of the channel.                                                         *)
(*                                                                         *)
(* The invariant follows a write on its way: the calls, then the queue,    *)
(* then what the loop has handled.  Of the writes of one thread, those     *)
(* further on the way were made earlier.  That is why a write can be in    *)
(* one place only, and why a queue served first come first served is       *)
(* enough to keep the writes of a thread in order.                         *)

(* What was given to the socket or waits for it.                           *)
Bytes == wire \o output

BytesSet == {Bytes[i] : i \in DOMAIN Bytes}

(* The writes that the loop has dealt with.                                *)
Handled == BytesSet \cup promises \cup yes \cup no \cup swallowed

Carries(task) == task.op \in {"write", "refuse"}

Before(a, b) == a.by = b.by => a.n < b.n

Issued(w) == w.n <= issued[w.by]

(* Write a was made before those of its thread that are still under way.   *)
Past(a) ==
    /\ Issued(a)
    /\ \A i \in DOMAIN tasks : Carries(tasks[i]) => Before(a, tasks[i].w)
    /\ \A t \in Threads : call[t].op = "write" => Before(a, call[t].w)

HandledInv == \A a \in Handled : Past(a)

QueuedInv ==
    \A j \in DOMAIN tasks : Carries(tasks[j]) =>
        /\ Issued(tasks[j].w)
        /\ \A i \in DOMAIN tasks : i < j /\ Carries(tasks[i]) => Before(tasks[i].w, tasks[j].w)
        /\ \A t \in Threads : call[t].op = "write" => Before(tasks[j].w, call[t].w)

CalledInv == \A t \in Threads : call[t].op = "write" => Issued(call[t].w)

BytesInOrder == \A i, j \in DOMAIN Bytes : i < j => Before(Bytes[i], Bytes[j])

AnswersInv ==
    /\ yes \cap no = {}
    /\ swallowed \cap (yes \cup no) = {}
    /\ promises \cap (yes \cup no \cup swallowed) = {}
    /\ \A p \in promises : HasBytes(p) => p \in BytesSet
    /\ wired => \A w \in BytesSet : Promised(w) => w \in promises \cup yes \cup swallowed
    /\ wired /\ output = <<>> => \A w \in promises : ~HasBytes(w)

WInv ==
    /\ HandledInv
    /\ QueuedInv
    /\ CalledInv
    /\ BytesInOrder
    /\ AnswersInv
    /\ TrueMeansFlushed
-----------------------------------------------------------------------------
(* Facts about the bytes.                                                  *)

LEMMA BytesType ==
  ASSUME TypeOK
  PROVE  /\ wire \in Seq(Write) /\ output \in Seq(Write) /\ Bytes \in Seq(Write)
         /\ Len(Bytes) = Len(wire) + Len(output)
         /\ DOMAIN Bytes = 1..Len(Bytes)
         /\ \A i \in 1..Len(wire) : Bytes[i] = wire[i]
         /\ \A i \in 1..Len(output) : Bytes[Len(wire) + i] = output[i]
<1>1. wire \in Seq(Write) /\ output \in Seq(Write)
  BY DEF TypeOK
<1>2. Bytes \in Seq(Write) /\ Len(Bytes) = Len(wire) + Len(output)
  BY <1>1, ConcatProperties DEF Bytes
<1> QED BY <1>1, <1>2, ConcatProperties, LenProperties DEF Bytes

LEMMA HandledType ==
  ASSUME TypeOK
  PROVE  Handled \subseteq Write
BY BytesType DEF Handled, BytesSet, TypeOK

LEMMA OutputInBytes ==
  ASSUME TypeOK, NEW i \in DOMAIN output
  PROVE  output[i] \in BytesSet
<1>1. i \in 1..Len(output) /\ Len(output) \in Nat /\ Len(wire) \in Nat
  BY BytesType, LenProperties
<1>2. Len(wire) + i \in DOMAIN Bytes /\ Bytes[Len(wire) + i] = output[i]
  BY <1>1, BytesType
<1> QED BY <1>2 DEF BytesSet

(* The output is thrown away.                                              *)
LEMMA BytesReset ==
  ASSUME TypeOK, UNCHANGED wire, output' = <<>>
  PROVE  /\ \A i \in DOMAIN Bytes' : i \in DOMAIN Bytes /\ Bytes'[i] = Bytes[i]
         /\ BytesSet' \subseteq BytesSet
<1>1. Bytes' = wire
  BY BytesType, ConcatEmptySeq DEF Bytes
<1>2. ASSUME NEW i \in DOMAIN Bytes' PROVE i \in DOMAIN Bytes /\ Bytes'[i] = Bytes[i]
  <2>1. i \in 1..Len(wire) /\ Len(wire) \in Nat /\ Len(output) \in Nat
    BY <1>1, <1>2, BytesType, LenProperties
  <2> QED BY <1>1, <2>1, BytesType
<1> QED BY <1>2 DEF BytesSet

(* A write joins the output.                                               *)
LEMMA BytesAppend ==
  ASSUME TypeOK, UNCHANGED wire, NEW w \in Write, output' = Append(output, w)
  PROVE  /\ Bytes' = Append(Bytes, w)
         /\ BytesSet' = BytesSet \cup {w}
<1>1. Append(output, w) \in Seq(Write) /\ Len(Append(output, w)) = Len(output) + 1
  BY BytesType, AppendProperties
<1>2. Bytes' = wire \o Append(output, w)
  BY DEF Bytes
<1>3. Append(output, w) = output \o <<w>> /\ <<w>> \in Seq(Write)
  BY BytesType, AppendIsConcat
<1>4. Bytes' = Bytes \o <<w>>
  BY <1>2, <1>3, BytesType, ConcatAssociative DEF Bytes
<1>5. Bytes' = Append(Bytes, w)
  BY <1>4, BytesType, AppendIsConcat
<1>6. /\ DOMAIN Append(Bytes, w) = 1..(Len(Bytes) + 1)
      /\ \A i \in 1..Len(Bytes) : Append(Bytes, w)[i] = Bytes[i]
      /\ Append(Bytes, w)[Len(Bytes) + 1] = w
  BY BytesType, AppendProperties
<1>7. Len(Bytes) \in Nat /\ DOMAIN Bytes = 1..Len(Bytes)
  BY BytesType, LenProperties
<1>8. BytesSet' = BytesSet \cup {w}
  <2>1. ASSUME NEW x \in BytesSet' PROVE x \in BytesSet \cup {w}
    <3>1. PICK i \in 1..(Len(Bytes) + 1) : x = Append(Bytes, w)[i]
      BY <1>5, <1>6, <2>1 DEF BytesSet
    <3> QED BY <1>6, <1>7, <3>1 DEF BytesSet
  <2>2. ASSUME NEW x \in BytesSet PROVE x \in BytesSet'
    BY <1>5, <1>6, <1>7, <2>2 DEF BytesSet
  <2>3. w \in BytesSet'
    <3>1. Len(Bytes) + 1 \in DOMAIN Bytes'
      BY <1>5, <1>6, <1>7
    <3> QED BY <1>5, <1>6, <3>1 DEF BytesSet
  <2> QED BY <2>1, <2>2, <2>3
<1> QED BY <1>5, <1>8

(* A part of the output goes to the socket: the bytes are the same.        *)
LEMMA SplitConcat ==
  ASSUME NEW S, NEW s \in Seq(S), NEW u \in Seq(S), NEW k \in 1..Len(u)
  PROVE  (s \o SubSeq(u, 1, k)) \o SubSeq(u, k + 1, Len(u)) = s \o u
<1>1. SubSeq(u, 1, k) \in Seq(S) /\ SubSeq(u, k + 1, Len(u)) \in Seq(S) /\ Len(u) \in Nat
  OBVIOUS
<1>2. SubSeq(u, 1, k) \o SubSeq(u, k + 1, Len(u)) = u
  <2>1. SubSeq(u, 1, k) \o SubSeq(u, k + 1, Len(u)) = SubSeq(u, 1, Len(u))
    BY <1>1, ConcatAdjacentSubSeq
  <2> QED BY <1>1, <2>1, SubSeqFull
<1>3. ASSUME NEW x \in Seq(S), NEW y \in Seq(S) PROVE (s \o x) \o y = s \o (x \o y)
  BY ConcatAssociative
<1>4. (s \o SubSeq(u, 1, k)) \o SubSeq(u, k + 1, Len(u))
        = s \o (SubSeq(u, 1, k) \o SubSeq(u, k + 1, Len(u)))
  BY ONLY <1>1, <1>3
<1> QED BY <1>2, <1>4

LEMMA BytesFlushed ==
  ASSUME TypeOK, NEW k \in 1..Len(output)
  PROVE  /\ (wire \o SubSeq(output, 1, k)) \o SubSeq(output, k + 1, Len(output)) = Bytes
         /\ k = Len(output) => wire \o SubSeq(output, 1, k) = Bytes
<1>1. output \in Seq(Write) /\ wire \in Seq(Write)
  BY DEF TypeOK
<1> QED BY <1>1, SplitConcat, SubSeqFull DEF Bytes
-----------------------------------------------------------------------------
(* Facts about the queue.                                                  *)

(* What a step of the loop thread does to the writes under way: it takes   *)
(* the first task, or adds one that carries no write, and may make a call. *)
Calm ==
    /\ UNCHANGED call
    /\ \/ tasks' = tasks
       \/ tasks # <<>> /\ tasks' = Tail(tasks)
       \/ tasks' = Append(tasks, Job("destroyed", NoWrite))
    /\ \/ issued' = issued
       \/ issued[Loop] < MaxCalls /\ issued' = [issued EXCEPT ![Loop] = @ + 1]

(* The writes that stay in the queue stay in their order.                  *)
LEMMA CalmTasks ==
  ASSUME TypeOK, Calm
  PROVE  \/ \A i \in DOMAIN tasks' : Carries(tasks'[i]) => i \in DOMAIN tasks /\ tasks'[i] = tasks[i]
         \/ \A i \in DOMAIN tasks' : i \in Nat /\ i + 1 \in DOMAIN tasks /\ tasks'[i] = tasks[i + 1]
<1>1. CASE tasks' = tasks
  BY <1>1
<1>2. CASE tasks # <<>> /\ tasks' = Tail(tasks)
  <2>1. \A i \in DOMAIN tasks' : i \in Nat
    BY <1>2, HeadOfTasks DEF TypeOK
  <2> QED BY <1>2, <2>1, HeadOfTasks
<1>3. CASE tasks' = Append(tasks, Job("destroyed", NoWrite))
  <2>1. Job("destroyed", NoWrite) \in Task /\ ~Carries(Job("destroyed", NoWrite))
    BY DEF Job, Task, Carries
  <2>2. tasks \in Seq(Task)
    BY DEF TypeOK
  <2>3. Len(tasks) \in Nat /\ DOMAIN tasks = 1..Len(tasks)
    BY <2>2, LenProperties
  <2>4. /\ DOMAIN tasks' = 1..(Len(tasks) + 1)
        /\ \A i \in 1..Len(tasks) : tasks'[i] = tasks[i]
        /\ tasks'[Len(tasks) + 1] = Job("destroyed", NoWrite)
    BY <1>3, <2>1, <2>2, <2>3, AppendProperties
  <2>5. ASSUME NEW i \in DOMAIN tasks', Carries(tasks'[i])
        PROVE  i \in DOMAIN tasks /\ tasks'[i] = tasks[i]
    <3>1. i # Len(tasks) + 1
      BY <2>1, <2>4, <2>5
    <3> QED BY <2>3, <2>4, <3>1
  <2> QED BY <2>5
<1> QED BY <1>1, <1>2, <1>3 DEF Calm

LEMMA CalmIssued ==
  ASSUME TypeOK, Calm, NEW w, w.by \in Threads, w.n \in Nat, Issued(w)
  PROVE  Issued(w)'
<1>1. issued[w.by] \in Nat /\ issued'[w.by] \in Nat /\ issued[w.by] <= issued'[w.by]
  <2>1. issued[w.by] \in Nat
    BY BoundAssumption DEF TypeOK
  <2>2. CASE issued' = [issued EXCEPT ![Loop] = @ + 1]
    <3>1. issued' = [t \in Threads |-> IF t = Loop THEN issued[t] + 1 ELSE issued[t]]
      BY <2>2 DEF TypeOK
    <3> QED BY <2>1, <3>1
  <2> QED BY <2>1, <2>2 DEF Calm
<1> QED BY <1>1 DEF Issued

LEMMA WriteFields ==
  ASSUME NEW w \in Write
  PROVE  w.by \in Threads /\ w.n \in Nat /\ w.n > 0
BY BoundAssumption DEF Write

(* A carried write and a called write are writes, by the caller.           *)
LEMMA CarriedType ==
  ASSUME IInv, NEW i \in DOMAIN tasks, Carries(tasks[i])
  PROVE  tasks[i].w \in Write /\ tasks[i].w.by \in Callers
BY DEF IInv, LifeInv, QueueOK, TaskOK, Carries

LEMMA CalledType ==
  ASSUME IInv, NEW t \in Threads, call[t].op = "write"
  PROVE  call[t].w \in Write /\ call[t].w.by = t /\ t \in Callers
BY CallsAssumption DEF IInv, LifeInv, QueueOK, CallOK, Idle

LEMMA CalmPast ==
  ASSUME IInv, Calm, NEW a \in Write, Past(a)
  PROVE  Past(a)'
<1>1. Issued(a)'
  BY CalmIssued, WriteFields DEF IInv, Past
<1>2. ASSUME NEW i \in DOMAIN tasks', Carries(tasks'[i]) PROVE Before(a, tasks'[i].w)
  <2>1. \E j \in DOMAIN tasks : tasks'[i] = tasks[j]
    BY <1>2, CalmTasks DEF IInv
  <2> QED BY <1>2, <2>1 DEF Past
<1>3. \A t \in Threads : call'[t].op = "write" => Before(a, call'[t].w)
  BY DEF Past, Calm
<1> QED BY <1>1, <1>2, <1>3 DEF Past, Before

LEMMA CalmQueue ==
  ASSUME IInv, QueuedInv, CalledInv, Calm
  PROVE  QueuedInv' /\ CalledInv'
<1>1. CalledInv'
  <2> SUFFICES ASSUME NEW t \in Threads, call'[t].op = "write" PROVE Issued(call[t].w)'
    BY DEF CalledInv
  <2>1. call'[t] = call[t] /\ Issued(call[t].w)
    BY DEF Calm, CalledInv
  <2>2. call[t].w \in Write
    BY <2>1, CalledType
  <2>3. PICK w : w = call[t].w
    OBVIOUS
  <2>4. Issued(w)'
    BY <2>1, <2>2, <2>3, CalmIssued, WriteFields DEF IInv
  <2> QED BY <2>1, <2>3, <2>4 DEF Issued
<1>2. ASSUME NEW j \in DOMAIN tasks', Carries(tasks'[j])
      PROVE  /\ Issued(tasks[j].w)'
             /\ \A i \in DOMAIN tasks' : i < j /\ Carries(tasks'[i]) => Before(tasks'[i].w, tasks'[j].w)
             /\ \A t \in Threads : call'[t].op = "write" => Before(tasks'[j].w, call'[t].w)
  <2>1. ASSUME NEW k \in DOMAIN tasks, tasks'[j] = tasks[k]
        PROVE  /\ Issued(tasks[j].w)'
               /\ \A t \in Threads : call'[t].op = "write" => Before(tasks'[j].w, call'[t].w)
    <3>1. Issued(tasks[k].w) /\ tasks[k].w \in Write
      BY <1>2, <2>1, CarriedType DEF QueuedInv
    <3>2. PICK w : w = tasks[k].w
      OBVIOUS
    <3>3. Issued(w)'
      BY <3>1, <3>2, CalmIssued, WriteFields DEF IInv
    <3> QED BY <1>2, <2>1, <3>2, <3>3 DEF Issued, QueuedInv, Calm
  <2>2. CASE \A i \in DOMAIN tasks' : Carries(tasks'[i]) => i \in DOMAIN tasks /\ tasks'[i] = tasks[i]
    BY <1>2, <2>1, <2>2 DEF QueuedInv
  <2>3. CASE \A i \in DOMAIN tasks' : i \in Nat /\ i + 1 \in DOMAIN tasks /\ tasks'[i] = tasks[i + 1]
    <3>1. ASSUME NEW i \in DOMAIN tasks', i < j, Carries(tasks'[i])
          PROVE  Before(tasks'[i].w, tasks'[j].w)
      <4>1. i + 1 \in DOMAIN tasks /\ j + 1 \in DOMAIN tasks /\ i + 1 < j + 1
        BY <2>3, <3>1
      <4> QED BY <1>2, <2>3, <3>1, <4>1 DEF QueuedInv
    <3> QED BY <2>1, <2>3, <3>1
  <2> QED BY <2>2, <2>3, CalmTasks DEF IInv
<1> QED BY <1>1, <1>2 DEF QueuedInv, Before

(* The write that the loop takes from the queue is the next of its thread. *)
LEMMA HeadPast ==
  ASSUME IInv, WInv, tasks # <<>>, tasks' = Tail(tasks), UNCHANGED <<call, issued>>,
         NEW w, w = Head(tasks).w, Carries(Head(tasks))
  PROVE  w \in Write /\ Past(w)' /\ \A a \in Handled : Before(a, w)
<1>1. /\ 1 \in DOMAIN tasks /\ Head(tasks) = tasks[1]
      /\ \A i \in DOMAIN tasks' : i + 1 \in DOMAIN tasks /\ tasks'[i] = tasks[i + 1]
      /\ \A i \in DOMAIN tasks' : i \in Nat /\ i > 0
  BY HeadOfTasks DEF IInv, TypeOK
<1>2. w \in Write /\ Issued(w)
  BY <1>1, CarriedType DEF WInv, QueuedInv
<1>3. ASSUME NEW i \in DOMAIN tasks', Carries(tasks'[i]) PROVE Before(w, tasks'[i].w)
  <2>1. i + 1 \in DOMAIN tasks /\ 1 < i + 1 /\ tasks'[i] = tasks[i + 1]
    BY <1>1
  <2> QED BY <1>1, <1>3, <2>1 DEF WInv, QueuedInv
<1>4. \A t \in Threads : call'[t].op = "write" => Before(w, call'[t].w)
  BY <1>1 DEF WInv, QueuedInv
<1>5. Past(w)'
  BY <1>2, <1>3, <1>4 DEF Past, Issued, Before
<1>6. \A a \in Handled : Before(a, w)
  BY <1>1 DEF WInv, HandledInv, Past
<1> QED BY <1>2, <1>5, <1>6

(* A write that the loop thread makes itself comes after all of its others *)
(* and is handled at once.                                                 *)
LEMMA LoopPast ==
  ASSUME IInv, WInv, UNCHANGED <<tasks, call>>, issued[Loop] < MaxCalls,
         issued' = [issued EXCEPT ![Loop] = @ + 1],
         NEW kind \in Kinds, NEW w, w = NextWrite(Loop, kind)
  PROVE  w \in Write /\ Past(w)' /\ \A a \in Handled : Before(a, w)
<1>1. w \in Write /\ w.by = Loop /\ w.n = issued[Loop] + 1 /\ issued[Loop] \in Nat
  BY NextWriteType, LoopIsThread, BoundAssumption DEF IInv, TypeOK, NextWrite
<1>2. Issued(w)'
  BY <1>1, LoopIsThread DEF Issued, IInv, TypeOK
<1>3. \A i \in DOMAIN tasks : Carries(tasks[i]) => Before(w, tasks[i].w)
  BY <1>1, CarriedType, LoopAssumption DEF Before
<1>4. \A t \in Threads : call[t].op = "write" => Before(w, call[t].w)
  BY <1>1, CalledType, LoopAssumption DEF Before
<1>5. Past(w)'
  BY <1>2, <1>3, <1>4 DEF Past, Before
<1>6. ASSUME NEW a \in Handled PROVE Before(a, w)
  <2>1. Issued(a) /\ a \in Write
    BY HandledType DEF IInv, WInv, HandledInv, Past
  <2> QED BY <1>1, <2>1, WriteFields DEF Issued, Before
<1> QED BY <1>1, <1>5, <1>6
-----------------------------------------------------------------------------
(* What a step of the loop thread does to the writes it handles.           *)

(* Nothing.                                                                *)
LEMMA ContentsKept ==
  ASSUME IInv, WInv, Calm, UNCHANGED <<wire, output, promises, answers>>, wired' => wired
  PROVE  WInv'
<1>1. /\ Bytes' = Bytes /\ BytesSet' = BytesSet /\ Handled' = Handled
      /\ UNCHANGED <<wire, output, promises, yes, no, swallowed>>
  BY DEF Bytes, BytesSet, Handled, answers
<1>2. HandledInv'
  <2> SUFFICES ASSUME NEW a \in Handled PROVE Past(a)'
    BY <1>1 DEF HandledInv
  <2> QED BY CalmPast, HandledType DEF IInv, WInv, HandledInv
<1>3. QueuedInv' /\ CalledInv'
  BY CalmQueue DEF WInv
<1>4. BytesInOrder'
  BY <1>1 DEF WInv, BytesInOrder, Before
<1>5. AnswersInv'
  BY <1>1 DEF WInv, AnswersInv
<1>6. TrueMeansFlushed'
  BY <1>1 DEF WInv, TrueMeansFlushed
<1> QED BY <1>2, <1>3, <1>4, <1>5, <1>6 DEF WInv

(* The output and the promises go.                                         *)
LEMMA ContentsReset ==
  ASSUME IInv, WInv, Calm, output' = <<>>, promises' = {}, ~wired', UNCHANGED <<wire, answers>>
  PROVE  WInv'
<1>1. /\ \A i \in DOMAIN Bytes' : i \in DOMAIN Bytes /\ Bytes'[i] = Bytes[i]
      /\ Handled' \subseteq Handled
      /\ UNCHANGED <<yes, no, swallowed>>
  <2>1. \A i \in DOMAIN Bytes' : i \in DOMAIN Bytes /\ Bytes'[i] = Bytes[i]
    BY BytesReset DEF IInv
  <2>2. BytesSet' \subseteq BytesSet
    BY BytesReset DEF IInv
  <2> QED BY <2>1, <2>2 DEF Handled, answers
<1>2. HandledInv'
  <2> SUFFICES ASSUME NEW a \in Handled PROVE Past(a)'
    BY <1>1 DEF HandledInv
  <2> QED BY CalmPast, HandledType DEF IInv, WInv, HandledInv
<1>3. QueuedInv' /\ CalledInv'
  BY CalmQueue DEF WInv
<1>4. BytesInOrder'
  BY <1>1 DEF WInv, BytesInOrder, Before
<1>5. AnswersInv'
  BY <1>1 DEF WInv, AnswersInv
<1>6. TrueMeansFlushed'
  BY DEF TrueMeansFlushed
<1> QED BY <1>2, <1>3, <1>4, <1>5, <1>6 DEF WInv

(* The next write of a thread is added to what was handled.                *)
LEMMA HandledGrows ==
  ASSUME IInv, WInv, Calm, NEW w, Past(w)', Handled' \subseteq Handled \cup {w}
  PROVE  HandledInv' /\ QueuedInv' /\ CalledInv'
<1>1. \A a \in Handled : Past(a)'
  BY CalmPast, HandledType DEF IInv, WInv, HandledInv
<1> QED BY <1>1, CalmQueue DEF WInv, HandledInv

LEMMA BytesGrow ==
  ASSUME TypeOK, BytesInOrder, NEW w \in Write, \A a \in BytesSet : Before(a, w),
         Bytes' = Bytes \/ Bytes' = Append(Bytes, w)
  PROVE  BytesInOrder'
<1>1. CASE Bytes' = Bytes
  BY <1>1 DEF BytesInOrder, Before
<1>2. CASE Bytes' = Append(Bytes, w)
  <2>1. Len(Bytes) \in Nat /\ DOMAIN Bytes = 1..Len(Bytes) /\ Bytes \in Seq(Write)
    BY BytesType, LenProperties
  <2>2. /\ DOMAIN Bytes' = 1..(Len(Bytes) + 1)
        /\ \A i \in 1..Len(Bytes) : Bytes'[i] = Bytes[i]
        /\ Bytes'[Len(Bytes) + 1] = w
    BY <1>2, <2>1, AppendProperties, LenProperties
  <2>3. ASSUME NEW i \in DOMAIN Bytes', NEW j \in DOMAIN Bytes', i < j
        PROVE  Before(Bytes'[i], Bytes'[j])
    <3>1. i \in DOMAIN Bytes /\ Bytes'[i] = Bytes[i]
      BY <2>1, <2>2, <2>3
    <3>2. CASE j = Len(Bytes) + 1
      BY <2>2, <3>1, <3>2 DEF BytesSet
    <3>3. CASE j # Len(Bytes) + 1
      <4>1. j \in DOMAIN Bytes /\ Bytes'[j] = Bytes[j]
        BY <2>1, <2>2, <2>3, <3>3
      <4> QED BY <2>3, <3>1, <4>1 DEF BytesInOrder
    <3> QED BY <3>2, <3>3
  <2> QED BY <2>3 DEF BytesInOrder, Before
<1> QED BY <1>1, <1>2

(* A write that comes after what was handled was not handled.              *)
LEMMA NotHandled ==
  ASSUME IInv, NEW w \in Write, \A a \in Handled : Before(a, w)
  PROVE  w \notin Handled
<1>1. ~Before(w, w)
  BY WriteFields DEF Before
<1> QED BY <1>1

(* writeAndFlushInLoop() of an open channel.                               *)
LEMMA WriteAccepted ==
  ASSUME IInv, WInv, Calm,
         NEW w \in Write, Past(w)', \A a \in Handled : Before(a, w),
         promises' = IF Promised(w) THEN promises \cup {w} ELSE promises,
         output' = IF HasBytes(w) THEN Append(output, w) ELSE output,
         UNCHANGED <<wire, wired, answers>>
  PROVE  WInv'
<1>0. UNCHANGED <<yes, no, swallowed>> /\ w \notin Handled
  BY NotHandled DEF answers
<1>1. /\ HasBytes(w) => Bytes' = Append(Bytes, w) /\ BytesSet' = BytesSet \cup {w}
      /\ ~HasBytes(w) => Bytes' = Bytes /\ BytesSet' = BytesSet
  BY BytesAppend DEF IInv, Bytes, BytesSet
<1>2. Handled' \subseteq Handled \cup {w}
  BY <1>0, <1>1 DEF Handled
<1>3. BytesInOrder'
  BY <1>1, BytesGrow DEF IInv, WInv, Handled
<1>4. AnswersInv'
  <2>1. /\ yes \cap no = {} /\ swallowed \cap (yes \cup no) = {}
        /\ promises \cap (yes \cup no \cup swallowed) = {}
        /\ w \notin promises \cup yes \cup no \cup swallowed \cup BytesSet
    BY <1>0 DEF WInv, AnswersInv, Handled
  <2>2. promises' \cap (yes \cup no \cup swallowed) = {}
    BY <2>1
  <2>3. \A p \in promises' : HasBytes(p) => p \in BytesSet'
    BY <1>1 DEF WInv, AnswersInv
  <2>4. wired => \A x \in BytesSet' : Promised(x) => x \in promises' \cup yes \cup swallowed
    BY <1>1 DEF WInv, AnswersInv
  <2>5. wired /\ output' = <<>> => \A x \in promises' : ~HasBytes(x)
    <3>1. Append(output, w) # <<>>
      BY BytesType, AppendProperties DEF IInv
    <3> QED BY <3>1 DEF WInv, AnswersInv
  <2> QED BY <1>0, <2>1, <2>2, <2>3, <2>4, <2>5 DEF AnswersInv
<1>5. TrueMeansFlushed'
  <2> SUFFICES ASSUME NEW y \in yes, NEW i \in DOMAIN output', output'[i].by = y.by
               PROVE  output'[i].n > y.n
    BY <1>0 DEF TrueMeansFlushed
  <2>1. Before(y, w) /\ y \in Write
    BY HandledType DEF Handled, IInv
  <2>2. y.n \in Nat /\ w.n \in Nat
    BY <2>1, WriteFields
  <2>3. output'[i] = w \/ (i \in DOMAIN output /\ output'[i] = output[i])
    <3>1. output \in Seq(Write) /\ Len(output) \in Nat /\ DOMAIN output = 1..Len(output)
      BY BytesType, LenProperties DEF IInv
    <3>2. CASE output' = Append(output, w)
      <4>1. /\ DOMAIN output' = 1..(Len(output) + 1)
            /\ \A k \in 1..Len(output) : output'[k] = output[k]
            /\ output'[Len(output) + 1] = w
        BY <3>1, <3>2, AppendProperties, LenProperties
      <4> QED BY <3>1, <4>1
    <3> QED BY <3>2
  <2>4. CASE output'[i] = w
    BY <2>1, <2>2, <2>4 DEF Before
  <2>5. CASE i \in DOMAIN output /\ output'[i] = output[i]
    BY <2>5 DEF WInv, TrueMeansFlushed
  <2> QED BY <2>3, <2>4, <2>5
<1> QED BY <1>2, <1>3, <1>4, <1>5, HandledGrows DEF WInv

(* A write is answered false.                                              *)
LEMMA WriteRefused ==
  ASSUME IInv, WInv, Calm,
         NEW w \in Write, Past(w)', \A a \in Handled : Before(a, w),
         no' = no \cup {w},
         UNCHANGED <<wire, output, promises, yes, swallowed>>, wired' => wired
  PROVE  WInv'
<1>1. Bytes' = Bytes /\ BytesSet' = BytesSet /\ w \notin Handled
  BY NotHandled DEF Bytes, BytesSet
<1>2. Handled' \subseteq Handled \cup {w}
  BY <1>1 DEF Handled
<1>3. BytesInOrder' /\ TrueMeansFlushed'
  BY <1>1 DEF WInv, BytesInOrder, Before, TrueMeansFlushed
<1>4. AnswersInv'
  BY <1>1 DEF WInv, AnswersInv, Handled
<1> QED BY <1>2, <1>3, <1>4, HandledGrows DEF WInv
-----------------------------------------------------------------------------
(* What the bufferevent does when its socket is writable.                  *)

(* A part of the output goes out.                                          *)
LEMMA PartFlushed ==
  ASSUME IInv, WInv, UNCHANGED <<tasks, call, issued, wired, promises, answers>>,
         NEW k \in 1..Len(output), k < Len(output),
         wire' = wire \o SubSeq(output, 1, k),
         output' = SubSeq(output, k + 1, Len(output))
  PROVE  WInv'
<1>1. Bytes' = Bytes /\ BytesSet' = BytesSet /\ Handled' = Handled
  <2>1. Bytes' = Bytes
    BY BytesFlushed DEF IInv, Bytes
  <2> QED BY <2>1 DEF BytesSet, Handled, answers
<1>2. /\ output' # <<>>
      /\ \A i \in DOMAIN output' : i + k \in DOMAIN output /\ output'[i] = output[i + k]
  <2>1. output \in Seq(Write) /\ Len(output) \in Nat /\ DOMAIN output = 1..Len(output)
    BY BytesType, LenProperties DEF IInv
  <2>2. /\ output' \in Seq(Write)
        /\ Len(output') = Len(output) - k
        /\ \A i \in 1..(Len(output) - k) : output'[i] = output[i + k]
    <3>1. k + 1 \in Int /\ Len(output) \in Int /\ \A i \in (k + 1)..Len(output) : output[i] \in Write
      BY <2>1
    <3>2. /\ output' \in Seq(Write)
          /\ Len(output') = IF k + 1 <= Len(output) THEN Len(output) - (k + 1) + 1 ELSE 0
          /\ \A i \in 1..(Len(output) - (k + 1) + 1) : output'[i] = output[(k + 1) + i - 1]
      BY <3>1, SubSeqProperties
    <3>3. k \in Nat /\ k + 1 <= Len(output) /\ Len(output) - (k + 1) + 1 = Len(output) - k
      BY <2>1
    <3>4. Len(output') = Len(output) - k
      BY <3>2, <3>3
    <3>5. ASSUME NEW i \in 1..(Len(output) - k) PROVE output'[i] = output[i + k]
      <4>1. i \in Int /\ (k + 1) + i - 1 = i + k
        BY <2>1, <3>3
      <4>2. output'[i] = output[(k + 1) + i - 1]
        BY <3>2, <3>3, <3>5
      <4> QED BY <4>1, <4>2
    <3> QED BY <3>2, <3>4, <3>5
  <2>3. DOMAIN output' = 1..(Len(output) - k)
    BY <2>2, LenProperties
  <2>4. output' # <<>>
    <3>1. 1 \in DOMAIN output'
      BY <2>1, <2>3
    <3>2. DOMAIN <<>> = {}
      OBVIOUS
    <3> QED BY ONLY <3>1, <3>2
  <2>5. ASSUME NEW i \in DOMAIN output'
        PROVE  i + k \in DOMAIN output /\ output'[i] = output[i + k]
    <3>1. i \in 1..(Len(output) - k) /\ i + k \in 1..Len(output)
      BY <2>1, <2>3
    <3> QED BY <2>1, <2>2, <3>1
  <2> QED BY <2>4, <2>5
<1>3. HandledInv' /\ QueuedInv' /\ CalledInv'
  <2>1. Calm
    BY DEF Calm
  <2>2. \A a \in Handled : Past(a)'
    BY <2>1, CalmPast, HandledType DEF IInv, WInv, HandledInv
  <2> QED BY <1>1, <2>1, <2>2, CalmQueue DEF WInv, HandledInv
<1>4. BytesInOrder'
  BY <1>1 DEF WInv, BytesInOrder, Before
<1>5. AnswersInv'
  BY <1>1, <1>2 DEF WInv, AnswersInv, answers
<1>6. TrueMeansFlushed'
  BY <1>2 DEF WInv, TrueMeansFlushed, answers
<1> QED BY <1>3, <1>4, <1>5, <1>6 DEF WInv

(* All of the output goes out, and the promises are answered true.         *)
LEMMA AllFlushed ==
  ASSUME IInv, WInv, Calm, UNCHANGED <<no, swallowed>>, wired' => wired,
         wire' = Bytes, output' = <<>>, yes' = yes \cup promises, promises' = {}
  PROVE  WInv'
<1>1. Bytes' = Bytes /\ BytesSet' = BytesSet
  <2>1. Bytes' = Bytes \o <<>>
    BY DEF Bytes
  <2>2. Bytes' = Bytes
    BY <2>1, BytesType, ConcatEmptySeq DEF IInv
  <2> QED BY <2>2 DEF BytesSet
<1>2. Handled' = Handled
  BY <1>1 DEF Handled
<1>3. HandledInv' /\ QueuedInv' /\ CalledInv'
  <2>1. \A a \in Handled : Past(a)'
    BY CalmPast, HandledType DEF IInv, WInv, HandledInv
  <2> QED BY <1>2, <2>1, CalmQueue DEF WInv, HandledInv
<1>4. BytesInOrder'
  BY <1>1 DEF WInv, BytesInOrder, Before
<1>5. AnswersInv'
  BY <1>1 DEF WInv, AnswersInv
<1>6. TrueMeansFlushed'
  BY DEF TrueMeansFlushed
<1> QED BY <1>3, <1>4, <1>5, <1>6 DEF WInv

(* The same, and a callback writes again.                                  *)
LEMMA AllFlushedAndMore ==
  ASSUME IInv, WInv, Calm, UNCHANGED <<no, wired>>,
         NEW w \in Write, Past(w)', \A a \in Handled : Before(a, w),
         wire' = Bytes, yes' = yes \cup promises, promises' = {},
         output' = IF HasBytes(w) THEN <<w>> ELSE <<>>,
         swallowed' = IF Promised(w) THEN swallowed \cup {w} ELSE swallowed
  PROVE  WInv'
<1>1. w \notin Handled
  BY NotHandled
<1>2. Bytes \in Seq(Write) /\ Len(Bytes) \in Nat /\ DOMAIN Bytes = 1..Len(Bytes)
  BY BytesType, LenProperties DEF IInv
<1>3. \/ HasBytes(w) /\ Bytes' = Append(Bytes, w)
      \/ ~HasBytes(w) /\ Bytes' = Bytes
  <2>1. CASE HasBytes(w)
    <3>1. Bytes' = Bytes \o <<w>>
      BY <2>1 DEF Bytes
    <3> QED BY <1>2, <2>1, <3>1, AppendIsConcat
  <2>2. CASE ~HasBytes(w)
    <3>1. Bytes' = Bytes \o <<>>
      BY <2>2 DEF Bytes
    <3> QED BY <1>2, <2>2, <3>1, ConcatEmptySeq
  <2> QED BY <2>1, <2>2
<1>4. /\ HasBytes(w) => BytesSet' = BytesSet \cup {w}
      /\ ~HasBytes(w) => BytesSet' = BytesSet
  <2>1. CASE HasBytes(w)
    <3>1. /\ DOMAIN Bytes' = 1..(Len(Bytes) + 1)
          /\ \A i \in 1..Len(Bytes) : Bytes'[i] = Bytes[i]
          /\ Bytes'[Len(Bytes) + 1] = w
      BY <1>2, <1>3, <2>1, AppendProperties, LenProperties
    <3>2. ASSUME NEW x \in BytesSet' PROVE x \in BytesSet \cup {w}
      <4>1. PICK i \in 1..(Len(Bytes) + 1) : x = Bytes'[i]
        BY <3>1, <3>2 DEF BytesSet
      <4> QED BY <1>2, <3>1, <4>1 DEF BytesSet
    <3>3. ASSUME NEW x \in BytesSet PROVE x \in BytesSet'
      BY <1>2, <3>1, <3>3 DEF BytesSet
    <3>4. w \in BytesSet'
      <4>1. Len(Bytes) + 1 \in DOMAIN Bytes'
        BY <1>2, <3>1
      <4> QED BY <3>1, <4>1 DEF BytesSet
    <3> QED BY <2>1, <3>2, <3>3, <3>4
  <2>2. CASE ~HasBytes(w)
    BY <1>3, <2>2 DEF BytesSet
  <2> QED BY <2>1, <2>2
<1>5. Handled' \subseteq Handled \cup {w}
  BY <1>4 DEF Handled
<1>6. BytesInOrder'
  BY <1>3, BytesGrow DEF IInv, WInv, Handled
<1>7. AnswersInv'
  <2>1. /\ yes \cap no = {} /\ swallowed \cap (yes \cup no) = {}
        /\ promises \cap (yes \cup no \cup swallowed) = {}
        /\ w \notin promises \cup yes \cup no \cup swallowed
    BY <1>1 DEF WInv, AnswersInv, Handled
  <2>2. yes' \cap no' = {} /\ swallowed' \cap (yes' \cup no') = {}
    BY <2>1
  <2>3. wired => \A x \in BytesSet' : Promised(x) => x \in yes' \cup swallowed'
    BY <1>4 DEF WInv, AnswersInv
  <2> QED BY <2>2, <2>3 DEF AnswersInv
<1>8. TrueMeansFlushed'
  <2> SUFFICES ASSUME NEW y \in yes', NEW i \in DOMAIN output', output'[i].by = y.by
               PROVE  output'[i].n > y.n
    BY DEF TrueMeansFlushed
  <2>1. output' = <<w>> /\ output'[i] = w
    OBVIOUS
  <2>2. Before(y, w) /\ y \in Write
    BY HandledType DEF Handled, IInv
  <2> QED BY <2>1, <2>2, WriteFields DEF Before
<1> QED BY <1>5, <1>6, <1>7, <1>8, HandledGrows DEF WInv
-----------------------------------------------------------------------------
(* One lemma per kind of action.                                           *)

LEMMA InitWrites == Init => WInv
<1> SUFFICES ASSUME Init PROVE WInv
  OBVIOUS
<1>1. Bytes = <<>>
  BY DEF Init, Bytes
<1>2. Handled = {}
  BY <1>1 DEF Init, Handled, BytesSet
<1>3. HandledInv /\ QueuedInv /\ CalledInv
  BY <1>2 DEF Init, HandledInv, QueuedInv, CalledInv, Idle
<1>4. BytesInOrder /\ AnswersInv /\ TrueMeansFlushed
  BY <1>1 DEF Init, BytesInOrder, AnswersInv, BytesSet, TrueMeansFlushed
<1> QED BY <1>3, <1>4 DEF WInv

(* handleClose(), closeInLoop() and destroyed() throw the output away, or  *)
(* change nothing of it.                                                   *)
LEMMA ClosingWrites ==
  ASSUME IInv, WInv, Calm, UNCHANGED <<wire, answers>>,
         HandleClose \/ CloseInLoop \/ Destroyed \/ UNCHANGED life
  PROVE  WInv'
<1>1. CASE output' = <<>> /\ promises' = {} /\ ~wired'
  BY <1>1, ContentsReset
<1>2. CASE UNCHANGED <<output, promises, wired>>
  BY <1>2, ContentsKept
<1> QED
  BY <1>1, <1>2 DEF HandleClose, RemoveChannel, CloseInLoop, Destroyed, ResetPipeline, life

(* A write of W is called or queued, behind everything its thread wrote.   *)
Joins(W) ==
    /\ UNCHANGED <<wire, output, promises, wired, answers>>
    /\ \A a \in Write : Issued(a) => Issued(a)'
    /\ \A w \in W :
          /\ Issued(w)'
          /\ \A a \in Handled : Before(a, w)
          /\ \A i \in DOMAIN tasks : Carries(tasks[i]) => Before(tasks[i].w, w)
    /\ \/ tasks' = tasks
       \/ \E task \in Task :
             /\ tasks' = Append(tasks, task)
             /\ Carries(task) =>
                   /\ task.w \in W
                   /\ \A u \in Threads : call'[u].op = "write" => Before(task.w, call'[u].w)
    /\ \A u \in Threads : call'[u].op = "write" => call'[u] = call[u] \/ call'[u].w \in W

LEMMA QueueStep ==
  ASSUME IInv, WInv, NEW W \in SUBSET Write, Joins(W)
  PROVE  WInv'
<1> USE DEF Joins
<1>1. /\ Bytes' = Bytes /\ BytesSet' = BytesSet /\ Handled' = Handled /\ Handled \subseteq Write
      /\ BytesInOrder' /\ AnswersInv' /\ TrueMeansFlushed'
  BY HandledType DEF Bytes, BytesSet, Handled, WInv, BytesInOrder, Before, AnswersInv,
     TrueMeansFlushed, IInv, answers
<1>2. Len(tasks) \in Nat /\ DOMAIN tasks = 1..Len(tasks) /\ tasks \in Seq(Task)
  BY LenProperties DEF IInv, TypeOK
<1>3. ASSUME NEW i \in DOMAIN tasks', Carries(tasks'[i])
      PROVE  \/ i \in DOMAIN tasks /\ tasks'[i] = tasks[i]
             \/ /\ i = Len(tasks) + 1 /\ tasks'[i].w \in W
                /\ \A u \in Threads : call'[u].op = "write" => Before(tasks'[i].w, call'[u].w)
  <2>1. CASE tasks' = tasks
    BY <1>3, <2>1
  <2>2. ASSUME NEW task \in Task,
               tasks' = Append(tasks, task),
               Carries(task) =>
                     /\ task.w \in W
                     /\ \A u \in Threads : call'[u].op = "write" => Before(task.w, call'[u].w)
        PROVE  \/ i \in DOMAIN tasks /\ tasks'[i] = tasks[i]
               \/ /\ i = Len(tasks) + 1 /\ tasks'[i].w \in W
                  /\ \A u \in Threads : call'[u].op = "write" => Before(tasks'[i].w, call'[u].w)
    <3>1. /\ DOMAIN tasks' = 1..(Len(tasks) + 1)
          /\ \A k \in 1..Len(tasks) : tasks'[k] = tasks[k]
          /\ tasks'[Len(tasks) + 1] = task
      BY ONLY <1>2, task \in Task, tasks' = Append(tasks, task), AppendProperties, LenProperties
    <3>2. CASE i = Len(tasks) + 1
      BY <1>3, <2>2, <3>1, <3>2
    <3>3. CASE i # Len(tasks) + 1
      BY <1>2, <3>1, <3>3
    <3> QED BY <3>2, <3>3
  <2> QED BY <2>1, <2>2
<1>4. ASSUME NEW i \in DOMAIN tasks, Carries(tasks[i])
      PROVE  /\ tasks[i].w \in Write /\ Issued(tasks[i].w)
             /\ \A u \in Threads : call'[u].op = "write" => Before(tasks[i].w, call'[u].w)
  BY <1>4, CarriedType DEF WInv, QueuedInv
<1>5. HandledInv'
  <2> SUFFICES ASSUME NEW a \in Handled PROVE Past(a)'
    BY <1>1 DEF HandledInv
  <2>1. Past(a) /\ a \in Write /\ Issued(a)'
    BY <1>1 DEF WInv, HandledInv, Past
  <2>2. \A i \in DOMAIN tasks' : Carries(tasks'[i]) => Before(a, tasks'[i].w)
    BY <1>3, <2>1 DEF Past
  <2>3. \A u \in Threads : call'[u].op = "write" => Before(a, call'[u].w)
    BY <2>1 DEF Past
  <2> QED BY <2>1, <2>2, <2>3 DEF Past, Before
<1>6. QueuedInv'
  <2> SUFFICES ASSUME NEW j \in DOMAIN tasks', Carries(tasks'[j])
               PROVE  /\ Issued(tasks[j].w)'
                      /\ \A i \in DOMAIN tasks' : i < j /\ Carries(tasks'[i]) => Before(tasks'[i].w, tasks'[j].w)
                      /\ \A u \in Threads : call'[u].op = "write" => Before(tasks'[j].w, call'[u].w)
    BY DEF QueuedInv, Before, Issued
  <2>1. CASE j \in DOMAIN tasks /\ tasks'[j] = tasks[j]
    <3>1. PICK x \in Write : x = tasks[j].w /\ Issued(x)
      BY <1>4, <2>1
    <3>2. Issued(tasks[j].w)'
      BY <2>1, <3>1 DEF Issued
    <3>3. ASSUME NEW i \in DOMAIN tasks', i < j, Carries(tasks'[i])
          PROVE  Before(tasks'[i].w, tasks'[j].w)
      <4>1. i # Len(tasks) + 1
        BY <1>2, <2>1, <3>3
      <4>2. i \in DOMAIN tasks /\ tasks'[i] = tasks[i]
        BY <1>3, <3>3, <4>1
      <4> QED BY <2>1, <3>3, <4>2 DEF WInv, QueuedInv
    <3> QED BY <1>4, <2>1, <3>2, <3>3
  <2>2. CASE j = Len(tasks) + 1 /\ tasks'[j].w \in W
             /\ \A u \in Threads : call'[u].op = "write" => Before(tasks'[j].w, call'[u].w)
    <3>1. PICK x \in W : x = tasks'[j].w /\ Issued(x)'
      BY <2>2
    <3>2. Issued(tasks[j].w)'
      BY <3>1 DEF Issued
    <3>3. ASSUME NEW i \in DOMAIN tasks', i < j, Carries(tasks'[i])
          PROVE  Before(tasks'[i].w, tasks'[j].w)
      <4>1. i # Len(tasks) + 1
        BY <1>2, <2>2, <3>3
      <4>2. i \in DOMAIN tasks /\ tasks'[i] = tasks[i]
        BY <1>3, <3>3, <4>1
      <4> QED BY <2>2, <3>3, <4>2
    <3> QED BY <2>2, <3>2, <3>3
  <2> QED BY <1>3, <2>1, <2>2
<1>7. CalledInv'
  <2> SUFFICES ASSUME NEW u \in Threads, call'[u].op = "write" PROVE Issued(call[u].w)'
    BY DEF CalledInv
  <2>1. CASE call'[u] = call[u]
    <3>1. PICK x \in Write : x = call[u].w /\ Issued(x)
      BY <2>1, CalledType DEF WInv, CalledInv
    <3> QED BY <2>1, <3>1 DEF Issued
  <2>2. CASE call'[u].w \in W
    <3>1. PICK x \in W : x = call'[u].w /\ Issued(x)'
      BY <2>2
    <3> QED BY <3>1 DEF Issued
  <2> QED BY <2>1, <2>2
<1> QED BY <1>1, <1>5, <1>6, <1>7 DEF WInv

LEMMA CheckWrites ==
  ASSUME IInv, WInv, NEW t \in Callers, Check(t)
  PROVE  WInv'
<1>1. /\ t \in Threads /\ call[t] = Idle /\ issued[t] < MaxCalls
      /\ issued' = [issued EXCEPT ![t] = @ + 1]
      /\ UNCHANGED <<wire, output, promises, wired, answers>>
  BY DEF Check, Threads, life
<1>2. /\ issued[t] \in Nat /\ issued'[t] = issued[t] + 1
      /\ \A u \in Threads : u # t => issued'[u] = issued[u]
  BY <1>1, BoundAssumption DEF IInv, TypeOK
<1>3. ASSUME NEW a \in Write, Issued(a)
      PROVE  Issued(a)' /\ (a.by = t => a.n < issued[t] + 1)
  <2>1. a.by \in Threads /\ a.n \in Nat
    BY WriteFields
  <2> QED BY <1>2, <1>3, <2>1 DEF Issued
<1>4. ASSUME NEW kind \in Kinds, NEW w, w = NextWrite(t, kind)
      PROVE  /\ w \in Write /\ w.by = t
             /\ Issued(w)'
             /\ \A a \in Handled : Before(a, w)
             /\ \A i \in DOMAIN tasks : Carries(tasks[i]) => Before(tasks[i].w, w)
  <2>1. w \in Write /\ w.by = t /\ w.n = issued[t] + 1
    BY <1>1, <1>4, NextWriteType DEF IInv, NextWrite
  <2>2. Issued(w)'
    BY <1>2, <2>1 DEF Issued
  <2>3. \A a \in Write : Issued(a) => Before(a, w)
    BY <1>3, <2>1 DEF Before
  <2>4. \A a \in Handled : Before(a, w)
    BY <2>3, HandledType DEF IInv, WInv, HandledInv, Past
  <2>5. \A i \in DOMAIN tasks : Carries(tasks[i]) => Before(tasks[i].w, w)
    BY <2>3, CarriedType DEF WInv, QueuedInv
  <2> QED BY <2>1, <2>2, <2>4, <2>5
<1>5. CASE CheckWrite(t)
  <2>1. PICK kind \in Kinds :
          LET w == NextWrite(t, kind) IN
          \/ /\ call' = [call EXCEPT ![t] = Job("write", w)]
             /\ UNCHANGED tasks
          \/ /\ tasks' = IF Refusable(w) THEN Append(tasks, Job("refuse", w)) ELSE tasks
             /\ UNCHANGED call
    BY <1>5 DEF CheckWrite
  <2>2. PICK w : w = NextWrite(t, kind)
    OBVIOUS
  <2>3. /\ w \in Write /\ w.by = t
        /\ Issued(w)'
        /\ \A a \in Handled : Before(a, w)
        /\ \A i \in DOMAIN tasks : Carries(tasks[i]) => Before(tasks[i].w, w)
    BY <1>4, <2>2
  <2>4. CASE call' = [call EXCEPT ![t] = Job("write", w)] /\ UNCHANGED tasks
    <3>1. \A u \in Threads : call'[u] = call[u] \/ call'[u].w \in {w}
      BY <2>4 DEF IInv, TypeOK, Job
    <3>2. Joins({w})
      BY <1>1, <1>3, <2>3, <2>4, <3>1 DEF Joins
    <3> QED BY <2>3, <3>2, QueueStep
  <2>5. CASE UNCHANGED <<tasks, call>>
    <3>1. Joins({})
      BY <1>1, <1>3, <2>5 DEF Joins
    <3> QED BY <3>1, QueueStep
  <2>6. CASE tasks' = Append(tasks, Job("refuse", w)) /\ UNCHANGED call
    <3>1. Job("refuse", w) \in Task /\ Job("refuse", w).w = w
      BY <2>3 DEF Job, Task
    <3>2. \A u \in Threads : call'[u].op = "write" => Before(w, call'[u].w)
      BY <1>1, <2>3, <2>6, CalledType DEF Before, Idle
    <3>3. \E task \in Task :
             /\ tasks' = Append(tasks, task)
             /\ Carries(task) =>
                   /\ task.w \in {w}
                   /\ \A u \in Threads : call'[u].op = "write" => Before(task.w, call'[u].w)
      BY <2>6, <3>1, <3>2
    <3>4. Joins({w})
      BY <1>1, <1>3, <2>3, <2>6, <3>3 DEF Joins
    <3> QED BY <2>3, <3>4, QueueStep
  <2> QED BY <2>1, <2>2, <2>4, <2>5, <2>6
<1>6. CASE CheckClosing(t)
  <2>1. PICK op \in Calls : call' = [call EXCEPT ![t] = Job(op, NoWrite)] /\ UNCHANGED tasks
    BY <1>6 DEF CheckClosing
  <2>2. \A u \in Threads : call'[u].op = "write" => call'[u] = call[u]
    BY <2>1, CallsAssumption DEF IInv, TypeOK, Job
  <2>3. Joins({})
    BY <1>1, <1>3, <2>1, <2>2 DEF Joins
  <2> QED BY <2>3, QueueStep
<1> QED BY <1>5, <1>6 DEF Check

LEMMA ActWrites ==
  ASSUME IInv, WInv, NEW t \in Callers, Act(t)
  PROVE  WInv'
<1>1. /\ t \in Threads /\ call[t].op # "idle"
      /\ call' = [call EXCEPT ![t] = Idle]
      /\ UNCHANGED <<wire, output, promises, wired, answers, issued>>
  BY DEF Act, Threads
<1>2. \A u \in Threads : call'[u].op = "write" => u # t /\ call'[u] = call[u]
  BY <1>1 DEF IInv, TypeOK, Idle
<1>3. \A a \in Write : Issued(a) => Issued(a)'
  BY <1>1 DEF Issued
<1>4. CASE call[t].op = "write"
  <2>1. PICK w \in Write : w = call[t].w /\ w.by = t
    BY <1>1, <1>4, CalledType
  <2>2. tasks' = Append(tasks, call[t]) /\ call[t] \in Task
    BY <1>1, <1>4, <2>1 DEF Act, IInv, TypeOK, Call, Task
  <2>3. /\ Issued(w)'
        /\ \A a \in Handled : Before(a, w)
        /\ \A i \in DOMAIN tasks : Carries(tasks[i]) => Before(tasks[i].w, w)
    BY <1>1, <1>4, <2>1 DEF WInv, HandledInv, Past, QueuedInv, CalledInv, Issued
  <2>4. \A u \in Threads : call'[u].op = "write" => Before(w, call'[u].w)
    BY <1>2, <2>1, CalledType DEF Before
  <2>5. \E task \in Task :
           /\ tasks' = Append(tasks, task)
           /\ Carries(task) =>
                 /\ task.w \in {w}
                 /\ \A u \in Threads : call'[u].op = "write" => Before(task.w, call'[u].w)
    BY <2>1, <2>2, <2>4
  <2>6. Joins({w})
    BY <1>1, <1>2, <1>3, <2>3, <2>5 DEF Joins
  <2> QED BY <2>6, QueueStep
<1>5. CASE call[t].op # "write"
  <2>1. \/ tasks' = tasks
        \/ call[t].op \in {"close", "shutdown"} /\ tasks' = Append(tasks, call[t])
    BY <1>5 DEF Act
  <2>2. call[t].op \in {"close", "shutdown"} => call[t] \in Task /\ ~Carries(call[t])
    BY <1>1 DEF IInv, TypeOK, Call, Task, Carries
  <2>3. Joins({})
    BY <1>1, <1>2, <1>3, <2>1, <2>2 DEF Joins
  <2> QED BY <2>3, QueueStep
<1> QED BY <1>4, <1>5

(* Neither the writes nor their promises are touched.                      *)
LEMMA QuietWrites ==
  ASSUME IInv, WInv, UNCHANGED <<tasks, call, issued, wire, output, promises, wired, answers>>
  PROVE  WInv'
BY ContentsKept DEF Calm

(* LoopClose, LoopShutdown, LoopCloseWithDelay.                            *)
LEMMA LoopClosingWrites ==
  ASSUME IInv, WInv, LoopClose \/ LoopShutdown \/ LoopCloseWithDelay
  PROVE  WInv'
<1>1. Calm /\ UNCHANGED <<wire, answers>>
  BY DEF LoopClose, LoopShutdown, LoopCloseWithDelay, LoopCalls, Calm
<1>2. CASE LoopClose
  BY <1>1, <1>2, ClosingWrites DEF LoopClose
<1>3. CASE LoopShutdown \/ LoopCloseWithDelay
  BY <1>1, <1>3, ContentsKept DEF LoopShutdown, LoopCloseWithDelay
<1> QED BY <1>2, <1>3

LEMMA LoopWriteWrites ==
  ASSUME IInv, WInv, LoopWrite
  PROVE  WInv'
<1>1. /\ UNCHANGED <<tasks, call, wire>> /\ issued[Loop] < MaxCalls
      /\ issued' = [issued EXCEPT ![Loop] = @ + 1]
      /\ Calm
  BY DEF LoopWrite, LoopCalls, Calm
<1>2. PICK kind \in Kinds :
        LET w == NextWrite(Loop, kind) IN
        \/ state = "kActive" /\ WriteInLoop(w)
        \/ /\ state # "kActive"
           /\ no' = IF Refusable(w) THEN no \cup {w} ELSE no
           /\ UNCHANGED <<life, yes, swallowed>>
  BY DEF LoopWrite
<1>3. PICK w : w = NextWrite(Loop, kind)
  OBVIOUS
<1>4. w \in Write /\ Past(w)' /\ \A a \in Handled : Before(a, w)
  BY <1>1, <1>3, LoopPast
<1>5. CASE state = "kActive" /\ WriteInLoop(w)
  <2>1. CASE wired
    BY <1>1, <1>4, <1>5, <2>1, WriteAccepted DEF WriteInLoop, answers
  <2>2. CASE ~wired
    BY <1>1, <1>5, <2>2, ContentsKept DEF WriteInLoop, answers
  <2> QED BY <2>1, <2>2
<1>6. CASE no' = no \cup {w} /\ UNCHANGED <<life, yes, swallowed>>
  BY <1>1, <1>4, <1>6, WriteRefused DEF life
<1>7. CASE no' = no /\ UNCHANGED <<life, yes, swallowed>>
  BY <1>1, <1>7, ContentsKept DEF life, answers
<1> QED BY <1>2, <1>3, <1>5, <1>6, <1>7

LEMMA RunTaskWrites ==
  ASSUME IInv, WInv, RunTask
  PROVE  WInv'
<1>1. /\ tasks # <<>> /\ tasks' = Tail(tasks) /\ UNCHANGED <<call, issued, wire>>
      /\ Calm
  BY DEF RunTask, Calm
<1>2. PICK task : task = Head(tasks)
  OBVIOUS
<1>3. CASE task.op = "write" /\ WriteInLoop(task.w)
  <2>1. PICK w : w = task.w
    OBVIOUS
  <2>2. w \in Write /\ Past(w)' /\ \A a \in Handled : Before(a, w)
    BY <1>1, <1>2, <1>3, <2>1, HeadPast DEF Carries
  <2>3. CASE state # "kInactive" /\ wired
    BY <1>1, <1>3, <2>1, <2>2, <2>3, WriteAccepted DEF WriteInLoop, answers
  <2>4. CASE state = "kInactive" /\ Promised(w)
    BY <1>1, <1>3, <2>1, <2>2, <2>4, WriteRefused DEF WriteInLoop
  <2>5. CASE state # "kInactive" /\ ~wired
    BY <1>1, <1>3, <2>1, <2>5, ContentsKept DEF WriteInLoop, answers
  <2>6. CASE state = "kInactive" /\ ~Promised(w)
    BY <1>1, <1>3, <2>1, <2>6, ContentsKept DEF WriteInLoop, answers
  <2> QED BY <2>3, <2>4, <2>5, <2>6
<1>4. CASE task.op = "refuse" /\ no' = no \cup {task.w} /\ UNCHANGED <<life, yes, swallowed>>
  <2>1. PICK w : w = task.w
    OBVIOUS
  <2>2. w \in Write /\ Past(w)' /\ \A a \in Handled : Before(a, w)
    BY <1>1, <1>2, <1>4, <2>1, HeadPast DEF Carries
  <2> QED BY <1>1, <1>4, <2>1, <2>2, WriteRefused DEF life
<1>5. CASE /\ UNCHANGED answers
           /\ \/ CloseInLoop
              \/ Destroyed
              \/ UNCHANGED <<wired, output, promises>>
  <2>1. CASE CloseInLoop \/ Destroyed
    BY <1>1, <1>5, <2>1, ClosingWrites
  <2>2. CASE UNCHANGED <<wired, output, promises>>
    BY <1>1, <1>5, <2>2, ContentsKept
  <2> QED BY <1>5, <2>1, <2>2
<1> QED BY <1>2, <1>3, <1>4, <1>5 DEF RunTask

LEMMA OtherClosingWrites ==
  ASSUME IInv, WInv, DelayedClose \/ ReadEvent \/ BootstrapDestroyed
  PROVE  WInv'
<1>1. CASE DelayedClose
  BY <1>1, ClosingWrites DEF DelayedClose, Calm
<1>2. CASE ReadEvent
  <2>1. Calm /\ UNCHANGED <<wire, answers>>
    BY <1>2 DEF ReadEvent, Calm, users
  <2>2. CASE HandleClose \/ CloseInLoop
    BY <2>1, <2>2, ClosingWrites
  <2>3. CASE UNCHANGED <<wired, output, promises>>
    BY <2>1, <2>3, ContentsKept
  <2> QED BY <1>2, <2>2, <2>3 DEF ReadEvent, ExceptionCaught
<1>3. CASE BootstrapDestroyed
  <2>1. Calm /\ UNCHANGED <<wire, answers>>
    BY <1>3 DEF BootstrapDestroyed, Calm
  <2>2. CASE Destroyed
    BY <2>1, <2>2, ClosingWrites
  <2>3. CASE UNCHANGED <<wired, output, promises>>
    BY <2>1, <2>3, ContentsKept
  <2> QED BY <1>3, <2>2, <2>3 DEF BootstrapDestroyed
<1> QED BY <1>1, <1>2, <1>3

LEMMA WriteEventWrites ==
  ASSUME IInv, WInv, WriteEvent
  PROVE  WInv'
<1>1. UNCHANGED <<tasks, call>> /\ wired
  BY DEF WriteEvent
<1>2. ASSUME NEW k \in 1..Len(output), k < Len(output),
             wire' = wire \o SubSeq(output, 1, k),
             output' = SubSeq(output, k + 1, Len(output)),
             UNCHANGED <<wired, promises, issued, answers>>
      PROVE  WInv'
  BY <1>1, <1>2, PartFlushed
<1>3. ASSUME wire' = wire \o SubSeq(output, 1, Len(output)), Len(output) \in 1..Len(output),
             WritePromise, UNCHANGED no
      PROVE  WInv'
  <2>1. wire' = Bytes /\ yes' = yes \cup promises
    BY <1>3, BytesFlushed DEF IInv, WritePromise
  <2>2. CASE /\ output' = <<>> /\ promises' = {}
             /\ UNCHANGED <<wired, swallowed, issued>>
    <3>1. Calm
      BY <1>1, <2>2 DEF Calm
    <3> QED BY <1>3, <2>1, <2>2, <3>1, AllFlushed
  <2>3. CASE /\ issued[Loop] < MaxCalls
             /\ issued' = [issued EXCEPT ![Loop] = @ + 1]
             /\ HandleClose
             /\ UNCHANGED swallowed
    <3>1. Calm
      BY <1>1, <2>3 DEF Calm
    <3>2. output' = <<>> /\ promises' = {} /\ ~wired'
      BY <1>1, <2>3 DEF HandleClose, RemoveChannel, ResetPipeline
    <3> QED BY <1>3, <2>1, <2>3, <3>1, <3>2, AllFlushed
  <2>4. ASSUME issued[Loop] < MaxCalls,
               issued' = [issued EXCEPT ![Loop] = @ + 1],
               NEW kind \in Kinds, NEW w, w = NextWrite(Loop, kind),
               output' = IF HasBytes(w) THEN <<w>> ELSE <<>>,
               swallowed' = IF Promised(w) THEN swallowed \cup {w} ELSE swallowed,
               promises' = {},
               UNCHANGED wired
        PROVE  WInv'
    <3>1. Calm
      BY <1>1, <2>4 DEF Calm
    <3>2. w \in Write /\ Past(w)' /\ \A a \in Handled : Before(a, w)
      BY <1>1, <2>4, LoopPast
    <3> QED BY <1>3, <2>1, <2>4, <3>1, <3>2, AllFlushedAndMore
  <2>5. CASE /\ issued[Loop] < MaxCalls
             /\ issued' = [issued EXCEPT ![Loop] = @ + 1]
             /\ \E kind \in Kinds :
                   LET w == NextWrite(Loop, kind) IN
                   /\ output' = IF HasBytes(w) THEN <<w>> ELSE <<>>
                   /\ swallowed' = IF Promised(w) THEN swallowed \cup {w} ELSE swallowed
             /\ promises' = {}
             /\ UNCHANGED wired
    <3>1. PICK kind \in Kinds :
             LET w == NextWrite(Loop, kind) IN
             /\ output' = IF HasBytes(w) THEN <<w>> ELSE <<>>
             /\ swallowed' = IF Promised(w) THEN swallowed \cup {w} ELSE swallowed
      BY <2>5
    <3>2. PICK w : w = NextWrite(Loop, kind)
      OBVIOUS
    <3> QED BY <2>4, <2>5, <3>1, <3>2
  <2> QED BY <1>3, <2>2, <2>3, <2>5 DEF WritePromise
<1>4. CASE UNCHANGED <<wire, answers, issued>> /\ CloseInLoop
  BY <1>1, <1>4, ClosingWrites DEF Calm
<1>5. CASE UNCHANGED <<wire, answers, issued, wired, output, promises>>
  BY <1>1, <1>5, QuietWrites
<1> QED BY <1>2, <1>3, <1>4, <1>5 DEF WriteEvent, ExceptionCaught, answers

LEMMA NextWrites ==
  ASSUME IInv, WInv, [Next]_vars
  PROVE  WInv'
<1>1. CASE NewChannelLoop
  BY <1>1, QuietWrites DEF NewChannelLoop, Established
<1>2. ASSUME NEW t \in Threads, Release(t) PROVE WInv'
  BY <1>2, QuietWrites DEF Release, life
<1>3. CASE CleanupBreaks
  BY <1>3, QuietWrites DEF CleanupBreaks, users
<1>4. CASE ConnFails
  BY <1>4, QuietWrites DEF ConnFails, users, life
<1>5. CASE UNCHANGED vars
  BY <1>5, QuietWrites DEF vars, users, life
<1> QED
  BY <1>1, <1>2, <1>3, <1>4, <1>5, CheckWrites, ActWrites, LoopWriteWrites, LoopClosingWrites,
     RunTaskWrites, OtherClosingWrites, WriteEventWrites DEF Next

LEMMA SpecWrites == Spec => [](IInv /\ WInv)
<1>1. Init => IInv /\ WInv
  BY InitInv, InitWrites
<1>2. IInv /\ WInv /\ [Next]_vars => (IInv /\ WInv)'
  BY NextInv, NextWrites
<1> QED BY <1>1, <1>2, PTL DEF Spec
-----------------------------------------------------------------------------
(* The theorems.                                                           *)

(* A promise is in one place: no write is told two things, none is told    *)
(* anything while it can still be told something else, and none is lost    *)
(* while the pipeline lives (writeAndFlushInLoop, pushPromise,             *)
(* writePromise, for every number of threads and calls).                   *)
THEOREM PromisesInOnePlace == Spec => []OnePlace
<1>1. ASSUME IInv, WInv PROVE OnePlace
  <2>1. AnswersInv
    BY <1>1 DEF WInv
  <2>2. ASSUME NEW a \in yes \cup no \cup swallowed, a \in Unanswered PROVE FALSE
    <3>1. a \in Handled /\ a \in Write /\ Past(a)
      BY <1>1, HandledType DEF Handled, IInv, WInv, HandledInv
    <3>2. ~Before(a, a)
      BY <3>1, WriteFields DEF Before
    <3>3. a \notin promises
      BY <2>1, <2>2 DEF AnswersInv
    <3> QED BY <2>2, <3>1, <3>2, <3>3 DEF Unanswered, Past, Carries
  <2>3. \A i \in DOMAIN (wire \o output) : (wire \o output)[i] \in BytesSet
    BY DEF BytesSet, Bytes
  <2> QED BY <2>1, <2>2, <2>3 DEF OnePlace, AnswersInv
<1> QED BY <1>1, SpecWrites, PTL

(* Who is told true has nothing of its own left in the output up to the    *)
(* write it is told about (writePromise).                                  *)
THEOREM TrueAfterFlush == Spec => []TrueMeansFlushed
<1>1. WInv => TrueMeansFlushed
  BY DEF WInv
<1> QED BY <1>1, SpecWrites, PTL

(* The socket sees the writes of every thread in the order they were made  *)
(* (writeAndFlushInLoop and execute()).                                    *)
THEOREM WritesInOrder == Spec => []WireOrder
<1>1. ASSUME IInv, WInv PROVE WireOrder
  <2> SUFFICES ASSUME NEW j \in DOMAIN Bytes, NEW i \in 1..(j - 1), Bytes[i].by = Bytes[j].by
               PROVE  Bytes[i].n < Bytes[j].n
    BY DEF WireOrder, Bytes
  <2>1. i \in DOMAIN Bytes /\ i < j
    <3>1. DOMAIN Bytes = 1..Len(Bytes) /\ Len(Bytes) \in Nat
      BY <1>1, BytesType, LenProperties DEF IInv
    <3> QED BY <3>1
  <2> QED BY <1>1, <2>1 DEF WInv, BytesInOrder, Before
<1> QED BY <1>1, SpecWrites, PTL
-----------------------------------------------------------------------------
(* The contract.                                                           *)

(* channelInActive is told when the channel is open, and once.             *)
LEMMA ClosingRefines ==
  ASSUME IInv, UNCHANGED <<ups, wire, answers>>,
         HandleClose \/ CloseInLoop \/ Destroyed \/ UNCHANGED downs
  PROVE  Contract!Close \/ UNCHANGED Contract!vars
<1>1. (downs = 0 /\ downs' = 1) \/ UNCHANGED downs
  BY DEF HandleClose, CloseInLoop, Destroyed, IInv, LifeInv, StatesAgree, life
<1>2. ups \in {0, 1}
  BY DEF IInv, TypeOK
<1>3. CASE UNCHANGED downs \/ ups = 0
  BY <1>3 DEF Contract!vars, Phase, answers
<1>4. CASE downs = 0 /\ downs' = 1 /\ ups = 1
  BY <1>4 DEF Contract!Close, Phase, answers
<1> QED BY <1>1, <1>2, <1>3, <1>4

(* A write is answered false, once.                                        *)
LEMMA RefusalRefines ==
  ASSUME IInv, WInv, UNCHANGED <<ups, downs, wire, yes>>,
         NEW w \in Write, w \notin Handled, no' = no \cup {w}
  PROVE  Contract!Refuse
BY DEF Contract!Refuse, Phase, Handled

LEMMA LoopWriteRefines ==
  ASSUME IInv, WInv, LoopWrite
  PROVE  Contract!Refuse \/ UNCHANGED Contract!vars
<1>1. /\ UNCHANGED <<tasks, call, wire, ups>> /\ issued[Loop] < MaxCalls
      /\ issued' = [issued EXCEPT ![Loop] = @ + 1]
  BY DEF LoopWrite, LoopCalls
<1>2. PICK kind \in Kinds :
        LET w == NextWrite(Loop, kind) IN
        \/ state = "kActive" /\ WriteInLoop(w)
        \/ /\ state # "kActive"
           /\ no' = IF Refusable(w) THEN no \cup {w} ELSE no
           /\ UNCHANGED <<life, yes, swallowed>>
  BY DEF LoopWrite
<1>3. PICK w : w = NextWrite(Loop, kind)
  OBVIOUS
<1>4. w \in Write /\ w \notin Handled
  BY <1>1, <1>3, LoopPast, NotHandled
<1>5. UNCHANGED <<downs, yes>> /\ (no' = no \cup {w} \/ no' = no)
  BY <1>2, <1>3 DEF WriteInLoop, life
<1> QED BY <1>1, <1>4, <1>5, RefusalRefines DEF Contract!vars, Phase

LEMMA RunTaskRefines ==
  ASSUME IInv, WInv, RunTask
  PROVE  Contract!Refuse \/ Contract!Close \/ UNCHANGED Contract!vars
<1>1. tasks # <<>> /\ tasks' = Tail(tasks) /\ UNCHANGED <<call, issued, wire, ups>>
  BY DEF RunTask
<1>2. PICK task : task = Head(tasks)
  OBVIOUS
<1>3. CASE /\ task.op \in {"write", "refuse"}
           /\ no' = no \cup {task.w} \/ UNCHANGED no
           /\ UNCHANGED <<downs, yes>>
  <2>1. PICK w : w = task.w
    OBVIOUS
  <2>2. w \in Write /\ w \notin Handled
    BY <1>1, <1>2, <1>3, <2>1, HeadPast, NotHandled DEF Carries
  <2> QED BY <1>1, <1>3, <2>1, <2>2, RefusalRefines DEF Contract!vars, Phase
<1>4. CASE UNCHANGED answers /\ (CloseInLoop \/ Destroyed \/ UNCHANGED downs)
  BY <1>1, <1>4, ClosingRefines
<1> QED BY <1>2, <1>3, <1>4 DEF RunTask, WriteInLoop, life

(* What was sent is the beginning of what is sent afterwards.              *)
LEMMA PrefixOfConcat ==
  ASSUME NEW S, NEW s \in Seq(S), NEW u \in Seq(S)
  PROVE  s \o u \in Seq(S) /\ IsPrefix(s, s \o u)
<1>1. /\ s \o u \in Seq(S) /\ Len(s \o u) = Len(s) + Len(u)
      /\ \A i \in 1..Len(s) : (s \o u)[i] = s[i]
  BY ConcatProperties
<1>2. Len(s) \in Nat /\ Len(u) \in Nat
  OBVIOUS
<1>3. SubSeq(s \o u, 1, Len(s)) = SubSeq(s, 1, Len(s))
  BY <1>1, <1>2
<1> QED BY <1>1, <1>2, <1>3 DEF IsPrefix

LEMMA WriteEventRefines ==
  ASSUME IInv, WInv, WriteEvent
  PROVE  Contract!Deliver \/ Contract!Close \/ UNCHANGED Contract!vars
<1>1. wired /\ output # <<>> /\ UNCHANGED ups
  BY DEF WriteEvent
<1>2. CASE conn \in {"up", "eof"}
  <2>1. PICK k \in 1..Len(output) :
           /\ wire' = wire \o SubSeq(output, 1, k)
           /\ \/ /\ k < Len(output)
                 /\ UNCHANGED <<downs, yes>>
              \/ k = Len(output) /\ WritePromise
    BY <1>2 DEF WriteEvent
  <2>2. wire \in Seq(Write) /\ SubSeq(output, 1, k) \in Seq(Write)
    BY DEF IInv, TypeOK
  <2>3. wire' \in Seq(Write) /\ IsPrefix(wire, wire')
    BY <2>1, <2>2, PrefixOfConcat
  <2>4. Phase = "open" /\ Phase' \in {"open", "closed"} /\ UNCHANGED no
    BY <1>1, <1>2 DEF Phase, IInv, LifeInv, StatesAgree, Fresh, TypeOK, WriteEvent
  <2>5. yes \subseteq yes'
    BY <2>1 DEF WritePromise
  <2>6. yes' \ yes \subseteq ((Range(wire') \cup {w \in Write : ~HasBytes(w)}) \cap Write) \ no
    <3> SUFFICES ASSUME NEW p \in yes', p \notin yes
                 PROVE  /\ p \in Write /\ p \notin no
                        /\ HasBytes(p) => p \in Range(wire')
      OBVIOUS
    <3>1. k = Len(output) /\ p \in promises
      BY <2>1 DEF WritePromise
    <3>2. p \in Write /\ p \notin no
      BY <3>1 DEF IInv, TypeOK, WInv, AnswersInv
    <3>3. wire' = Bytes
      BY <2>1, <3>1, BytesFlushed DEF IInv
    <3>4. HasBytes(p) => p \in BytesSet
      BY <3>1 DEF WInv, AnswersInv
    <3> QED BY <3>2, <3>3, <3>4 DEF BytesSet, Range
  <2>7. Contract!IsPrefix(wire, wire') /\ Contract!Range(wire') = Range(wire')
    BY <2>3 DEF IsPrefix, Contract!IsPrefix, Range, Contract!Range
  <2> QED BY <2>3, <2>4, <2>5, <2>6, <2>7 DEF Contract!Deliver
<1>3. CASE UNCHANGED <<wire, answers>> /\ (CloseInLoop \/ UNCHANGED downs)
  BY <1>1, <1>3, ClosingRefines
<1> QED BY <1>2, <1>3 DEF WriteEvent, ExceptionCaught

(* The channel keeps its contract: it opens once and closes at most once,  *)
(* sends only while it is open, answers each promise at most once and      *)
(* true only when the bytes are out (NioSocketChannel and ChannelPipeline, *)
(* whatever the other threads, the peer and the ServerBootstrap do).       *)
THEOREM ChannelKeepsContract == Spec => ImplementsContract
<1>1. Init => Contract!Init
  BY DEF Init, Contract!Init, Phase
<1>2. ASSUME IInv, WInv, [Next]_vars PROVE [Contract!Next]_(Contract!vars)
  <2>1. CASE NewChannelLoop
    <3>1. ups = 0 /\ downs = 0 /\ UNCHANGED <<downs, wire, yes, no>> /\ ups' \in {0, 1}
      BY <1>2, <2>1 DEF NewChannelLoop, Established, IInv, LifeInv, StatesAgree, Fresh, answers
    <3> QED BY <3>1 DEF Contract!Next, Contract!Open, Contract!vars, Phase
  <2>2. CASE \/ \E t \in Callers : Check(t) \/ Act(t)
             \/ \E t \in Threads : Release(t)
             \/ CleanupBreaks \/ ConnFails \/ LoopShutdown \/ LoopCloseWithDelay
             \/ UNCHANGED vars
    <3>1. UNCHANGED <<ups, downs, wire, yes, no>>
      BY <2>2 DEF Check, Act, Release, CleanupBreaks, ConnFails, LoopShutdown,
                  LoopCloseWithDelay, LoopCalls, vars, life, answers, users
    <3> QED BY <3>1 DEF Contract!vars, Phase
  <2>3. CASE LoopWrite
    BY <1>2, <2>3, LoopWriteRefines DEF Contract!Next
  <2>4. CASE RunTask
    BY <1>2, <2>4, RunTaskRefines DEF Contract!Next
  <2>5. CASE WriteEvent
    BY <1>2, <2>5, WriteEventRefines DEF Contract!Next
  <2>6. CASE LoopClose \/ DelayedClose \/ ReadEvent \/ BootstrapDestroyed
    <3>1. /\ UNCHANGED <<ups, wire, answers>>
          /\ HandleClose \/ CloseInLoop \/ Destroyed \/ UNCHANGED downs
      BY <2>6 DEF LoopClose, LoopCalls, DelayedClose, ReadEvent, ExceptionCaught,
                  BootstrapDestroyed, life
    <3> QED BY <1>2, <3>1, ClosingRefines DEF Contract!Next
  <2> QED BY <1>2, <2>1, <2>2, <2>3, <2>4, <2>5, <2>6 DEF Next
<1> QED BY <1>1, <1>2, SpecWrites, PTL DEF Spec, Contract!Spec, ImplementsContract
-----------------------------------------------------------------------------
(* What the contract gives its users, and the channel with it.             *)

(* A longer sequence has every element of its prefixes.                    *)
LEMMA PrefixRange ==
    ASSUME NEW S, NEW s \in Seq(S), NEW t \in Seq(S), Contract!IsPrefix(s, t)
    PROVE  Contract!Range(s) \subseteq Contract!Range(t)
<1> SUFFICES ASSUME NEW i \in DOMAIN s
             PROVE  s[i] \in Contract!Range(t)
    BY DEF Contract!Range
<1>1. /\ Len(s) \in Nat /\ Len(t) \in Nat /\ Len(s) <= Len(t)
      /\ i \in 1..Len(s)
      /\ DOMAIN t = 1..Len(t)
    BY DEF Contract!IsPrefix
<1>2. s[i] = SubSeq(s, 1, Len(s))[i] /\ t[i] = SubSeq(t, 1, Len(s))[i]
    BY <1>1
<1>3. s[i] = t[i]
    BY <1>2 DEF Contract!IsPrefix
<1> QED
    BY <1>1, <1>3 DEF Contract!Range

(* The types, and what is needed to keep the two answers apart.            *)
ContractInv == Contract!TypeOK /\ Contract!OneAnswer /\ Contract!TrueIsSent

LEMMA ContractKeeps == Contract!Spec => []ContractInv
<1>1. Contract!Init => ContractInv
    BY DEF Contract!Init, ContractInv, Contract!TypeOK, Contract!OneAnswer, Contract!TrueIsSent
<1>2. ContractInv /\ [Contract!Next]_(Contract!vars) => ContractInv'
  <2> SUFFICES ASSUME ContractInv, [Contract!Next]_(Contract!vars) PROVE ContractInv'
      OBVIOUS
  <2> USE DEF ContractInv, Contract!TypeOK, Contract!OneAnswer, Contract!TrueIsSent
  <2>1. CASE Contract!Open
      BY <2>1 DEF Contract!Open
  <2>2. CASE Contract!Deliver
    <3>1. PICK v, w : v = wire /\ w = wire'
        OBVIOUS
    <3>2. v \in Seq(Write) /\ w \in Seq(Write) /\ Contract!IsPrefix(v, w)
        BY <2>2, <3>1 DEF Contract!Deliver
    <3>3. Contract!Range(v) \subseteq Contract!Range(w)
        BY <3>2, PrefixRange
    <3>4. Contract!Range(wire) \subseteq Contract!Range(wire')
        BY <3>1, <3>3
    <3>5. Contract!TypeOK'
        BY <2>2 DEF Contract!Deliver
    <3>6. Contract!OneAnswer'
        BY <2>2 DEF Contract!Deliver
    <3>7. Contract!TrueIsSent'
        BY <2>2, <3>4 DEF Contract!Deliver
    <3> QED BY <3>5, <3>6, <3>7
  <2>3. CASE Contract!Refuse
      BY <2>3 DEF Contract!Refuse
  <2>4. CASE Contract!Close
      BY <2>4 DEF Contract!Close
  <2>5. CASE UNCHANGED Contract!vars
      BY <2>5 DEF Contract!vars
  <2> QED
      BY <2>1, <2>2, <2>3, <2>4, <2>5 DEF Contract!Next
<1> QED
    BY <1>1, <1>2, PTL DEF Contract!Spec

(* No write of a channel is told both that it was sent and that it was     *)
(* not: the contract says so, and the channel keeps it.                    *)
THEOREM ChannelAnswersOnce == Spec => []Contract!OneAnswer
<1>1. ContractInv => Contract!OneAnswer
    BY DEF ContractInv
<1> QED
    BY <1>1, ContractKeeps, ChannelKeepsContract, PTL DEF ImplementsContract

(* Who is told true finds the bytes handed to the socket.                  *)
THEOREM ChannelTrueIsSent == Spec => []Contract!TrueIsSent
<1>1. ContractInv => Contract!TrueIsSent
    BY DEF ContractInv
<1> QED
    BY <1>1, ContractKeeps, ChannelKeepsContract, PTL DEF ImplementsContract

(* After channelInActive nothing is sent and nobody is told true.          *)
THEOREM ChannelClosedIsFinal == Spec => Contract!ClosedIsFinal
<1>1. [Contract!Next]_(Contract!vars) =>
        [Phase = "closed" => /\ Phase' = "closed"
                             /\ wire' = wire
                             /\ yes' = yes]_(Contract!vars)
    BY DEF Contract!Next, Contract!Open, Contract!Deliver, Contract!Refuse, Contract!Close, Contract!vars
<1> QED
    BY <1>1, ChannelKeepsContract, PTL DEF ImplementsContract, Contract!Spec, Contract!ClosedIsFinal
=============================================================================

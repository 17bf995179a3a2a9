----------------------- MODULE NioEventLoopThread_proofs -----------------------
(***************************************************************************)
(* Theorems about NioEventLoopThread for every set of tasks, with and      *)
(* without users who shut the loop down themselves.                        *)
(*                                                                         *)
(* EarlyTasksRan speaks of the end of the loop only.  QueueInv says what   *)
(* leads there: the early tasks are those that ran and then those at the   *)
(* front of the queue, and a request to exit comes after them.             *)
(***************************************************************************)
EXTENDS NioEventLoopThread, SequenceTheorems, TLAPS

Fresh == thread \in {"none", "init", "ready"}
Over  == thread \in {"leaving", "left", "cleared", "ended"}

(* How many early tasks still wait.                                        *)
Behind == Len(early) - Len(ran)

QueueInv ==
    /\ Len(ran) >= Len(early) \/ ~Over
    /\ \A i \in 1..Len(early) : i <= Len(ran) => ran[i] = early[i]
    /\ ~Over =>
        /\ Len(ran) <= Len(early)
        /\ Behind <= Len(queue)
        /\ \A i \in 1..Behind : queue[i] = early[Len(ran) + i]
        /\ Behind < Len(queue) => queue[Behind + 1] = Exit

(* Someone asked for the exit that is waiting or was taken.                *)
OwnerInv ==
    /\ Fresh => owner \in {"new", "waiting"}
    /\ owner = "new" => thread = "none"
    /\ owner = "skipped" => thread \in {"cleared", "ended"}
    /\ Exit \in Range(queue) \/ Over => userStop \/ owner \in {"joining", "joined"}
    /\ FaultCause

IInv == TypeOK /\ QueueInv /\ OwnerInv
-----------------------------------------------------------------------------
(* Facts about the queue.                                                  *)

LEMMA AppendRange ==
  ASSUME NEW S, NEW s \in Seq(S), NEW e \in S
  PROVE  /\ Append(s, e) \in Seq(S)
         /\ Range(Append(s, e)) = Range(s) \cup {e}
         /\ Len(Append(s, e)) = Len(s) + 1
         /\ \A i \in 1..Len(s) : Append(s, e)[i] = s[i]
         /\ Append(s, e)[Len(s) + 1] = e
<1>1. /\ Append(s, e) \in Seq(S)
      /\ Len(Append(s, e)) = Len(s) + 1
      /\ \A i \in 1..Len(s) : Append(s, e)[i] = s[i]
      /\ Append(s, e)[Len(s) + 1] = e
      /\ Len(s) \in Nat
  BY AppendProperties, LenProperties
<1>2. DOMAIN s = 1..Len(s) /\ DOMAIN Append(s, e) = 1..(Len(s) + 1)
  BY <1>1, LenProperties
<1>3. Range(Append(s, e)) = Range(s) \cup {e}
  BY <1>1, <1>2 DEF Range
<1> QED BY <1>1, <1>3

LEMMA TailRange ==
  ASSUME NEW S, NEW s \in Seq(S), s # <<>>
  PROVE  /\ Head(s) = s[1] /\ Head(s) \in S
         /\ Tail(s) \in Seq(S)
         /\ Range(Tail(s)) \subseteq Range(s)
         /\ Len(s) \in Nat \ {0}
         /\ Len(Tail(s)) = Len(s) - 1
         /\ \A i \in 1..(Len(s) - 1) : Tail(s)[i] = s[i + 1]
         /\ Head(s) \in Range(s)
<1>1. /\ Head(s) = s[1] /\ Head(s) \in S
      /\ Tail(s) \in Seq(S)
      /\ Len(s) \in Nat \ {0}
      /\ Len(Tail(s)) = Len(s) - 1
      /\ \A i \in 1..(Len(s) - 1) : Tail(s)[i] = s[i + 1]
  BY HeadTailProperties, LenProperties, EmptySeq
<1>2. DOMAIN s = 1..Len(s) /\ DOMAIN Tail(s) = 1..(Len(s) - 1)
  BY <1>1, LenProperties
<1>3. Range(Tail(s)) \subseteq Range(s)
  BY <1>1, <1>2 DEF Range
<1>4. Head(s) \in Range(s)
  BY <1>1, <1>2 DEF Range
<1> QED BY <1>1, <1>3, <1>4

(* A request to exit goes behind the early tasks, wherever they are.       *)
LEMMA AskedBehind ==
  ASSUME IInv, AskToExit, UNCHANGED <<ran, early>>,
         ~Over => thread' \notin {"leaving", "left", "cleared", "ended"},
         Over => UNCHANGED thread
  PROVE  /\ queue' \in Seq(Task \cup {Exit})
         /\ QueueInv'
<1>1. queue \in Seq(Task \cup {Exit}) /\ ran \in Seq(Task) /\ early \in Seq(Task)
  BY DEF IInv, TypeOK
<1>2. /\ queue' \in Seq(Task \cup {Exit})
      /\ Len(queue') = Len(queue) + 1
      /\ \A i \in 1..Len(queue) : queue'[i] = queue[i]
      /\ queue'[Len(queue) + 1] = Exit
  BY <1>1, AppendRange DEF AskToExit
<1>3. Len(queue) \in Nat /\ Len(ran) \in Nat /\ Len(early) \in Nat
  BY <1>1, LenProperties
<1>4. CASE Over
  BY <1>2, <1>4 DEF IInv, QueueInv, Over
<1>5. CASE ~Over
  <2>1. Behind \in 0..Len(queue) /\ Behind' = Behind
    BY <1>3, <1>5 DEF IInv, QueueInv, Behind
  <2>2. ASSUME NEW i \in 1..Behind
        PROVE  queue'[i] = early[Len(ran) + i]
    <3>1. i \in 1..Len(queue)
      BY <1>3, <2>1
    <3>2. queue[i] = early[Len(ran) + i]
      BY <1>5 DEF IInv, QueueInv
    <3> QED BY <1>2, <3>1, <3>2
  <2>3. queue'[Behind + 1] = Exit
    BY <1>2, <1>3, <1>5, <2>1 DEF IInv, QueueInv
  <2>4. ~Over'
    BY <1>5 DEF Over
  <2> QED BY <1>2, <1>3, <1>5, <2>1, <2>2, <2>3, <2>4 DEF IInv, QueueInv
<1> QED BY <1>2, <1>4, <1>5
-----------------------------------------------------------------------------
LEMMA InitInv == Init => IInv
<1> SUFFICES ASSUME Init PROVE IInv
  OBVIOUS
<1>1. <<>> \in Seq(Task) /\ <<>> \in Seq(Task \cup {Exit}) /\ Len(<<>>) = 0 /\ Range(<<>>) = {}
  BY EmptySeq DEF Range
<1>2. TypeOK
  BY <1>1 DEF Init, TypeOK
<1>3. QueueInv
  BY <1>1 DEF Init, QueueInv, Over, Behind
<1>4. OwnerInv
  BY <1>1 DEF Init, OwnerInv, Over, Fresh, FaultCause
<1> QED BY <1>2, <1>3, <1>4 DEF IInv

(* Steps of the owner that leave the queue alone.                          *)
LEMMA OwnerInvStep ==
  IInv /\ (StartThread \/ Awake \/ Returned \/ OwnGroup \/ StopThread \/ LoadPointer \/ Join)
    => IInv'
<1> SUFFICES ASSUME IInv,
                    StartThread \/ Awake \/ Returned \/ OwnGroup \/ StopThread \/ LoadPointer \/ Join
             PROVE  IInv'
  OBVIOUS
<1>1. UNCHANGED <<queue, ran, early, late, userStop, eventLoop>>
  BY DEF StartThread, Awake, Returned, OwnGroup, StopThread, LoadPointer, Join, Breaks
<1>2. UNCHANGED thread \/ (thread' = "init" /\ owner = "new" /\ owner' = "waiting")
  BY DEF StartThread, Awake, Returned, OwnGroup, StopThread, LoadPointer, Join, Breaks, Owner
<1>3. TypeOK'
  <2>1. /\ owner' \in {"new", "waiting", "awake", "started", "owning", "tested", "loaded",
                       "joined", "skipped"}
        /\ fault' \in {"none", "null", "freed"}
    BY DEF IInv, TypeOK, StartThread, Awake, Returned, OwnGroup, StopThread, LoadPointer, Join,
       Breaks, Owner
  <2>2. /\ thread' \in {"none", "init", "ready", "published", "looping", "leaving", "left",
                         "cleared", "ended"}
        /\ eventLoop' <=> thread' \in {"published", "looping", "leaving", "left"}
    BY <1>1, <1>2 DEF IInv, TypeOK, OwnerInv
  <2> QED BY <1>1, <2>1, <2>2 DEF IInv, TypeOK
<1>4. QueueInv'
  <2>1. Over' <=> Over
    BY <1>2 DEF IInv, OwnerInv, Over
  <2> QED BY <1>1, <2>1 DEF IInv, QueueInv, Behind
<1>5. OwnerInv'
  BY <1>1, <1>2 DEF IInv, TypeOK, OwnerInv, FaultCause, Over, Fresh, StartThread, Awake, Returned,
     OwnGroup, StopThread, LoadPointer, Join, Breaks, Owner, Published, Alive
<1> QED BY <1>3, <1>4, <1>5 DEF IInv

LEMMA ShutdownInv == IInv /\ ShutdownGracefully => IInv'
<1> SUFFICES ASSUME IInv, ShutdownGracefully PROVE IInv'
  OBVIOUS
<1>1. CASE ~Alive
  <2>1. UNCHANGED <<owner, thread, eventLoop, queue, ran, early, late, userStop>> /\ fault' = "freed"
    BY <1>1 DEF ShutdownGracefully, Breaks
  <2>2. TypeOK' /\ QueueInv'
    BY <2>1 DEF IInv, TypeOK, QueueInv, Over, Behind
  <2>3. OwnerInv'
    BY <1>1, <2>1 DEF IInv, TypeOK, OwnerInv, FaultCause, Over, Fresh, Alive, ShutdownGracefully
  <2> QED BY <2>2, <2>3 DEF IInv
<1>2. CASE Alive
  <2>1. /\ AskToExit
        /\ owner = "loaded" /\ owner' = "joining"
        /\ UNCHANGED <<thread, eventLoop, ran, early, late, userStop, fault>>
    BY <1>2 DEF ShutdownGracefully, Owner
  <2>2. queue' \in Seq(Task \cup {Exit}) /\ QueueInv'
    BY <2>1, AskedBehind DEF Over
  <2>3. TypeOK'
    BY <2>1, <2>2 DEF IInv, TypeOK
  <2>4. OwnerInv'
    BY <2>1 DEF IInv, OwnerInv, FaultCause, Over, Fresh
  <2> QED BY <2>2, <2>3, <2>4 DEF IInv
<1> QED BY <1>1, <1>2

LEMMA InitCallbackInv == IInv /\ InitCallback => IInv'
<1> SUFFICES ASSUME IInv, InitCallback PROVE IInv'
  OBVIOUS
<1>1. /\ thread = "init" /\ thread' = "ready"
      /\ UNCHANGED <<owner, eventLoop, ran, early, late, fault>>
  BY DEF InitCallback, Thread
<1>2. CASE UNCHANGED <<queue, userStop>>
  <2>1. TypeOK' /\ QueueInv'
    BY <1>1, <1>2 DEF IInv, TypeOK, QueueInv, Over, Behind
  <2>2. OwnerInv'
    BY <1>1, <1>2 DEF IInv, OwnerInv, FaultCause, Over, Fresh
  <2> QED BY <2>1, <2>2 DEF IInv
<1>3. CASE AskToExit /\ userStop' = TRUE
  <2>1. queue' \in Seq(Task \cup {Exit}) /\ QueueInv'
    BY <1>1, <1>3, AskedBehind DEF Over
  <2>2. TypeOK'
    BY <1>1, <1>3, <2>1 DEF IInv, TypeOK
  <2>3. OwnerInv'
    BY <1>1, <1>3 DEF IInv, OwnerInv, FaultCause, Over, Fresh
  <2> QED BY <2>1, <2>2, <2>3 DEF IInv
<1> QED BY <1>2, <1>3 DEF InitCallback

(* Steps of the thread that leave the queue alone.                         *)
LEMMA ThreadInvStep ==
  IInv /\ (Publish \/ EnterLoop \/ Leave \/ Clear \/ End) => IInv'
<1> SUFFICES ASSUME IInv, Publish \/ EnterLoop \/ Leave \/ Clear \/ End PROVE IInv'
  OBVIOUS
<1>1. UNCHANGED <<owner, queue, ran, early, late, userStop, fault>>
  BY DEF Publish, EnterLoop, Leave, Clear, End, Thread
<1>2. TypeOK'
  <2>1. /\ thread' \in {"published", "looping", "left", "cleared", "ended"}
        /\ eventLoop' \in BOOLEAN
    BY DEF IInv, TypeOK, Publish, EnterLoop, Leave, Clear, End, Thread
  <2>2. eventLoop' <=> thread' \in {"published", "looping", "leaving", "left"}
    <3>1. CASE Publish
      BY <3>1 DEF Publish, Thread
    <3>2. CASE EnterLoop
      BY <3>2 DEF IInv, TypeOK, EnterLoop, Thread
    <3>3. CASE Leave
      BY <3>3 DEF IInv, TypeOK, Leave, Thread
    <3>4. CASE Clear
      BY <3>4 DEF Clear, Thread
    <3>5. CASE End
      BY <3>5 DEF IInv, TypeOK, End, Thread
    <3> QED BY <3>1, <3>2, <3>3, <3>4, <3>5
  <2> QED BY <1>1, <2>1, <2>2 DEF IInv, TypeOK
<1>3. QueueInv'
  BY <1>1 DEF IInv, QueueInv, Over, Behind, Publish, EnterLoop, Leave, Clear, End, Thread
<1>4. OwnerInv'
  BY <1>1 DEF IInv, TypeOK, OwnerInv, FaultCause, Over, Fresh, Publish, EnterLoop, Leave, Clear,
     End, Thread
<1> QED BY <1>2, <1>3, <1>4 DEF IInv

(* The loop takes an early task only while there are any, and the exit     *)
(* only after them.                                                        *)
LEMMA RunNextInv == IInv /\ RunNext => IInv'
<1> SUFFICES ASSUME IInv, RunNext PROVE IInv'
  OBVIOUS
<1>1. /\ thread \in {"looping", "leaving"} /\ queue # <<>> /\ queue' = Tail(queue)
      /\ UNCHANGED <<owner, eventLoop, early, late, userStop, fault>>
  BY DEF RunNext
<1>2. queue \in Seq(Task \cup {Exit}) /\ ran \in Seq(Task) /\ early \in Seq(Task)
  BY DEF IInv, TypeOK
<1>3. Len(ran) \in Nat /\ Len(early) \in Nat
  BY <1>2, LenProperties
<1>4. /\ Head(queue) = queue[1] /\ Head(queue) \in Task \cup {Exit}
      /\ queue' \in Seq(Task \cup {Exit})
      /\ Range(queue') \subseteq Range(queue)
      /\ Len(queue) \in Nat \ {0}
      /\ Len(queue') = Len(queue) - 1
      /\ \A i \in 1..(Len(queue) - 1) : queue'[i] = queue[i + 1]
      /\ Head(queue) \in Range(queue)
  BY <1>1, <1>2, TailRange
<1>5. CASE Head(queue) = Exit
  <2>1. thread' = "leaving" /\ ran' = ran
    BY <1>5 DEF RunNext
  <2>2. Len(ran) >= Len(early)
    <3>1. CASE Over
      BY <3>1 DEF IInv, QueueInv
    <3>2. CASE ~Over
      <4>1. /\ Behind >= 0
            /\ \A i \in 1..Behind : queue[i] = early[Len(ran) + i]
        BY <1>3, <3>2 DEF IInv, QueueInv, Behind
      <4>2. SUFFICES ASSUME Behind > 0 PROVE FALSE
        BY <1>3 DEF Behind
      <4>3. queue[1] = early[Len(ran) + 1] /\ Len(ran) + 1 \in 1..Len(early)
        BY <1>3, <4>1, <4>2 DEF Behind
      <4>4. early[Len(ran) + 1] \in Task
        BY <1>2, <4>3, ElementOfSeq
      <4> QED BY <1>4, <1>5, <4>3, <4>4, ExitAssumption
    <3> QED BY <3>1, <3>2
  <2>3. QueueInv'
    BY <1>1, <2>1, <2>2 DEF IInv, QueueInv, Over
  <2>4. TypeOK'
    BY <1>1, <1>4, <2>1 DEF IInv, TypeOK
  <2>5. OwnerInv'
    BY <1>1, <1>4, <1>5, <2>1 DEF IInv, OwnerInv, FaultCause, Over, Fresh
  <2> QED BY <2>3, <2>4, <2>5 DEF IInv
<1>6. CASE Head(queue) # Exit
  <2>1. thread' = thread /\ ran' = Append(ran, Head(queue))
    BY <1>6 DEF RunNext
  <2>2. /\ ran' \in Seq(Task)
        /\ Len(ran') = Len(ran) + 1
        /\ \A i \in 1..Len(ran) : ran'[i] = ran[i]
        /\ ran'[Len(ran) + 1] = queue[1]
    BY <1>2, <1>4, <1>6, <2>1, AppendRange
  <2>3. TypeOK'
    BY <1>1, <1>4, <2>1, <2>2 DEF IInv, TypeOK
  <2>4. OwnerInv'
    BY <1>1, <1>4, <2>1 DEF IInv, OwnerInv, FaultCause, Over, Fresh
  <2>5. QueueInv'
    <3>1. CASE Over
      <4>1. \A i \in 1..Len(early) : ran'[i] = early[i]
        BY <1>3, <2>2, <3>1 DEF IInv, QueueInv
      <4>2. Over' /\ Len(ran') >= Len(early')
        BY <1>1, <1>3, <2>1, <2>2, <3>1 DEF IInv, QueueInv, Over
      <4> QED BY <1>1, <4>1, <4>2 DEF QueueInv
    <3>2. CASE ~Over
      <4>1. /\ Len(ran) <= Len(early)
            /\ Behind \in 0..Len(queue)
            /\ \A i \in 1..Behind : queue[i] = early[Len(ran) + i]
            /\ Behind < Len(queue) => queue[Behind + 1] = Exit
            /\ \A i \in 1..Len(early) : i <= Len(ran) => ran[i] = early[i]
        BY <1>3, <1>4, <3>2 DEF IInv, QueueInv, Behind
      <4>2. Behind > 0
        BY <1>4, <1>6, <4>1
      <4>3. Behind' = Behind - 1
        BY <1>1, <1>3, <2>2 DEF Behind
      <4>4. queue[1] = early[Len(ran) + 1]
        BY <4>1, <4>2
      <4>5. ASSUME NEW i \in 1..Len(early), i <= Len(ran')
            PROVE  ran'[i] = early[i]
        <5>1. CASE i <= Len(ran)
          BY <1>3, <2>2, <4>1, <5>1
        <5>2. CASE i = Len(ran) + 1
          BY <2>2, <4>4, <5>2
        <5> QED BY <1>3, <2>2, <4>5, <5>1, <5>2
      <4>6. ASSUME NEW i \in 1..(Behind - 1)
            PROVE  queue'[i] = early[Len(ran') + i]
        <5>1. i + 1 \in 1..Behind /\ i \in 1..(Len(queue) - 1)
          BY <1>4, <4>1, <4>2
        <5>2. queue'[i] = queue[i + 1] /\ queue[i + 1] = early[Len(ran) + (i + 1)]
          BY <1>4, <4>1, <5>1
        <5>3. Len(ran) + (i + 1) = Len(ran') + i
          BY <1>3, <2>2, <4>1
        <5> QED BY <5>2, <5>3
      <4>7. Behind - 1 < Len(queue') => queue'[Behind] = Exit
        <5>1. SUFFICES ASSUME Behind < Len(queue) PROVE queue'[Behind] = Exit
          BY <1>4, <4>1
        <5>2. Behind \in 1..(Len(queue) - 1) /\ queue[Behind + 1] = Exit
          BY <1>4, <4>1, <4>2, <5>1
        <5> QED BY <1>4, <5>2
      <4>8. Len(ran') <= Len(early) /\ Behind - 1 <= Len(queue')
        BY <1>3, <1>4, <2>2, <4>1, <4>2 DEF Behind
      <4>9. Behind - 1 + 1 = Behind
        BY <4>1
      <4>10. ~Over'
        BY <2>1, <3>2 DEF Over
      <4> QED BY <1>1, <4>3, <4>5, <4>6, <4>7, <4>8, <4>9, <4>10 DEF QueueInv
    <3> QED BY <3>1, <3>2
  <2> QED BY <2>3, <2>4, <2>5 DEF IInv
<1> QED BY <1>5, <1>6

(* A task that comes before any request to exit is early, and last of the  *)
(* early ones.                                                             *)
LEMMA ExecuteInv == ASSUME NEW t \in Task PROVE IInv /\ Execute(t) => IInv'
<1> SUFFICES ASSUME IInv, Execute(t) PROVE IInv'
  OBVIOUS
<1>1. HasPointer /\ UNCHANGED <<owner, thread, eventLoop, ran, userStop>>
  BY DEF Execute
<1>2. queue \in Seq(Task \cup {Exit}) /\ ran \in Seq(Task) /\ early \in Seq(Task) /\ late \subseteq Task
  BY DEF IInv, TypeOK
<1>3. Len(queue) \in Nat /\ Len(ran) \in Nat /\ Len(early) \in Nat
  BY <1>2, LenProperties
<1>4. CASE ~Alive
  <2>1. late' = late \cup {t} /\ fault' = "freed" /\ UNCHANGED <<queue, early>>
    BY <1>4 DEF Execute
  <2>2. TypeOK'
    BY <1>1, <1>2, <2>1 DEF IInv, TypeOK
  <2>3. QueueInv'
    BY <1>1, <2>1 DEF IInv, QueueInv, Over, Behind
  <2>4. OwnerInv'
    BY <1>1, <1>4, <2>1 DEF IInv, TypeOK, OwnerInv, FaultCause, Over, Fresh, Alive, HasPointer
  <2> QED BY <2>2, <2>3, <2>4 DEF IInv
<1>5. CASE Alive
  <2>1. Enqueue(t) /\ UNCHANGED fault
    BY <1>5 DEF Execute
  <2>2. /\ queue' \in Seq(Task \cup {Exit})
        /\ Range(queue') = Range(queue) \cup {t}
        /\ Len(queue') = Len(queue) + 1
        /\ \A i \in 1..Len(queue) : queue'[i] = queue[i]
        /\ queue'[Len(queue) + 1] = t
    BY <1>2, <2>1, AppendRange DEF Enqueue
  <2>3. t # Exit
    BY ExitAssumption
  <2>4. OwnerInv'
    BY <1>1, <2>1, <2>2, <2>3 DEF IInv, OwnerInv, FaultCause, Over, Fresh
  <2>5. CASE Exiting
    <3>1. late' = late \cup {t} /\ early' = early
      BY <1>5, <2>5 DEF Execute
    <3>2. TypeOK'
      BY <1>1, <1>2, <2>1, <2>2, <3>1 DEF IInv, TypeOK
    <3>3. ASSUME Over PROVE QueueInv'
      BY <1>1, <3>1, <3>3 DEF IInv, QueueInv, Over
    <3>4. ASSUME ~Over PROVE QueueInv'
      <4>1. /\ Len(ran) <= Len(early)
            /\ Behind \in 0..Len(queue)
            /\ \A i \in 1..Behind : queue[i] = early[Len(ran) + i]
            /\ Behind < Len(queue) => queue[Behind + 1] = Exit
        BY <1>3, <3>4 DEF IInv, QueueInv, Behind
      <4>2. Exit \in Range(queue)
        BY <2>5, <3>4 DEF Exiting, Over
      <4>3. PICK k \in 1..Len(queue) : queue[k] = Exit
        BY <1>2, <4>2, LenProperties DEF Range
      <4>4. Behind < Len(queue)
        <5>1. SUFFICES ASSUME Behind = Len(queue) PROVE FALSE
          BY <1>3, <4>1
        <5>2. queue[k] = early[Len(ran) + k] /\ Len(ran) + k \in 1..Len(early)
          BY <1>3, <4>1, <5>1 DEF Behind
        <5>3. early[Len(ran) + k] \in Task
          BY <1>2, <5>2, ElementOfSeq
        <5> QED BY <4>3, <5>2, <5>3, ExitAssumption
      <4>5. Behind' = Behind
        BY <1>1, <3>1 DEF Behind
      <4>6. ASSUME NEW i \in 1..Behind PROVE queue'[i] = early[Len(ran) + i]
        <5>1. i \in 1..Len(queue)
          BY <1>3, <4>1
        <5> QED BY <2>2, <4>1, <5>1
      <4>7. queue'[Behind + 1] = Exit
        <5>1. Behind + 1 \in 1..Len(queue)
          BY <1>3, <4>1, <4>4
        <5> QED BY <2>2, <4>1, <4>4, <5>1
      <4>8. ~Over' /\ Behind <= Len(queue')
        BY <1>1, <1>3, <2>2, <3>4, <4>1 DEF Over
      <4> QED BY <1>1, <3>1, <4>1, <4>5, <4>6, <4>7, <4>8 DEF IInv, QueueInv
    <3> QED BY <2>4, <3>2, <3>3, <3>4 DEF IInv
  <2>6. CASE ~Exiting
    <3>1. early' = Append(early, t) /\ late' = late
      BY <1>5, <2>6 DEF Execute
    <3>2. /\ early' \in Seq(Task)
          /\ Len(early') = Len(early) + 1
          /\ \A i \in 1..Len(early) : early'[i] = early[i]
          /\ early'[Len(early) + 1] = t
      BY <1>2, <3>1, AppendRange
    <3>3. TypeOK'
      BY <1>1, <1>2, <2>1, <2>2, <3>1, <3>2 DEF IInv, TypeOK
    <3>4. ~Over /\ ~Over' /\ Exit \notin Range(queue)
      BY <1>1, <2>6 DEF Exiting, Over
    <3>5. /\ Len(ran) <= Len(early)
          /\ Behind \in 0..Len(queue)
          /\ \A i \in 1..Behind : queue[i] = early[Len(ran) + i]
          /\ Behind < Len(queue) => queue[Behind + 1] = Exit
          /\ \A i \in 1..Len(early) : i <= Len(ran) => ran[i] = early[i]
      BY <1>3, <3>4 DEF IInv, QueueInv, Behind
    <3>6. Behind = Len(queue)
      <4>1. SUFFICES ASSUME Behind < Len(queue) PROVE FALSE
        BY <1>3, <3>5
      <4>2. Behind + 1 \in DOMAIN queue
        BY <1>2, <1>3, <3>5, <4>1, LenProperties
      <4> QED BY <3>4, <3>5, <4>1, <4>2 DEF Range
    <3>7. Behind' = Len(queue) + 1 /\ Len(early) = Len(ran) + Len(queue)
      BY <1>1, <1>3, <3>2, <3>6 DEF Behind
    <3>8. ASSUME NEW i \in 1..(Len(queue) + 1) PROVE queue'[i] = early'[Len(ran) + i]
      <4>1. CASE i \in 1..Len(queue)
        <5>1. Len(ran) + i \in 1..Len(early)
          BY <1>3, <3>7, <4>1
        <5> QED BY <2>2, <3>2, <3>5, <3>6, <4>1, <5>1
      <4>2. CASE i = Len(queue) + 1
        <5>1. Len(ran) + i = Len(early) + 1
          BY <1>3, <3>7, <4>2
        <5> QED BY <2>2, <3>2, <4>2, <5>1
      <4> QED BY <1>3, <4>1, <4>2
    <3>9. ASSUME NEW i \in 1..Len(early'), i <= Len(ran) PROVE ran[i] = early'[i]
      <4>1. i \in 1..Len(early)
        BY <1>3, <3>5, <3>9
      <4> QED BY <3>2, <3>5, <3>9, <4>1
    <3>10. Len(ran') <= Len(early') /\ Behind' <= Len(queue') /\ ~(Behind' < Len(queue'))
      BY <1>1, <1>3, <2>2, <3>2, <3>5, <3>7
    <3>11. QueueInv'
      BY <1>1, <3>4, <3>7, <3>8, <3>9, <3>10 DEF QueueInv
    <3> QED BY <2>4, <3>3, <3>11 DEF IInv
  <2> QED BY <2>5, <2>6
<1> QED BY <1>4, <1>5

LEMMA UserShutdownInv == IInv /\ UserShutdown => IInv'
<1> SUFFICES ASSUME IInv, UserShutdown PROVE IInv'
  OBVIOUS
<1>1. /\ userStop' = TRUE /\ HasPointer
      /\ UNCHANGED <<owner, thread, eventLoop, ran, early, late>>
  BY DEF UserShutdown
<1>2. CASE Alive /\ AskToExit /\ UNCHANGED fault
  <2>1. queue' \in Seq(Task \cup {Exit}) /\ QueueInv'
    BY <1>1, <1>2, AskedBehind DEF Over
  <2>2. TypeOK'
    BY <1>1, <1>2, <2>1 DEF IInv, TypeOK
  <2>3. OwnerInv'
    BY <1>1, <1>2 DEF IInv, OwnerInv, FaultCause, Over, Fresh
  <2> QED BY <2>1, <2>2, <2>3 DEF IInv
<1>3. CASE ~Alive /\ fault' = "freed" /\ UNCHANGED queue
  <2>1. TypeOK' /\ QueueInv'
    BY <1>1, <1>3 DEF IInv, TypeOK, QueueInv, Over, Behind
  <2>2. OwnerInv'
    BY <1>1, <1>3 DEF IInv, OwnerInv, FaultCause, Over, Fresh
  <2> QED BY <2>1, <2>2 DEF IInv
<1> QED BY <1>2, <1>3 DEF UserShutdown

LEMMA SpecInv == Spec => []IInv
<1>1. IInv /\ [Next]_vars => IInv'
  <2>1. IInv /\ UNCHANGED vars => IInv'
    BY DEF vars, IInv, TypeOK, QueueInv, OwnerInv, FaultCause, Over, Fresh, Behind
  <2> QED BY <2>1, OwnerInvStep, ShutdownInv, InitCallbackInv, ThreadInvStep, RunNextInv,
             ExecuteInv, UserShutdownInv DEF Next, OwnerSteps, ThreadSteps
<1> QED BY <1>1, InitInv, PTL DEF Spec
-----------------------------------------------------------------------------
(* What was given to the loop before anyone asked it to exit has run, in   *)
(* order, when the loop is left, for any tasks, users and timing.          *)
THEOREM EarlyTasksRun == Spec => []EarlyTasksRan
<1>1. IInv => EarlyTasksRan
  <2> SUFFICES ASSUME IInv, thread \in {"left", "cleared", "ended"}
               PROVE  Len(ran) >= Len(early) /\ SubSeq(ran, 1, Len(early)) = early
    BY DEF EarlyTasksRan
  <2>1. ran \in Seq(Task) /\ early \in Seq(Task)
    BY DEF IInv, TypeOK
  <2>2. Len(ran) \in Nat /\ Len(early) \in Nat
    BY <2>1, LenProperties
  <2>3. /\ Len(ran) >= Len(early)
        /\ \A i \in 1..Len(early) : ran[i] = early[i]
    BY <2>2 DEF IInv, QueueInv, Over
  <2>4. /\ SubSeq(ran, 1, Len(early)) \in Seq(Task)
        /\ Len(SubSeq(ran, 1, Len(early))) = Len(early)
        /\ \A i \in 1..Len(early) : SubSeq(ran, 1, Len(early))[i] = early[i]
    BY <2>1, <2>2, <2>3
  <2>5. SubSeq(ran, 1, Len(early)) = early
    BY <2>1, <2>4, SeqEqual
  <2> QED BY <2>3, <2>5
<1> QED BY <1>1, SpecInv, PTL

(* When stopThread() does not join, the thread is past its last access,    *)
(* and every variable keeps its type.                                      *)
THEOREM SkippingIsSafe == Spec => []SkipIsSafe
<1>1. IInv => SkipIsSafe
  BY DEF IInv, OwnerInv, SkipIsSafe
<1> QED BY <1>1, SpecInv, PTL

(* A dead loop or a null pointer is used only when a user shuts the loop   *)
(* down himself, or by those who come after the owner asked it to stop.    *)
THEOREM FaultsHaveCauses == Spec => []FaultCause
<1>1. IInv => FaultCause
  BY DEF IInv, OwnerInv
<1> QED BY <1>1, SpecInv, PTL
=============================================================================

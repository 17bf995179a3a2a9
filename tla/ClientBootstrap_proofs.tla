------------------------ MODULE ClientBootstrap_proofs ------------------------
(***************************************************************************)
(* Theorems about ClientBootstrap, for any number of attempts and calls of *)
(* connect(), whoever makes them and whether users keep the channels.      *)
(*                                                                         *)
(* Each call of connect() pays for one queued task, attempt, timer or      *)
(* channel, and no handler makes two of one: that is Pending <= connects.  *)
(* With a single call it leaves room for one of them only, which makes the *)
(* books exact, and exact books are what keeps the program from breaking.  *)
(***************************************************************************)
EXTENDS ClientBootstrap, FiniteSetTheorems, SequenceTheorems, TLAPS

(* The queued calls of connectInLoop().                                    *)
Queued == {i \in DOMAIN tasks : tasks[i].op = "connect"}

FinInv == IsFiniteSet(live) /\ IsFiniteSet(channels)

(* channel_ and be_ against the open channels, whatever users do.          *)
ChanInv ==
    /\ be \notin channels
    /\ channel \in channels \cup {None}
    /\ boot = "dead" => channel = None
    /\ load = Cardinality(channels)

(* Before the destructor queues anything there is only connectInLoop().    *)
TaskInv ==
    /\ boot # "dead" => swapped = {} /\ \A i \in 1..Len(tasks) : tasks[i].op = "connect"
    /\ "other" \notin Users => tasks = <<>> /\ boot # "dying"
    /\ connects >= 1 /\ boot = "alive" => wanted

(* After one call of connect().                                            *)
BooksInv ==
    connects <= 1 /\ boot # "dead" =>
        /\ live = {be} \ {None}
        /\ channels = {channel} \ {None}
        /\ channels \subseteq done
        /\ leaked = {}

(* What ~ClientBootstrap in the loop thread leaves behind then.            *)
DeadInv ==
    "other" \notin Users /\ connects <= 1 /\ boot = "dead" /\ fault = "none" =>
        live = {} /\ channels \subseteq swapped

IInv ==
    /\ TypeOK
    /\ FinInv
    /\ ChanInv
    /\ TaskInv
    /\ BooksInv
    /\ DeadInv
    /\ OneChain
    /\ FaultCause

ConnectorType ==
    /\ wanted \in BOOLEAN
    /\ be \in Attempt \cup {None}
    /\ delay \in Delays
    /\ live \subseteq Attempt
    /\ leaked \subseteq Attempt
    /\ timers \in Seq(0..30)
    /\ done \subseteq Attempt

HolderType ==
    /\ channel \in Attempt \cup {None}
    /\ channels \subseteq Attempt
    /\ swapped \subseteq channels
    /\ load \in Nat

TasksType == tasks \in Seq(Task)

RestType ==
    /\ retry \in BOOLEAN
    /\ found \in Attempt \cup {None}
    /\ boot \in {"alive", "dying", "dead"}
    /\ server \in {"up", "refusing", "silent"}
    /\ connects \in 0..MaxConnects
    /\ resting \in BOOLEAN

FaultType == fault \in {"none", "stale", "config", "freed", "bootstrap", "lost"}

LEMMA TypeGroups == TypeOK <=> ConnectorType /\ HolderType /\ TasksType /\ RestType /\ FaultType
BY DEF TypeOK, ConnectorType, HolderType, TasksType, RestType, FaultType
-----------------------------------------------------------------------------
(* Facts about sets and sequences.                                         *)

LEMMA TailFacts ==
  ASSUME NEW S, NEW s \in Seq(S), s # <<>>
  PROVE  /\ Head(s) = s[1] /\ Head(s) \in S
         /\ Tail(s) \in Seq(S)
         /\ Len(s) \in Nat \ {0}
         /\ Len(Tail(s)) = Len(s) - 1
         /\ \A i \in 1..(Len(s) - 1) : Tail(s)[i] = s[i + 1]
BY HeadTailProperties, LenProperties, EmptySeq

LEMMA AppendFacts ==
  ASSUME NEW S, NEW s \in Seq(S), NEW e \in S
  PROVE  /\ Append(s, e) \in Seq(S)
         /\ Len(s) \in Nat
         /\ Len(Append(s, e)) = Len(s) + 1
         /\ \A i \in 1..Len(s) : Append(s, e)[i] = s[i]
         /\ Append(s, e)[Len(s) + 1] = e
BY AppendProperties, LenProperties

LEMMA RemovedOne ==
  ASSUME NEW S, NEW s \in Seq(S), NEW i \in DOMAIN s
  PROVE  /\ RemoveAt(s, i) \in Seq(S)
         /\ Len(s) \in Nat \ {0}
         /\ Len(RemoveAt(s, i)) = Len(s) - 1
<1>1. Len(s) \in Nat /\ i \in 1..Len(s) /\ Len(s) # 0
  BY LenProperties
<1>2. \A j \in 1..Len(s) : s[j] \in S
  BY ElementOfSeq
<1>3. /\ SubSeq(s, 1, i - 1) \in Seq(S)
      /\ Len(SubSeq(s, 1, i - 1)) = i - 1
  BY <1>1, <1>2, SubSeqProperties
<1>4. /\ SubSeq(s, i + 1, Len(s)) \in Seq(S)
      /\ Len(SubSeq(s, i + 1, Len(s))) = Len(s) - i
  BY <1>1, <1>2, SubSeqProperties
<1>5. RemoveAt(s, i) = SubSeq(s, 1, i - 1) \o SubSeq(s, i + 1, Len(s))
  BY DEF RemoveAt
<1>6. /\ RemoveAt(s, i) \in Seq(S)
      /\ Len(RemoveAt(s, i)) = Len(SubSeq(s, 1, i - 1)) + Len(SubSeq(s, i + 1, Len(s)))
  BY ONLY <1>3, <1>4, <1>5, ConcatProperties
<1>7. Len(RemoveAt(s, i)) = (i - 1) + (Len(s) - i)
  <2>1. PICK m, n : m = Len(SubSeq(s, 1, i - 1)) /\ n = Len(SubSeq(s, i + 1, Len(s)))
    OBVIOUS
  <2>2. Len(RemoveAt(s, i)) = m + n
    BY ONLY <1>6, <2>1
  <2>3. m = i - 1 /\ n = Len(s) - i
    BY ONLY <1>3, <1>4, <2>1
  <2> QED BY ONLY <2>2, <2>3
<1>8. (i - 1) + (Len(s) - i) = Len(s) - 1 /\ Len(s) \in Nat \ {0}
  BY <1>1
<1>9. Len(RemoveAt(s, i)) = Len(s) - 1
  BY ONLY <1>7, <1>8
<1> QED BY ONLY <1>6, <1>8, <1>9

LEMMA EmptyLen ==
  ASSUME NEW S, NEW s \in Seq(S)
  PROVE  Len(s) \in Nat /\ (Len(s) = 0 <=> s = <<>>)
BY LenProperties, EmptySeq

(* The indices of the tasks of a kind, as the queue changes.               *)
Chosen(s) == {i \in DOMAIN s : s[i].op = "connect"}

LEMMA ChosenFinite ==
  ASSUME NEW s \in Seq(Task)
  PROVE  /\ IsFiniteSet(Chosen(s)) /\ Cardinality(Chosen(s)) \in Nat
         /\ Chosen(s) \subseteq 1..Len(s)
<1>1. Len(s) \in Nat /\ DOMAIN s = 1..Len(s)
  BY LenProperties
<1>2. IsFiniteSet(1..Len(s)) /\ Chosen(s) \in SUBSET (1..Len(s))
  BY <1>1, FS_Interval DEF Chosen
<1> QED BY <1>2, FS_Subset, FS_CardinalityType

LEMMA ChosenAppend ==
  ASSUME NEW s \in Seq(Task), NEW task \in Task
  PROVE  Cardinality(Chosen(Append(s, task))) =
            Cardinality(Chosen(s)) + (IF task.op = "connect" THEN 1 ELSE 0)
<1>1. /\ Len(s) \in Nat /\ DOMAIN s = 1..Len(s)
      /\ DOMAIN Append(s, task) = 1..(Len(s) + 1)
      /\ \A i \in 1..Len(s) : Append(s, task)[i] = s[i]
      /\ Append(s, task)[Len(s) + 1] = task
  BY AppendFacts, LenProperties
<1>2. Chosen(Append(s, task)) =
         IF task.op = "connect" THEN Chosen(s) \cup {Len(s) + 1} ELSE Chosen(s)
  BY <1>1 DEF Chosen
<1>3. Len(s) + 1 \notin Chosen(s)
  BY <1>1 DEF Chosen
<1>4. PICK S : S = Chosen(s)
  OBVIOUS
<1>5. IsFiniteSet(S) /\ Cardinality(S) \in Nat /\ Len(s) + 1 \notin S
  BY <1>3, <1>4, ChosenFinite
<1>6. Cardinality(S \cup {Len(s) + 1}) = Cardinality(S) + 1
  BY <1>5, FS_AddElement
<1> QED BY <1>2, <1>4, <1>5, <1>6

LEMMA ChosenTail ==
  ASSUME NEW s \in Seq(Task), s # <<>>
  PROVE  Cardinality(Chosen(s)) =
            Cardinality(Chosen(Tail(s))) + (IF Head(s).op = "connect" THEN 1 ELSE 0)
<1>1. /\ Head(s) = s[1] /\ Len(s) \in Nat \ {0}
      /\ DOMAIN s = 1..Len(s) /\ DOMAIN Tail(s) = 1..(Len(s) - 1)
      /\ \A i \in 1..(Len(s) - 1) : Tail(s)[i] = s[i + 1]
  BY TailFacts, LenProperties
<1>2. PICK T : T = Chosen(s) \ {1}
  OBVIOUS
<1>3. PICK f : f = [i \in Chosen(Tail(s)) |-> i + 1]
  OBVIOUS
<1>4. /\ Chosen(Tail(s)) \subseteq 1..(Len(s) - 1)
      /\ \A i \in 1..(Len(s) - 1) : i \in Chosen(Tail(s)) <=> i + 1 \in Chosen(s)
      /\ \A j \in T : j - 1 \in 1..(Len(s) - 1) /\ (j - 1) + 1 = j
      /\ \A i \in 1..(Len(s) - 1) : i + 1 # 1 /\ i \in Int
  BY <1>1, <1>2 DEF Chosen
<1>5. f \in [Chosen(Tail(s)) -> T]
  BY <1>2, <1>3, <1>4
<1>6. \A i, j \in Chosen(Tail(s)) : f[i] = f[j] => i = j
  BY <1>3, <1>4
<1>7. \A j \in T : \E i \in Chosen(Tail(s)) : f[i] = j
  <2> SUFFICES ASSUME NEW j \in T PROVE \E i \in Chosen(Tail(s)) : f[i] = j
    OBVIOUS
  <2>1. j - 1 \in Chosen(Tail(s)) /\ (j - 1) + 1 = j
    BY <1>2, <1>4
  <2> QED BY <1>3, <2>1
<1>8. ExistsBijection(Chosen(Tail(s)), T)
  BY <1>5, <1>6, <1>7 DEF ExistsBijection, Bijection, Injection, Surjection, IsInjective
<1>9. Tail(s) \in Seq(Task)
  BY TailFacts
<1>10. IsFiniteSet(T) /\ Cardinality(T) = Cardinality(Chosen(Tail(s)))
  BY <1>8, <1>9, ChosenFinite, FS_Bijection
<1>11. 1 \in Chosen(s) <=> Head(s).op = "connect"
  BY <1>1 DEF Chosen
<1>12. /\ IsFiniteSet(Chosen(s)) /\ Cardinality(Chosen(s)) \in Nat
       /\ Cardinality(T) = IF 1 \in Chosen(s) THEN Cardinality(Chosen(s)) - 1 ELSE Cardinality(Chosen(s))
  BY <1>2, ChosenFinite, FS_RemoveElement
<1> QED BY <1>10, <1>11, <1>12
-----------------------------------------------------------------------------
(* The four kinds of what is pending.                                      *)

LEMMA Sizes ==
  ASSUME IInv
  PROVE  /\ Cardinality(live) \in Nat /\ (Cardinality(live) = 0 <=> live = {})
         /\ Cardinality(channels) \in Nat /\ (Cardinality(channels) = 0 <=> channels = {})
         /\ Len(timers) \in Nat /\ (Len(timers) = 0 <=> timers = <<>>)
         /\ Cardinality(Queued) \in Nat
         /\ connects \in Nat
         /\ Pending = Cardinality(live) + Cardinality(channels) + Len(timers) + Cardinality(Queued)
<1>1. Cardinality(live) \in Nat /\ Cardinality(channels) \in Nat
  BY FS_CardinalityType DEF IInv, FinInv
<1>2. (Cardinality(live) = 0 <=> live = {}) /\ (Cardinality(channels) = 0 <=> channels = {})
  BY FS_EmptySet DEF IInv, FinInv
<1>3. timers \in Seq(0..30) /\ tasks \in Seq(Task) /\ connects \in Nat
  BY MaxConnectsAssumption DEF IInv, TypeOK
<1>4. Len(timers) \in Nat /\ (Len(timers) = 0 <=> timers = <<>>)
  BY <1>3, EmptyLen
<1>5. Cardinality(Queued) \in Nat
  BY <1>3, ChosenFinite DEF Queued, Chosen
<1> QED BY <1>1, <1>2, <1>3, <1>4, <1>5 DEF Pending, Queued

LEMMA PendingBound ==
  ASSUME IInv
  PROVE  Pending \in Nat /\ Pending <= connects /\ connects \in Nat
<1>1. PICK a \in Nat, b \in Nat, c \in Nat, d \in Nat :
         a = Cardinality(live) /\ b = Cardinality(channels) /\ c = Len(timers) /\ d = Cardinality(Queued)
  BY Sizes
<1>2. Pending = a + b + c + d
  BY <1>1, Sizes
<1>3. Pending <= connects /\ connects \in Nat
  BY Sizes DEF IInv, OneChain
<1> QED BY <1>2, <1>3

LEMMA PendingMoves ==
  ASSUME IInv, NEW m \in Int, NEW n \in Int, NEW p \in Int, NEW q \in Int,
         Cardinality(live') = Cardinality(live) + m,
         Cardinality(channels') = Cardinality(channels) + n,
         Len(timers') = Len(timers) + p,
         Cardinality(Queued') = Cardinality(Queued) + q
  PROVE  Pending' = Pending + (m + n + p + q)
<1>1. PICK a \in Nat, b \in Nat, c \in Nat, d \in Nat :
         a = Cardinality(live) /\ b = Cardinality(channels) /\ c = Len(timers) /\ d = Cardinality(Queued)
  BY Sizes
<1>2. Pending = a + b + c + d
  BY <1>1, Sizes
<1>3. Pending' = Cardinality(live') + Cardinality(channels') + Len(timers') + Cardinality(Queued')
  BY DEF Pending, Queued
<1>4. Pending' = (a + m) + (b + n) + (c + p) + (d + q)
  BY <1>1, <1>3
<1> QED BY <1>2, <1>4

(* One call leaves room for one thing.                                     *)
LEMMA OnlyOne ==
  ASSUME IInv, connects <= 1
  PROVE  /\ live # {} => channels = {} /\ timers = <<>>
         /\ timers # <<>> => live = {} /\ channels = {} /\ Len(timers) = 1
         /\ channels # {} => live = {} /\ timers = <<>>
         /\ Cardinality(Queued) # 0 => live = {} /\ channels = {} /\ timers = <<>>
         /\ connects = 0 => live = {} /\ channels = {} /\ timers = <<>>
<1>1. Pending <= 1 /\ Pending <= connects
  BY Sizes DEF IInv, OneChain
<1>2. /\ Cardinality(live) + Cardinality(channels) + Len(timers) + Cardinality(Queued) <= 1
      /\ Cardinality(live) + Cardinality(channels) + Len(timers) + Cardinality(Queued) <= connects
      /\ connects \in Nat
  BY <1>1, Sizes
<1>3. PICK a \in Nat, b \in Nat, c \in Nat, d \in Nat :
         a = Cardinality(live) /\ b = Cardinality(channels) /\ c = Len(timers) /\ d = Cardinality(Queued)
  BY Sizes
<1> HIDE DEF Queued
<1>4. a + b + c + d <= 1 /\ a + b + c + d <= connects /\ connects \in Nat
  BY ONLY <1>2, <1>3
<1>5. /\ a # 0 => b = 0 /\ c = 0
      /\ c # 0 => a = 0 /\ b = 0 /\ c = 1
      /\ b # 0 => a = 0 /\ c = 0
      /\ d # 0 => a = 0 /\ b = 0 /\ c = 0
      /\ connects = 0 => a = 0 /\ b = 0 /\ c = 0
  BY ONLY <1>4, a \in Nat, b \in Nat, c \in Nat, d \in Nat
<1>6. (a = 0 <=> live = {}) /\ (b = 0 <=> channels = {}) /\ (c = 0 <=> timers = <<>>)
  BY <1>3, Sizes
<1> QED BY <1>3, <1>5, <1>6
-----------------------------------------------------------------------------
(* What the handlers do to the attempts.                                   *)

LEMMA NoneIsNot == None \notin Attempt
BY NoneAssumption

LEMMA ConnectInLoopFacts ==
  ASSUME IInv, ConnectInLoop
  PROVE  /\ be' \in Attempt /\ be' \notin live \cup leaked \cup channels
         /\ live' = live \cup {be'} /\ leaked' = leaked /\ done' = done \ {be'}
         /\ IsFiniteSet(live') /\ Cardinality(live') = Cardinality(live) + 1
<1>1. PICK a \in Attempt : /\ a \notin live \cup leaked \cup channels
                          /\ be' = a /\ live' = live \cup {a}
                          /\ leaked' = leaked /\ done' = done \ {a}
  <2>1. \E x : x \in Attempt \ (live \cup leaked \cup channels)
    BY DEF ConnectInLoop
  <2> QED BY <2>1 DEF ConnectInLoop
<1>2. PICK S : S = live
  OBVIOUS
<1>3. IsFiniteSet(S) /\ a \notin S
  BY <1>1, <1>2 DEF IInv, FinInv
<1>4. IsFiniteSet(S \cup {a}) /\ Cardinality(S \cup {a}) = Cardinality(S) + 1
  BY <1>3, FS_AddElement
<1> QED BY <1>1, <1>2, <1>4

LEMMA LessLive ==
  ASSUME IInv, live' \subseteq live
  PROVE  IsFiniteSet(live') /\ Cardinality(live') <= Cardinality(live) /\ Cardinality(live') \in Nat
<1>1. PICK S, T : S = live /\ T = live'
  OBVIOUS
<1>2. IsFiniteSet(S) /\ T \in SUBSET S
  BY <1>1 DEF IInv, FinInv
<1>3. IsFiniteSet(T) /\ Cardinality(T) <= Cardinality(S) /\ Cardinality(T) \in Nat
  BY <1>2, FS_Subset, FS_CardinalityType
<1> QED BY <1>1, <1>3

LEMMA ReleaseBeFacts ==
  ASSUME IInv, NEW a \in live, ReleaseBe(a)
  PROVE  /\ be' = None /\ live' = live \ {a, be} /\ leaked' = leaked \cup ({a} \ {be})
         /\ IsFiniteSet(live') /\ Cardinality(live') \in Nat
         /\ Cardinality(live') <= Cardinality(live) - 1
<1>1. be' = None /\ live' = live \ {a, be} /\ leaked' = leaked \cup ({a} \ {be})
  BY DEF ReleaseBe
<1>2. PICK S, T : S = live /\ T = live'
  OBVIOUS
<1>3. IsFiniteSet(S) /\ a \in S /\ T \in SUBSET (S \ {a})
  BY <1>1, <1>2 DEF IInv, FinInv
<1>4. IsFiniteSet(S \ {a}) /\ Cardinality(S \ {a}) = Cardinality(S) - 1
  BY <1>3, FS_RemoveElement
<1>5. IsFiniteSet(T) /\ Cardinality(T) <= Cardinality(S \ {a}) /\ Cardinality(T) \in Nat
  BY <1>3, <1>4, FS_Subset, FS_CardinalityType
<1> QED BY <1>1, <1>2, <1>4, <1>5

LEMMA QueuedKept == ASSUME UNCHANGED tasks PROVE Queued' = Queued
BY DEF Queued

LEMMA QueuedAppend ==
  ASSUME IInv, NEW task \in Task, tasks' = Append(tasks, task)
  PROVE  /\ Cardinality(Queued') = Cardinality(Queued) + (IF task.op = "connect" THEN 1 ELSE 0)
         /\ tasks' \in Seq(Task)
         /\ \A i \in 1..Len(tasks') : tasks'[i] = task \/ (i \in 1..Len(tasks) /\ tasks'[i] = tasks[i])
<1>1. tasks \in Seq(Task)
  BY DEF IInv, TypeOK
<1>2. PICK s \in Seq(Task) : s = tasks
  BY <1>1
<1>3. Queued = Chosen(s) /\ Queued' = Chosen(Append(s, task))
  BY <1>2 DEF Queued, Chosen
<1>4. /\ Append(s, task) \in Seq(Task) /\ Len(s) \in Nat /\ Len(Append(s, task)) = Len(s) + 1
      /\ \A i \in 1..Len(s) : Append(s, task)[i] = s[i]
      /\ Append(s, task)[Len(s) + 1] = task
  BY AppendFacts
<1>5. \A i \in 1..Len(Append(s, task)) :
        Append(s, task)[i] = task \/ (i \in 1..Len(s) /\ Append(s, task)[i] = s[i])
  BY <1>4
<1> QED BY <1>2, <1>3, <1>4, <1>5, ChosenAppend

LEMMA QueuedTail ==
  ASSUME IInv, tasks # <<>>, tasks' = Tail(tasks)
  PROVE  /\ Cardinality(Queued) = Cardinality(Queued') + (IF Head(tasks).op = "connect" THEN 1 ELSE 0)
         /\ Cardinality(Queued') \in Nat
         /\ tasks' \in Seq(Task) /\ Head(tasks) \in Task
         /\ 1 \in 1..Len(tasks) /\ Head(tasks) = tasks[1]
         /\ \A i \in 1..Len(tasks') : i + 1 \in 1..Len(tasks) /\ tasks'[i] = tasks[i + 1]
<1>1. tasks \in Seq(Task)
  BY DEF IInv, TypeOK
<1>2. PICK s \in Seq(Task) : s = tasks
  BY <1>1
<1>3. Queued = Chosen(s) /\ Queued' = Chosen(Tail(s))
  BY <1>2 DEF Queued, Chosen
<1>4. /\ Head(s) = s[1] /\ Head(s) \in Task /\ Tail(s) \in Seq(Task)
      /\ Len(s) \in Nat \ {0} /\ Len(Tail(s)) = Len(s) - 1
      /\ \A i \in 1..(Len(s) - 1) : Tail(s)[i] = s[i + 1]
  BY <1>2, TailFacts
<1>5. \A i \in 1..Len(Tail(s)) : i + 1 \in 1..Len(s) /\ Tail(s)[i] = s[i + 1]
  BY <1>4
<1>6. 1 \in 1..Len(s)
  BY <1>4
<1> QED BY <1>2, <1>3, <1>4, <1>5, <1>6, ChosenTail, ChosenFinite

(* A channel that dies open after one call lives in channel_ only.         *)
LEMMA LostCause ==
  ASSUME fault = "none", LastHolders, BooksInv', connects' \in Nat
  PROVE  fault' \in {"none", "lost"} /\ FaultCause'
<1>1. fault' \in {"none", "lost"}
  BY DEF LastHolders
<1>2. ASSUME fault' = "lost"
      PROVE  ~UserKeeps /\ (boot' = "dead" \/ connects' >= 2)
  <2>1. PICK c \in channels' : ~Held(c)'
    BY <1>2 DEF LastHolders
  <2>2. ~UserKeeps /\ c # channel'
    BY <2>1 DEF Held
  <2>3. ~(connects' <= 1 /\ boot' # "dead")
    BY <2>2 DEF BooksInv
  <2> QED BY <2>2, <2>3
<1> QED BY <1>1, <1>2 DEF FaultCause

(* Steps that change neither attempts nor channels: those that break the   *)
(* program, and those that only concern users and the server.              *)
LEMMA QuietStep ==
  ASSUME IInv,
         UNCHANGED <<be, live, leaked, done, wanted, delay, holder, boot, connects, timers, resting>>,
         retry' \in BOOLEAN, found' \in Attempt \cup {None}, server' \in {"up", "refusing", "silent"},
         UNCHANGED tasks,
         UNCHANGED fault \/ (FaultType' /\ fault' # "none" /\ FaultCause')
  PROVE  IInv'
<1>1. FaultType'
  BY DEF IInv, TypeOK, FaultType
<1>2. TypeOK'
  <2>1. ConnectorType' /\ HolderType' /\ TasksType' /\ RestType'
    BY DEF IInv, TypeOK, ConnectorType, HolderType, TasksType, RestType, holder
  <2> QED BY <1>1, <2>1 DEF TypeOK, ConnectorType, HolderType, TasksType, RestType, FaultType
<1>3. FinInv' /\ ChanInv' /\ TaskInv' /\ BooksInv'
  BY DEF IInv, FinInv, ChanInv, TaskInv, BooksInv, holder
<1>4. fault' = "none" => fault = "none"
  OBVIOUS
<1>5. DeadInv'
  BY <1>4 DEF IInv, DeadInv, holder
<1>6. OneChain'
  BY <1>4 DEF IInv, OneChain, Pending, holder
<1>7. FaultCause'
  BY DEF IInv, FaultCause
<1> QED BY <1>2, <1>3, <1>5, <1>6, <1>7 DEF IInv
-----------------------------------------------------------------------------
(* The steps.                                                              *)

LEMMA InitInv == Init => IInv
<1> SUFFICES ASSUME Init PROVE IInv
  OBVIOUS
<1>1. <<>> \in Seq(0..30) /\ <<>> \in Seq(Task) /\ Len(<<>>) = 0 /\ DOMAIN <<>> = {}
  BY EmptySeq
<1>2. ConnectorType /\ TasksType
  <2>1. wanted \in BOOLEAN
    BY DEF Init
  <2>2. delay \in Delays
    BY DEF Init, Delays, kInitRetryDelayMs
  <2>3. timers \in Seq(0..30) /\ TasksType
    BY <1>1 DEF Init, TasksType
  <2>4. be \in Attempt \cup {None} /\ live \subseteq Attempt /\ leaked \subseteq Attempt /\ done \subseteq Attempt
    BY DEF Init
  <2> QED BY <2>1, <2>2, <2>3, <2>4 DEF ConnectorType
<1>3. HolderType /\ RestType /\ FaultType
  <2>1. connects \in 0..MaxConnects
    BY MaxConnectsAssumption DEF Init
  <2>2. retry \in BOOLEAN /\ resting \in BOOLEAN
    BY DEF Init
  <2>3. HolderType /\ FaultType
    BY DEF Init, HolderType, FaultType
  <2>4. found \in Attempt \cup {None} /\ boot \in {"alive", "dying", "dead"} /\ server \in {"up", "refusing", "silent"}
    BY DEF Init
  <2> QED BY <2>1, <2>2, <2>3, <2>4 DEF RestType
<1>4. TypeOK
  BY <1>2, <1>3, TypeGroups
<1>5. FinInv
  BY FS_EmptySet DEF Init, FinInv
<1>6. ChanInv
  BY FS_EmptySet DEF Init, ChanInv
<1>7. TaskInv
  BY <1>1 DEF Init, TaskInv
<1>8. BooksInv /\ DeadInv /\ FaultCause
  BY DEF Init, BooksInv, DeadInv, FaultCause
<1>9. OneChain
  <2>1. {j \in DOMAIN tasks : tasks[j].op = "connect"} = {}
    BY <1>1 DEF Init
  <2>2. Pending = 0
    BY <1>1, <2>1, FS_EmptySet DEF Init, Pending
  <2> QED BY <2>2 DEF Init, OneChain
<1> QED BY <1>4, <1>5, <1>6, <1>7, <1>8, <1>9 DEF IInv

(* connect(), in the loop or by a task.                                    *)
LEMMA ConnectInv ==
  ASSUME IInv, Connect
  PROVE  IInv'
<1>1. /\ fault = "none" /\ boot = "alive" /\ connects < MaxConnects
      /\ connects' = connects + 1 /\ wanted' = TRUE
      /\ UNCHANGED <<delay, timers, holder, retry, found, boot, server, fault, resting>>
  BY DEF Connect, Running
<1>2. connects \in Nat /\ connects' \in 0..MaxConnects /\ connects' \in Nat
  BY <1>1, MaxConnectsAssumption DEF IInv, TypeOK
<1>3. HolderType' /\ RestType' /\ FaultType'
  BY <1>1, <1>2 DEF IInv, TypeOK, HolderType, RestType, FaultType, holder
<1>4. DeadInv' /\ FaultCause'
  BY <1>1 DEF DeadInv, FaultCause
<1>5. connects' <= 1 => connects = 0 /\ connects <= 1
  BY <1>1, <1>2
<1>6. Pending \in Nat /\ Pending <= connects
  BY PendingBound
<1>7. Pending' = Pending + 1 => OneChain'
  BY <1>1, <1>2, <1>6 DEF OneChain
<1>8. CASE ConnectInLoop /\ UNCHANGED tasks
  <2>1. /\ be' \in Attempt /\ be' \notin channels
        /\ live' = live \cup {be'} /\ leaked' = leaked /\ done' = done \ {be'}
        /\ IsFiniteSet(live') /\ Cardinality(live') = Cardinality(live) + 1
    BY <1>8, ConnectInLoopFacts
  <2>2. TypeOK'
    <3>1. ConnectorType' /\ TasksType'
      BY <1>1, <1>8, <2>1 DEF IInv, TypeOK, ConnectorType, TasksType
    <3> QED BY <1>3, <3>1 DEF TypeOK, ConnectorType, HolderType, TasksType, RestType, FaultType
  <2>3. FinInv' /\ ChanInv' /\ TaskInv'
    BY <1>1, <1>8, <2>1 DEF IInv, FinInv, ChanInv, TaskInv, holder
  <2>4. BooksInv'
    <3>1. ASSUME connects' <= 1
          PROVE  live = {} /\ channels = {} /\ leaked = {}
      BY <1>1, <1>5, <3>1, OnlyOne DEF IInv, BooksInv
    <3>2. be' # None
      BY <2>1, NoneIsNot
    <3>3. ASSUME connects' <= 1
          PROVE  /\ live' = {be'} \ {None} /\ channels' = {channel'} \ {None}
                 /\ channels' \subseteq done' /\ leaked' = {}
      <4>1. channels = {channel} \ {None}
        BY <1>1, <1>5, <3>3 DEF IInv, BooksInv
      <4> QED BY <1>1, <2>1, <3>1, <3>2, <3>3, <4>1 DEF holder
    <3> QED BY <3>3 DEF BooksInv
  <2>5. OneChain'
    <3>1. Queued' = Queued
      BY <1>8, QueuedKept
    <3>2. Pending' = Pending + 1
      <4>1. /\ Cardinality(live') = Cardinality(live) + 1
            /\ Cardinality(channels') = Cardinality(channels) + 0
            /\ Len(timers') = Len(timers) + 0 /\ Cardinality(Queued') = Cardinality(Queued) + 0
        BY <1>1, <2>1, <3>1, Sizes DEF holder
      <4>2. Pending' = Pending + (1 + 0 + 0 + 0)
        BY <4>1, PendingMoves
      <4> QED BY <1>6, <4>2
    <3> QED BY <1>7, <3>2
  <2> QED BY <1>4, <2>2, <2>3, <2>4, <2>5 DEF IInv
<1>9. CASE /\ "other" \in Users /\ tasks' = Append(tasks, [op |-> "connect", ch |-> None])
           /\ UNCHANGED <<be, live, leaked, done>>
  <2>1. PICK task \in Task : task = [op |-> "connect", ch |-> None] /\ task.op = "connect"
    <3>1. [op |-> "connect", ch |-> None] \in Task
      BY DEF Task
    <3> QED BY <3>1
  <2>2. /\ Cardinality(Queued') = Cardinality(Queued) + 1 /\ tasks' \in Seq(Task)
        /\ \A i \in 1..Len(tasks') : tasks'[i] = task \/ (i \in 1..Len(tasks) /\ tasks'[i] = tasks[i])
    BY <1>9, <2>1, QueuedAppend
  <2>3. TypeOK'
    <3>1. ConnectorType' /\ TasksType'
      BY <1>1, <1>9, <2>2 DEF IInv, TypeOK, ConnectorType, TasksType
    <3> QED BY <1>3, <3>1 DEF TypeOK, ConnectorType, HolderType, TasksType, RestType, FaultType
  <2>4. FinInv' /\ ChanInv'
    BY <1>1, <1>9 DEF IInv, FinInv, ChanInv, holder
  <2>5. TaskInv'
    BY <1>1, <1>9, <2>1, <2>2 DEF IInv, TaskInv, holder
  <2>6. BooksInv'
    BY <1>1, <1>5, <1>9 DEF IInv, BooksInv, holder
  <2>7. OneChain'
    <3>1. Pending' = Pending + 1
      <4>1. /\ Cardinality(live') = Cardinality(live) + 0
            /\ Cardinality(channels') = Cardinality(channels) + 0
            /\ Len(timers') = Len(timers) + 0 /\ Cardinality(Queued') = Cardinality(Queued) + 1
        BY <1>1, <1>9, <2>2, Sizes DEF holder
      <4>2. Pending' = Pending + (0 + 0 + 0 + 1)
        BY <4>1, PendingMoves
      <4> QED BY <1>6, <4>2
    <3> QED BY <1>7, <3>1
  <2> QED BY <1>4, <2>3, <2>4, <2>5, <2>6, <2>7 DEF IInv
<1> QED BY <1>8, <1>9 DEF Connect

LEMMA EnableRetryInv ==
  ASSUME IInv, EnableRetry
  PROVE  IInv'
<1>1. UNCHANGED <<connector, holder, tasks, found, boot, server, fault, connects, resting>> /\ retry' = ~retry
  BY DEF EnableRetry
<1>2. retry' \in BOOLEAN /\ found' \in Attempt \cup {None} /\ server' \in {"up", "refusing", "silent"}
  BY <1>1 DEF IInv, TypeOK
<1> QED BY <1>1, <1>2, QuietStep DEF connector

LEMMA ServerChangesInv ==
  ASSUME IInv, ServerChanges
  PROVE  IInv'
<1>1. UNCHANGED <<connector, holder, tasks, retry, found, boot, fault, connects, resting>>
  BY DEF ServerChanges
<1>2. retry' \in BOOLEAN /\ found' \in Attempt \cup {None} /\ server' \in {"up", "refusing", "silent"}
  BY <1>1 DEF IInv, TypeOK, ServerChanges
<1> QED BY <1>1, <1>2, QuietStep DEF connector

(* Attempts of a client that is gone: there are none after one call made   *)
(* in the loop thread.                                                     *)
LEMMA GoneCause ==
  ASSUME IInv, fault = "none", boot = "dead", live # {} \/ \E c \in channels : c \notin swapped
  PROVE  "other" \in Users \/ connects >= 2
<1>1. connects \in Nat
  BY Sizes
<1>2. ~("other" \notin Users /\ connects <= 1)
  BY DEF IInv, DeadInv
<1> QED BY <1>1, <1>2

(* eventCaught() with a null be_ takes two calls.                          *)
LEMMA StaleCause ==
  ASSUME IInv, live # {}, ConnectorAlive, be = None
  PROVE  connects >= 2
<1>1. connects \in Nat
  BY Sizes
<1>2. ASSUME connects <= 1 PROVE FALSE
  <2>1. timers = <<>>
    BY <1>2, OnlyOne
  <2>2. boot # "dead"
    BY <2>1 DEF ConnectorAlive
  <2> QED BY <1>2, <2>2 DEF IInv, BooksInv
<1> QED BY <1>1, <1>2

LEMMA NextDelay ==
  ASSUME IInv
  PROVE  /\ delay \div 1000 \in 0..30
         /\ (IF delay * 2 < kMaxRetryDelayMs THEN delay * 2 ELSE kMaxRetryDelayMs) \in Delays
<1>1. delay \in Delays
  BY DEF IInv, TypeOK
<1> QED BY <1>1 DEF Delays, kMaxRetryDelayMs

(* After one call the attempt that ends is the only thing there was.       *)
LEMMA OneAttempt ==
  ASSUME IInv, NEW a \in live, connects <= 1
  PROVE  /\ channels = {} /\ timers = <<>> /\ Cardinality(Queued) = 0
         /\ boot # "dead" => a = be /\ be # None /\ live = {a} /\ leaked = {} /\ channel = None
         /\ connects = 1
<1>1. channels = {} /\ timers = <<>>
  BY OnlyOne
<1>2. Cardinality(Queued) = 0 /\ connects # 0
  BY OnlyOne
<1>3. a # None
  BY NoneIsNot DEF IInv, TypeOK
<1>4. boot # "dead" => a = be /\ be # None /\ live = {a} /\ leaked = {} /\ channel = None
  BY <1>1, <1>3 DEF IInv, BooksInv
<1>5. connects = 1
  BY <1>2, Sizes
<1> QED BY <1>1, <1>2, <1>4, <1>5

LEMMA ErrorInv ==
  ASSUME IInv, NEW a \in live, fault = "none", RetryAfter(a),
         UNCHANGED <<tasks, retry, found, boot, server, connects, holder, fault, resting>>
  PROVE  IInv'
<1>1. /\ be' = None /\ live' = live \ {a, be} /\ leaked' = leaked \cup ({a} \ {be})
      /\ IsFiniteSet(live') /\ Cardinality(live') \in Nat
      /\ Cardinality(live') <= Cardinality(live) - 1
  BY ReleaseBeFacts DEF RetryAfter
<1>2. /\ timers' \in Seq(0..30) /\ Len(timers') \in Nat
      /\ Len(timers') = Len(timers) + (IF wanted THEN 1 ELSE 0)
      /\ delay' \in Delays
  <2>1. timers \in Seq(0..30) /\ delay \in Delays /\ Len(timers) \in Nat
    BY LenProperties DEF IInv, TypeOK
  <2>2. CASE wanted
    <3>1. /\ timers' = Append(timers, delay \div 1000)
          /\ delay' = IF delay * 2 < kMaxRetryDelayMs THEN delay * 2 ELSE kMaxRetryDelayMs
      BY <2>2 DEF RetryAfter
    <3> QED BY <2>1, <2>2, <3>1, NextDelay, AppendFacts
  <2>3. CASE ~wanted
    BY <2>1, <2>3 DEF RetryAfter
  <2> QED BY <2>2, <2>3
<1>3. TypeOK'
  <2>1. live \subseteq Attempt /\ leaked \subseteq Attempt
    BY DEF IInv, TypeOK
  <2>2. ConnectorType'
    BY <1>1, <1>2, <2>1 DEF IInv, TypeOK, ConnectorType, RetryAfter
  <2>3. HolderType' /\ TasksType' /\ RestType' /\ FaultType'
    BY DEF IInv, TypeOK, HolderType, TasksType, RestType, FaultType, holder
  <2> QED BY <2>2, <2>3 DEF TypeOK, ConnectorType, HolderType, TasksType, RestType, FaultType
<1>4. FinInv'
  BY <1>1 DEF IInv, FinInv, holder
<1>5. ChanInv' /\ TaskInv'
  <2>1. None \notin channels
    BY NoneIsNot DEF IInv, TypeOK
  <2> QED BY <1>1, <2>1 DEF IInv, ChanInv, TaskInv, holder, RetryAfter
<1>6. BooksInv'
  <2> SUFFICES ASSUME connects <= 1, boot # "dead"
               PROVE  live' = {} /\ leaked' = {} /\ channels' = {} /\ channel' = None
    BY <1>1 DEF BooksInv
  <2> QED BY <1>1, OneAttempt DEF holder
<1>7. DeadInv'
  <2>1. ~("other" \notin Users /\ connects <= 1 /\ boot = "dead")
    BY DEF IInv, DeadInv
  <2> QED BY <2>1 DEF DeadInv
<1>8. Queued' = Queued
  BY QueuedKept
<1>9. Pending' = Cardinality(live') + Cardinality(channels) + Len(timers') + Cardinality(Queued)
  BY <1>8 DEF Pending, Queued, holder
<1>10. OneChain'
  <2>1. Pending' <= connects
    <3>1. PICK m \in Int, t \in Int :
            /\ Cardinality(live') = Cardinality(live) + m /\ m <= -1
            /\ Len(timers') = Len(timers) + t /\ t <= 1
      <4>1. Cardinality(live') - Cardinality(live) \in Int /\ Len(timers') - Len(timers) \in Int
        BY <1>1, <1>2, Sizes
      <4>2. /\ Cardinality(live') = Cardinality(live) + (Cardinality(live') - Cardinality(live))
            /\ Cardinality(live') - Cardinality(live) <= -1
            /\ Len(timers') = Len(timers) + (Len(timers') - Len(timers))
            /\ Len(timers') - Len(timers) <= 1
        BY <1>1, <1>2, Sizes
      <4> QED BY <4>1, <4>2
    <3>2. Cardinality(channels') = Cardinality(channels) + 0 /\ Cardinality(Queued') = Cardinality(Queued) + 0
      BY <1>8, Sizes DEF holder
    <3>3. Pending' = Pending + (m + 0 + t + 0)
      BY <3>1, <3>2, PendingMoves
    <3> QED BY <3>1, <3>3, PendingBound
  <2>2. ASSUME connects = 1, boot = "alive" PROVE Pending' = 1
    <3>1. wanted /\ Len(timers') = Len(timers) + 1
      BY <1>2, <2>2 DEF IInv, TaskInv
    <3>2. live' = {} /\ channels = {} /\ timers = <<>> /\ Cardinality(Queued) = 0
      BY <1>1, <2>2, OneAttempt
    <3>3. Cardinality(live') = 0 /\ Cardinality(channels) = 0 /\ Len(timers) = 0
      BY <3>2, FS_EmptySet, EmptySeq
    <3> QED BY <1>9, <3>1, <3>2, <3>3
  <2> QED BY <2>1, <2>2 DEF OneChain
<1>11. FaultCause'
  BY DEF FaultCause
<1> QED BY <1>3, <1>4, <1>5, <1>6, <1>7, <1>10, <1>11 DEF IInv

(* handleError() with an error that counts as fatal.                       *)
LEMMA FatalInv ==
  ASSUME IInv, NEW a \in live, fault = "none", ReleaseBe(a), resting' = TRUE,
         UNCHANGED <<wanted, delay, timers, done, holder, fault, tasks, retry, found, boot, server, connects>>
  PROVE  IInv'
<1>1. /\ be' = None /\ live' = live \ {a, be} /\ leaked' = leaked \cup ({a} \ {be})
      /\ IsFiniteSet(live') /\ Cardinality(live') \in Nat
      /\ Cardinality(live') <= Cardinality(live) - 1
  BY ReleaseBeFacts
<1>2. TypeOK'
  <2>1. live \subseteq Attempt /\ leaked \subseteq Attempt
    BY DEF IInv, TypeOK
  <2>2. ConnectorType'
    BY <1>1, <2>1 DEF IInv, TypeOK, ConnectorType
  <2>3. HolderType' /\ TasksType' /\ RestType' /\ FaultType'
    BY DEF IInv, TypeOK, HolderType, TasksType, RestType, FaultType, holder
  <2> QED BY <2>2, <2>3 DEF TypeOK, ConnectorType, HolderType, TasksType, RestType, FaultType
<1>3. FinInv'
  BY <1>1 DEF IInv, FinInv, holder
<1>4. ChanInv' /\ TaskInv'
  <2>1. None \notin channels
    BY NoneIsNot DEF IInv, TypeOK
  <2> QED BY <1>1, <2>1 DEF IInv, ChanInv, TaskInv, holder
<1>5. BooksInv'
  <2> SUFFICES ASSUME connects <= 1, boot # "dead"
               PROVE  live' = {} /\ leaked' = {} /\ channels' = {} /\ channel' = None
    BY <1>1 DEF BooksInv
  <2> QED BY <1>1, OneAttempt DEF holder
<1>6. DeadInv'
  <2>1. ~("other" \notin Users /\ connects <= 1 /\ boot = "dead")
    BY DEF IInv, DeadInv
  <2> QED BY <2>1 DEF DeadInv
<1>7. OneChain'
  <2>1. PICK m \in Int : Cardinality(live') = Cardinality(live) + m /\ m <= -1
    <3>1. Cardinality(live') - Cardinality(live) \in Int
      BY <1>1, Sizes
    <3>2. /\ Cardinality(live') = Cardinality(live) + (Cardinality(live') - Cardinality(live))
          /\ Cardinality(live') - Cardinality(live) <= -1
      BY <1>1, Sizes
    <3> QED BY <3>1, <3>2
  <2>2. /\ Cardinality(channels') = Cardinality(channels) + 0 /\ Len(timers') = Len(timers) + 0
        /\ Cardinality(Queued') = Cardinality(Queued) + 0
    BY QueuedKept, Sizes DEF holder
  <2>3. Pending' = Pending + (m + 0 + 0 + 0)
    <3>1. PICK z \in Int : z = 0
      OBVIOUS
    <3>2. /\ Cardinality(live') = Cardinality(live) + m
          /\ Cardinality(channels') = Cardinality(channels) + z
          /\ Len(timers') = Len(timers) + z /\ Cardinality(Queued') = Cardinality(Queued) + z
      BY <2>1, <2>2, <3>1
    <3>3. Pending' = Pending + (m + z + z + z)
      BY <3>2, PendingMoves
    <3> QED BY <3>1, <3>3
  <2>4. Pending' <= connects'
    BY <2>1, <2>3, PendingBound
  <2> QED BY <2>4 DEF OneChain
<1>8. FaultCause'
  BY DEF FaultCause
<1> QED BY <1>2, <1>3, <1>4, <1>5, <1>6, <1>7, <1>8 DEF IInv

(* newChannel(): the socket of be_ becomes the channel.                    *)
LEMMA ConnectedInv ==
  ASSUME IInv, NEW a \in live, fault = "none", be # None, boot # "dead",
         ReleaseBe(a), done' = done \cup {a}, NewChannel, LastHolders,
         UNCHANGED <<wanted, delay, timers, resting, tasks, retry, found, boot, server, connects>>
  PROVE  IInv'
<1>1. /\ be' = None /\ live' = live \ {a, be} /\ leaked' = leaked \cup ({a} \ {be})
      /\ IsFiniteSet(live') /\ Cardinality(live') \in Nat
      /\ Cardinality(live') <= Cardinality(live) - 1
  BY ReleaseBeFacts
<1>2. /\ channels' = channels \cup {be} /\ channel' = be /\ load' = load + 1
      /\ swapped' = swapped /\ be \in Attempt /\ be \notin channels
  BY DEF NewChannel, IInv, TypeOK, ChanInv
<1>3. IsFiniteSet(channels') /\ Cardinality(channels') = Cardinality(channels) + 1
  <2>1. PICK S, b : S = channels /\ b = be
    OBVIOUS
  <2>2. IsFiniteSet(S \cup {b}) /\ Cardinality(S \cup {b}) = Cardinality(S) + 1
    BY <1>2, <2>1, FS_AddElement DEF IInv, FinInv
  <2> QED BY <1>2, <2>1, <2>2
<1>4. BooksInv'
  <2> SUFFICES ASSUME connects <= 1
               PROVE  /\ live' = {} /\ leaked' = {} /\ channels' = {be} /\ be \in done'
    BY <1>1, <1>2, NoneIsNot DEF BooksInv
  <2> QED BY <1>1, <1>2, OneAttempt
<1>5. fault' \in {"none", "lost"} /\ FaultCause'
  BY <1>4, Sizes, LostCause
<1>6. TypeOK'
  <2>1. live \subseteq Attempt /\ leaked \subseteq Attempt /\ done \subseteq Attempt
    BY DEF IInv, TypeOK
  <2>2. ConnectorType'
    BY <1>1, <2>1 DEF IInv, TypeOK, ConnectorType
  <2>3. load' \in Nat
    BY <1>2 DEF IInv, TypeOK
  <2>4. HolderType'
    BY <1>2, <2>3 DEF IInv, TypeOK, HolderType
  <2>5. TasksType' /\ RestType' /\ FaultType'
    BY <1>5 DEF IInv, TypeOK, TasksType, RestType, FaultType
  <2> QED BY <2>2, <2>4, <2>5 DEF TypeOK, ConnectorType, HolderType, TasksType, RestType, FaultType
<1>7. FinInv'
  BY <1>1, <1>3 DEF FinInv
<1>8. ChanInv'
  <2>1. None \notin channels'
    BY <1>6, NoneIsNot DEF TypeOK
  <2> QED BY <1>1, <1>2, <1>3, <2>1 DEF IInv, ChanInv
<1>9. TaskInv' /\ DeadInv'
  BY <1>2 DEF IInv, TaskInv, DeadInv
<1>10. OneChain'
  <2>1. PICK m \in Int : Cardinality(live') = Cardinality(live) + m /\ m <= -1
    <3>1. Cardinality(live') - Cardinality(live) \in Int
      BY <1>1, Sizes
    <3>2. /\ Cardinality(live') = Cardinality(live) + (Cardinality(live') - Cardinality(live))
          /\ Cardinality(live') - Cardinality(live) <= -1
      BY <1>1, Sizes
    <3> QED BY <3>1, <3>2
  <2>2. Len(timers') = Len(timers) + 0 /\ Cardinality(Queued') = Cardinality(Queued) + 0
    BY QueuedKept, Sizes
  <2>3. Pending' = Pending + (m + 1 + 0 + 0)
    <3>1. PICK z \in Int, n \in Int : z = 0 /\ n = 1
      OBVIOUS
    <3>2. /\ Cardinality(live') = Cardinality(live) + m
          /\ Cardinality(channels') = Cardinality(channels) + n
          /\ Len(timers') = Len(timers) + z /\ Cardinality(Queued') = Cardinality(Queued) + z
      BY <1>3, <2>1, <2>2, <3>1
    <3>3. Pending' = Pending + (m + n + z + z)
      BY <3>2, PendingMoves
    <3> QED BY <3>1, <3>3
  <2>4. Pending' <= connects'
    BY <2>1, <2>3, PendingBound
  <2>5. ASSUME connects = 1, boot = "alive", ~resting PROVE Pending' = 1
    <3>1. live' = {} /\ live = {a} /\ Pending = 1
      BY <1>1, <2>5, OneAttempt DEF IInv, OneChain
    <3>2. Cardinality(live') = 0 /\ Cardinality(live) >= 1
      BY <3>1, FS_EmptySet, Sizes
    <3>3. Cardinality(live) <= 1
      <4>1. /\ Cardinality(channels) \in Nat /\ Len(timers) \in Nat /\ Cardinality(Queued) \in Nat
            /\ Cardinality(live) + Cardinality(channels) + Len(timers) + Cardinality(Queued) = 1
        BY <3>1, Sizes
      <4>2. PICK x \in Nat, y \in Nat, z \in Nat, w \in Nat :
               x = Cardinality(live) /\ y = Cardinality(channels) /\ z = Len(timers) /\ w = Cardinality(Queued)
        BY <4>1, Sizes
      <4>3. x + y + z + w = 1
        BY ONLY <4>1, <4>2
      <4> QED BY <4>2, <4>3
    <3>4. m = -1
      BY <2>1, <3>2, <3>3, Sizes
    <3> QED BY <2>3, <3>1, <3>4
  <2> QED BY <2>4, <2>5 DEF OneChain
<1> QED BY <1>4, <1>5, <1>6, <1>7, <1>8, <1>9, <1>10 DEF IInv

LEMMA EventCaughtInv ==
  ASSUME IInv, NEW a \in Attempt, EventCaught(a)
  PROVE  IInv'
<1>1. /\ fault = "none" /\ a \in live
      /\ UNCHANGED <<tasks, retry, found, boot, server, connects>>
  BY DEF EventCaught, Running
<1>2. retry' \in BOOLEAN /\ found' \in Attempt \cup {None} /\ server' \in {"up", "refusing", "silent"}
  BY <1>1 DEF IInv, TypeOK
<1>3. CASE ~ConnectorAlive /\ fault' = "freed" /\ UNCHANGED <<connector, holder, resting>>
  <2>1. boot = "dead"
    BY <1>3 DEF ConnectorAlive
  <2>2. FaultCause' /\ FaultType'
    BY <1>1, <1>3, <2>1, GoneCause DEF FaultCause, FaultType
  <2> QED BY <1>1, <1>2, <1>3, <2>2, QuietStep DEF connector
<1>4. CASE RetryAfter(a) /\ UNCHANGED <<holder, fault, resting>>
  BY <1>1, <1>4, ErrorInv
<1>5. CASE ReleaseBe(a) /\ resting' = TRUE /\ UNCHANGED <<wanted, delay, timers, done, holder, fault>>
  BY <1>1, <1>5, FatalInv
<1>6. CASE ConnectorAlive /\ be = None /\ fault' = "stale" /\ UNCHANGED <<connector, holder, resting>>
  <2>1. FaultCause' /\ FaultType'
    BY <1>1, <1>6, StaleCause DEF FaultCause, FaultType
  <2> QED BY <1>1, <1>2, <1>6, <2>1, QuietStep DEF connector
<1>7. CASE boot = "dead" /\ fault' = "bootstrap" /\ UNCHANGED <<connector, holder, resting>>
  <2>1. FaultCause' /\ FaultType'
    BY <1>1, <1>7, GoneCause DEF FaultCause, FaultType
  <2> QED BY <1>1, <1>2, <1>7, <2>1, QuietStep DEF connector
<1>8. CASE /\ be # None /\ boot # "dead" /\ ReleaseBe(a) /\ done' = done \cup {a}
           /\ NewChannel /\ LastHolders /\ UNCHANGED <<wanted, delay, timers, resting>>
  BY <1>1, <1>8, ConnectedInv
<1> QED BY <1>3, <1>4, <1>5, <1>6, <1>7, <1>8 DEF EventCaught

(* A channel closes and perhaps another attempt takes its place.           *)
LEMMA ClosedInv ==
  ASSUME IInv, NEW c \in channels, fault = "none", boot # "dead" \/ c \in swapped,
         CloseCallback(c), UNCHANGED <<tasks, retry, found, boot, server, connects>>
  PROVE  IInv'
<1>1. channels' = channels \ {c} /\ swapped' = swapped \ {c} /\ load' = load - 1 /\ LastHolders
  BY DEF CloseCallback
<1>2. IsFiniteSet(channels') /\ Cardinality(channels') = Cardinality(channels) - 1
  <2>1. PICK S : S = channels
    OBVIOUS
  <2>2. IsFiniteSet(S \ {c}) /\ Cardinality(S \ {c}) = Cardinality(S) - 1
    BY <2>1, FS_RemoveElement DEF IInv, FinInv
  <2> QED BY <1>1, <2>1, <2>2
<1>3. load' = Cardinality(channels') /\ load' \in Nat
  BY <1>1, <1>2, FS_CardinalityType DEF IInv, ChanInv
<1>4. swapped' \subseteq channels' /\ channels' \subseteq Attempt
  BY <1>1 DEF IInv, TypeOK
<1>5. connects <= 1 => live = {} /\ timers = <<>>
  BY OnlyOne
<1>6. connects <= 1 /\ boot # "dead" => channels' = {} /\ leaked = {}
  BY <1>1 DEF IInv, BooksInv
<1>7. ASSUME BooksInv', ConnectorType', channel' \in Attempt \cup {None}, resting' \in BOOLEAN
      PROVE  TypeOK' /\ FaultCause'
  <2>1. fault' \in {"none", "lost"} /\ FaultCause'
    BY <1>1, <1>7, Sizes, LostCause
  <2>2. HolderType'
    BY <1>3, <1>4, <1>7 DEF HolderType
  <2>3. TasksType' /\ RestType' /\ FaultType'
    BY <1>7, <2>1 DEF IInv, TypeOK, TasksType, RestType, FaultType
  <2> QED BY <1>7, <2>1, <2>2, <2>3 DEF TypeOK, ConnectorType, HolderType, TasksType, RestType, FaultType
<1>8. Cardinality(Queued') = Cardinality(Queued) + 0 /\ Cardinality(channels') = Cardinality(channels) + (-1)
  BY <1>2, QueuedKept, Sizes
(* After the swap nothing but the books of the loop changes.               *)
<1>9. CASE c \in swapped /\ UNCHANGED <<channel, connector, resting>>
  <2>1. boot = "dead"
    BY <1>9 DEF IInv, TaskInv
  <2>2. BooksInv' /\ ConnectorType' /\ channel' \in Attempt \cup {None} /\ resting' \in BOOLEAN
    BY <1>9, <2>1 DEF BooksInv, IInv, TypeOK, ConnectorType, connector
  <2>3. FinInv' /\ ChanInv' /\ TaskInv'
    BY <1>1, <1>2, <1>3, <1>9, <2>1 DEF IInv, FinInv, ChanInv, TaskInv, connector
  <2>4. DeadInv'
    BY <1>1, <1>9 DEF IInv, DeadInv, connector
  <2>5. OneChain'
    <3>1. Cardinality(live') = Cardinality(live) + 0 /\ Len(timers') = Len(timers) + 0
      BY <1>9, Sizes DEF connector
    <3>2. Pending' = Pending + (0 + (-1) + 0 + 0)
      <4>1. PICK z \in Int, n \in Int, o \in Int : z = 0 /\ n = -1 /\ o = 1
        OBVIOUS
      <4>2. /\ Cardinality(live') = Cardinality(live) + z /\ Cardinality(channels') = Cardinality(channels) + n
            /\ Len(timers') = Len(timers) + z /\ Cardinality(Queued') = Cardinality(Queued) + z
        BY <1>8, <3>1, <4>1
      <4>3. Pending' = Pending + (z + n + z + z)
        BY <4>2, PendingMoves
      <4> QED BY <4>1, <4>3
    <3> QED BY <2>1, <3>2, PendingBound DEF OneChain
  <2> QED BY <1>7, <2>2, <2>3, <2>4, <2>5 DEF IInv
<1>10. CASE c \notin swapped /\ channel' = None /\ delay' = kInitRetryDelayMs /\ wanted' = TRUE
            /\ ConnectInLoop /\ UNCHANGED <<timers, resting>>
  <2>1. boot # "dead"
    BY <1>10
  <2>2. /\ be' \in Attempt /\ be' \notin channels
        /\ live' = live \cup {be'} /\ leaked' = leaked /\ done' = done \ {be'}
        /\ IsFiniteSet(live') /\ Cardinality(live') = Cardinality(live) + 1
    BY <1>10, ConnectInLoopFacts
  <2>3. ConnectorType' /\ channel' \in Attempt \cup {None} /\ resting' \in BOOLEAN
    <3>1. delay' \in Delays
      BY <1>10 DEF Delays, kInitRetryDelayMs
    <3> QED BY <1>10, <2>2, <3>1 DEF IInv, TypeOK, ConnectorType
  <2>4. BooksInv'
    <3> SUFFICES ASSUME connects <= 1
                 PROVE  live' = {be'} \ {None} /\ channels' = {} /\ leaked' = {} /\ channel' = None
      BY DEF BooksInv
    <3> QED BY <1>5, <1>6, <1>10, <2>1, <2>2, NoneIsNot
  <2>5. FinInv' /\ ChanInv' /\ TaskInv'
    BY <1>1, <1>2, <1>3, <1>10, <2>1, <2>2 DEF IInv, FinInv, ChanInv, TaskInv
  <2>6. DeadInv'
    BY <2>1 DEF DeadInv
  <2>7. OneChain'
    <3>1. Len(timers') = Len(timers) + 0
      BY <1>10, Sizes
    <3>2. Pending' = Pending + (1 + (-1) + 0 + 0)
      <4>1. PICK z \in Int, n \in Int, o \in Int : z = 0 /\ n = -1 /\ o = 1
        OBVIOUS
      <4>2. /\ Cardinality(live') = Cardinality(live) + o /\ Cardinality(channels') = Cardinality(channels) + n
            /\ Len(timers') = Len(timers) + z /\ Cardinality(Queued') = Cardinality(Queued) + z
        BY <1>8, <2>2, <3>1, <4>1
      <4>3. Pending' = Pending + (o + n + z + z)
        BY <4>2, PendingMoves
      <4> QED BY <4>1, <4>3
    <3>3. Pending' = Pending
      BY <3>2, PendingBound
    <3> QED BY <1>10, <3>3 DEF IInv, OneChain
  <2> QED BY <1>7, <2>3, <2>4, <2>5, <2>6, <2>7 DEF IInv
<1>11. CASE c \notin swapped /\ channel' = None /\ resting' = TRUE /\ UNCHANGED connector
  <2>1. boot # "dead"
    BY <1>11
  <2>2. BooksInv' /\ ConnectorType' /\ channel' \in Attempt \cup {None} /\ resting' \in BOOLEAN
    <3>1. BooksInv'
      BY <1>6, <1>11, <2>1 DEF IInv, BooksInv, connector
    <3>2. ConnectorType'
      BY <1>11 DEF IInv, TypeOK, ConnectorType, connector
    <3> QED BY <1>11, <3>1, <3>2
  <2>3. FinInv' /\ ChanInv' /\ TaskInv'
    BY <1>1, <1>2, <1>3, <1>11, <2>1 DEF IInv, FinInv, ChanInv, TaskInv, connector
  <2>4. DeadInv'
    BY <2>1 DEF DeadInv
  <2>5. OneChain'
    <3>1. Cardinality(live') = Cardinality(live) + 0 /\ Len(timers') = Len(timers) + 0
      BY <1>11, Sizes DEF connector
    <3>2. Pending' = Pending + (0 + (-1) + 0 + 0)
      <4>1. PICK z \in Int, n \in Int, o \in Int : z = 0 /\ n = -1 /\ o = 1
        OBVIOUS
      <4>2. /\ Cardinality(live') = Cardinality(live) + z /\ Cardinality(channels') = Cardinality(channels) + n
            /\ Len(timers') = Len(timers) + z /\ Cardinality(Queued') = Cardinality(Queued) + z
        BY <1>8, <3>1, <4>1
      <4>3. Pending' = Pending + (z + n + z + z)
        BY <4>2, PendingMoves
      <4> QED BY <4>1, <4>3
    <3> QED BY <1>11, <3>2, PendingBound DEF OneChain
  <2> QED BY <1>7, <2>2, <2>3, <2>4, <2>5 DEF IInv
<1> QED BY <1>9, <1>10, <1>11 DEF CloseCallback

LEMMA ChannelClosesInv ==
  ASSUME IInv, NEW c \in Attempt, ChannelCloses(c)
  PROVE  IInv'
<1>1. /\ fault = "none" /\ c \in channels
      /\ UNCHANGED <<tasks, retry, found, boot, server, connects>>
  BY DEF ChannelCloses, Running
<1>2. CASE boot = "dead" /\ c \notin swapped /\ fault' = "bootstrap" /\ UNCHANGED <<connector, holder, resting>>
  <2>1. FaultCause' /\ FaultType'
    BY <1>1, <1>2, GoneCause DEF FaultCause, FaultType
  <2>2. retry' \in BOOLEAN /\ found' \in Attempt \cup {None} /\ server' \in {"up", "refusing", "silent"}
    BY <1>1 DEF IInv, TypeOK
  <2> QED BY <1>1, <1>2, <2>1, <2>2, QuietStep DEF connector
<1>3. CASE (boot # "dead" \/ c \in swapped) /\ CloseCallback(c)
  BY <1>1, <1>3, ClosedInv
<1> QED BY <1>2, <1>3 DEF ChannelCloses

LEMMA RetryTimerInv ==
  ASSUME IInv, RetryTimer
  PROVE  IInv'
<1>1. /\ fault = "none"
      /\ UNCHANGED <<wanted, delay, holder, tasks, retry, found, boot, server, connects, resting>>
  BY DEF RetryTimer, Running
<1>2. /\ timers # <<>> /\ timers' \in Seq(0..30)
      /\ Len(timers') = Len(timers) + (-1)
  <2>1. PICK i \in DOMAIN timers : timers' = RemoveAt(timers, i)
    BY DEF RetryTimer
  <2>2. timers \in Seq(0..30)
    BY DEF IInv, TypeOK
  <2>3. timers' \in Seq(0..30) /\ Len(timers) \in Nat \ {0} /\ Len(timers') = Len(timers) - 1
    BY <2>1, <2>2, RemovedOne
  <2>4. timers # <<>>
    BY <2>2, <2>3, EmptyLen
  <2> QED BY <2>3, <2>4
<1>3. HolderType' /\ TasksType' /\ RestType'
  BY <1>1 DEF IInv, TypeOK, HolderType, TasksType, RestType, holder
<1>4. Cardinality(Queued') = Cardinality(Queued) + 0 /\ Cardinality(channels') = Cardinality(channels) + 0
  BY <1>1, QueuedKept, Sizes DEF holder
<1>5. CASE boot = "dead" /\ fault' = "config" /\ UNCHANGED <<be, live, leaked, done>>
  <2>1. TypeOK'
    <3>1. ConnectorType'
      BY <1>1, <1>2, <1>5 DEF IInv, TypeOK, ConnectorType
    <3>2. FaultType'
      BY <1>5 DEF FaultType
    <3> QED BY <1>3, <3>1, <3>2 DEF TypeOK, ConnectorType, HolderType, TasksType, RestType, FaultType
  <2>2. FinInv' /\ ChanInv' /\ TaskInv' /\ BooksInv' /\ DeadInv'
    BY <1>1, <1>5 DEF IInv, FinInv, ChanInv, TaskInv, BooksInv, DeadInv, holder
  <2>3. OneChain'
    <3>1. Cardinality(live') = Cardinality(live) + 0
      BY <1>5, Sizes
    <3>2. Pending' = Pending + (0 + 0 + (-1) + 0)
      <4>1. PICK z \in Int, n \in Int, o \in Int : z = 0 /\ n = -1 /\ o = 1
        OBVIOUS
      <4>2. /\ Cardinality(live') = Cardinality(live) + z /\ Cardinality(channels') = Cardinality(channels) + z
            /\ Len(timers') = Len(timers) + n /\ Cardinality(Queued') = Cardinality(Queued) + z
        BY <1>2, <1>4, <3>1, <4>1
      <4>3. Pending' = Pending + (z + z + n + z)
        BY <4>2, PendingMoves
      <4> QED BY <4>1, <4>3
    <3> QED BY <1>1, <1>5, <3>2, PendingBound DEF OneChain
  <2>4. FaultCause'
    BY <1>1, <1>5 DEF FaultCause
  <2> QED BY <2>1, <2>2, <2>3, <2>4 DEF IInv
<1>6. CASE boot # "dead" /\ ConnectInLoop /\ UNCHANGED fault
  <2>1. /\ be' \in Attempt /\ be' \notin channels
        /\ live' = live \cup {be'} /\ leaked' = leaked /\ done' = done \ {be'}
        /\ IsFiniteSet(live') /\ Cardinality(live') = Cardinality(live) + 1
    BY <1>6, ConnectInLoopFacts
  <2>2. TypeOK'
    <3>1. ConnectorType'
      BY <1>1, <1>2, <2>1 DEF IInv, TypeOK, ConnectorType
    <3>2. FaultType'
      BY <1>6 DEF IInv, TypeOK, FaultType
    <3> QED BY <1>3, <3>1, <3>2 DEF TypeOK, ConnectorType, HolderType, TasksType, RestType, FaultType
  <2>3. FinInv' /\ ChanInv' /\ TaskInv' /\ DeadInv'
    BY <1>1, <1>6, <2>1 DEF IInv, FinInv, ChanInv, TaskInv, DeadInv, holder
  <2>4. BooksInv'
    <3>1. ASSUME connects <= 1
          PROVE  live = {} /\ channels = {} /\ leaked = {} /\ channels = {channel} \ {None}
      BY <1>2, <1>6, <3>1, OnlyOne DEF IInv, BooksInv
    <3>2. be' # None
      BY <2>1, NoneIsNot
    <3>3. ASSUME connects' <= 1
          PROVE  /\ live' = {be'} \ {None} /\ channels' = {channel'} \ {None}
                 /\ channels' \subseteq done' /\ leaked' = {}
      BY <1>1, <2>1, <3>1, <3>2, <3>3 DEF holder
    <3> QED BY <3>3 DEF BooksInv
  <2>5. OneChain'
    <3>1. Pending' = Pending + (1 + 0 + (-1) + 0)
      <4>1. PICK z \in Int, n \in Int, o \in Int : z = 0 /\ n = -1 /\ o = 1
        OBVIOUS
      <4>2. /\ Cardinality(live') = Cardinality(live) + o /\ Cardinality(channels') = Cardinality(channels) + z
            /\ Len(timers') = Len(timers) + n /\ Cardinality(Queued') = Cardinality(Queued) + z
        BY <1>2, <1>4, <2>1, <4>1
      <4>3. Pending' = Pending + (o + z + n + z)
        BY <4>2, PendingMoves
      <4> QED BY <4>1, <4>3
    <3>2. Pending' = Pending
      BY <3>1, PendingBound
    <3> QED BY <1>1, <1>6, <3>2 DEF IInv, OneChain
  <2>6. FaultCause'
    BY <1>1, <1>6 DEF FaultCause
  <2> QED BY <2>2, <2>3, <2>4, <2>5, <2>6 DEF IInv
<1> QED BY <1>5, <1>6 DEF RetryTimer
(* The loop runs a task.  A client that lives has queued connectInLoop()   *)
(* only; every other task finds its client gone.                           *)
LEMMA RunTaskInv ==
  ASSUME IInv, RunTask
  PROVE  IInv'
<1>1. /\ fault = "none" /\ tasks # <<>> /\ tasks' = Tail(tasks)
      /\ UNCHANGED <<wanted, delay, timers, channel, channels, load, retry, found,
                     boot, server, connects, resting>>
  BY DEF RunTask, Running
<1>2. /\ Cardinality(Queued) = Cardinality(Queued') + (IF Head(tasks).op = "connect" THEN 1 ELSE 0)
      /\ Cardinality(Queued') \in Nat
      /\ tasks' \in Seq(Task) /\ Head(tasks) \in Task
      /\ 1 \in 1..Len(tasks) /\ Head(tasks) = tasks[1]
      /\ \A i \in 1..Len(tasks') : i + 1 \in 1..Len(tasks) /\ tasks'[i] = tasks[i + 1]
  BY <1>1, QueuedTail
<1>3. "other" \in Users /\ (boot # "dead" => swapped = {} /\ Head(tasks).op = "connect")
  BY <1>1, <1>2 DEF IInv, TaskInv
<1>4. DeadInv'
  BY <1>3 DEF DeadInv
<1>5. swapped' = swapped \/ boot = "dead" => TaskInv'
  BY <1>1, <1>2, <1>3 DEF IInv, TaskInv
<1>6. TasksType' /\ RestType'
  BY <1>1, <1>2 DEF IInv, TypeOK, TasksType, RestType
<1>7. PICK q \in Int : Cardinality(Queued') = Cardinality(Queued) + q /\ q <= 0
  <2>1. PICK x \in Nat, y \in Nat : x = Cardinality(Queued') /\ y = Cardinality(Queued)
    BY <1>2, Sizes
  <2>2. y = x + 1 \/ y = x
    BY <1>2, <2>1
  <2>3. x - y \in Int /\ x = y + (x - y) /\ x - y <= 0
    BY <2>2
  <2> QED BY <2>1, <2>3
<1>8. Cardinality(channels') = Cardinality(channels) + 0 /\ Len(timers') = Len(timers) + 0
  BY <1>1, Sizes
(* The tasks of a client that is gone make nothing, and may free be_.      *)
<1>9. ASSUME boot = "dead", live' \subseteq live, be' \in {be, None},
             UNCHANGED <<leaked, done>>, swapped' \subseteq channels,
             FaultType', FaultCause'
      PROVE  IInv'
  <2>1. TypeOK'
    <3>1. ConnectorType'
      BY <1>1, <1>9 DEF IInv, TypeOK, ConnectorType
    <3>2. HolderType'
      BY <1>1, <1>9 DEF IInv, TypeOK, HolderType
    <3> QED BY <1>6, <1>9, <3>1, <3>2 DEF TypeOK, ConnectorType, HolderType, TasksType, RestType, FaultType
  <2>2. IsFiniteSet(live') /\ Cardinality(live') <= Cardinality(live) /\ Cardinality(live') \in Nat
    BY <1>9, LessLive
  <2>3. FinInv'
    BY <1>1, <2>2 DEF IInv, FinInv
  <2>4. ChanInv'
    <3>1. None \notin channels
      BY NoneIsNot DEF IInv, TypeOK
    <3> QED BY <1>1, <1>9, <3>1 DEF IInv, ChanInv
  <2>5. BooksInv'
    BY <1>1, <1>9 DEF BooksInv
  <2>6. OneChain'
    <3>1. PICK m \in Int, z \in Int : Cardinality(live') = Cardinality(live) + m /\ m <= 0 /\ z = 0
      <4>1. PICK x \in Nat, y \in Nat : x = Cardinality(live') /\ y = Cardinality(live)
        BY <2>2, Sizes
      <4>2. x - y \in Int /\ x = y + (x - y) /\ x - y <= 0
        BY <2>2, <4>1
      <4>3. PICK z \in Int : z = 0
        OBVIOUS
      <4> QED BY <4>1, <4>2, <4>3
    <3>2. /\ Cardinality(live') = Cardinality(live) + m
          /\ Cardinality(channels') = Cardinality(channels) + z /\ Len(timers') = Len(timers) + z
          /\ Cardinality(Queued') = Cardinality(Queued) + q
      BY <1>7, <1>8, <3>1
    <3>3. Pending' = Pending + (m + z + z + q)
      BY <3>2, PendingMoves
    <3>4. m + z + z + q <= 0 /\ m + z + z + q \in Int
      BY <1>7, <3>1
    <3>5. Pending' <= Pending
      BY <3>3, <3>4, PendingBound
    <3>6. Pending' <= connects'
      BY <1>1, <3>3, <3>4, <3>5, PendingBound
    <3> QED BY <1>1, <1>9, <3>6 DEF OneChain
  <2> QED BY <1>4, <1>5, <1>9, <2>1, <2>3, <2>4, <2>5, <2>6 DEF IInv
<1>10. CASE /\ ~ConnectorAlive /\ fault' = "freed"
            /\ UNCHANGED <<be, live, leaked, done, swapped>>
  <2>1. boot = "dead"
    BY <1>10 DEF ConnectorAlive
  <2>2. FaultType' /\ FaultCause'
    BY <1>1, <1>3, <1>10, <2>1 DEF FaultType, FaultCause
  <2>3. swapped \subseteq channels
    BY DEF IInv, TypeOK
  <2> QED BY <1>9, <1>10, <2>1, <2>2, <2>3
<1>11. CASE boot = "dead" /\ fault' = "config" /\ UNCHANGED <<be, live, leaked, done, swapped>>
  <2>1. FaultType' /\ FaultCause'
    BY <1>1, <1>11 DEF FaultType, FaultCause
  <2>2. swapped \subseteq channels
    BY DEF IInv, TypeOK
  <2> QED BY <1>9, <1>11, <2>1, <2>2
<1>12. CASE /\ Head(tasks).op = "connect" /\ boot # "dead" /\ ConnectInLoop
            /\ UNCHANGED <<swapped, fault>>
  <2>1. /\ be' \in Attempt /\ be' \notin channels
        /\ live' = live \cup {be'} /\ leaked' = leaked /\ done' = done \ {be'}
        /\ IsFiniteSet(live') /\ Cardinality(live') = Cardinality(live) + 1
    BY <1>12, ConnectInLoopFacts
  <2>2. TypeOK'
    <3>1. ConnectorType'
      BY <1>1, <2>1 DEF IInv, TypeOK, ConnectorType
    <3>2. HolderType' /\ FaultType'
      BY <1>1, <1>12 DEF IInv, TypeOK, HolderType, FaultType
    <3> QED BY <1>6, <3>1, <3>2 DEF TypeOK, ConnectorType, HolderType, TasksType, RestType, FaultType
  <2>3. FinInv' /\ ChanInv' /\ TaskInv'
    BY <1>1, <1>5, <1>12, <2>1 DEF IInv, FinInv, ChanInv
  <2>4. BooksInv'
    <3>1. Cardinality(Queued) # 0
      BY <1>2, <1>12
    <3>2. ASSUME connects <= 1
          PROVE  live = {} /\ channels = {} /\ leaked = {} /\ channels = {channel} \ {None}
      BY <1>12, <3>1, <3>2, OnlyOne DEF IInv, BooksInv
    <3>3. be' # None
      BY <2>1, NoneIsNot
    <3>4. ASSUME connects' <= 1
          PROVE  /\ live' = {be'} \ {None} /\ channels' = {channel'} \ {None}
                 /\ channels' \subseteq done' /\ leaked' = {}
      BY <1>1, <2>1, <3>2, <3>3, <3>4
    <3> QED BY <3>4 DEF BooksInv
  <2>5. OneChain'
    <3>1. PICK z \in Int, o \in Int : z = 0 /\ o = 1
      OBVIOUS
    <3>2. /\ Cardinality(live') = Cardinality(live) + o
          /\ Cardinality(channels') = Cardinality(channels) + z /\ Len(timers') = Len(timers) + z
          /\ Cardinality(Queued') = Cardinality(Queued) + q
      BY <1>7, <1>8, <2>1, <3>1
    <3>3. Pending' = Pending + (o + z + z + q)
      BY <3>2, PendingMoves
    <3>4. o + z + z + q = 0
      <4>1. PICK x \in Nat, y \in Nat : x = Cardinality(Queued') /\ y = Cardinality(Queued)
        BY <1>2, Sizes
      <4>2. y = x + 1 /\ x = y + q
        BY <1>2, <1>7, <1>12, <4>1
      <4> QED BY <3>1, <4>2
    <3>5. Pending' = Pending
      BY <3>3, <3>4, PendingBound
    <3> QED BY <1>1, <1>12, <3>5 DEF IInv, OneChain
  <2>6. FaultCause'
    BY <1>1, <1>12 DEF FaultCause
  <2> QED BY <1>4, <2>2, <2>3, <2>4, <2>5, <2>6 DEF IInv
<1>13. CASE /\ Head(tasks).op = "disconnect" /\ DisconnectInLoop
            /\ UNCHANGED <<leaked, done, swapped, fault>>
  <2>1. boot = "dead"
    BY <1>3, <1>13
  <2>2. be' = None /\ live' \subseteq live
    BY <1>13 DEF DisconnectInLoop
  <2>3. FaultType' /\ FaultCause' /\ swapped \subseteq channels
    BY <1>1, <1>13 DEF IInv, TypeOK, FaultType, FaultCause
  <2> QED BY <1>9, <1>13, <2>1, <2>2, <2>3
<1>14. CASE /\ Head(tasks).op = "swap" /\ swapped' = swapped \cup ({Head(tasks).ch} \cap channels)
            /\ UNCHANGED <<be, live, leaked, done>> /\ LastHolders
  <2>1. boot = "dead"
    BY <1>3, <1>14
  <2>2. BooksInv' /\ connects' \in Nat
    BY <1>1, <2>1, Sizes DEF BooksInv
  <2>3. fault' \in {"none", "lost"} /\ FaultCause'
    BY <1>1, <1>14, <2>2, LostCause
  <2>4. FaultType' /\ swapped' \subseteq channels
    BY <1>14, <2>3 DEF IInv, TypeOK, FaultType
  <2> QED BY <1>9, <1>14, <2>1, <2>3, <2>4
<1> QED BY <1>10, <1>11, <1>12, <1>13, <1>14 DEF RunTask
(* ~ClientBootstrap in the loop thread.                                    *)
LEMMA DestroyInLoopInv ==
  ASSUME IInv, DestroyInLoop
  PROVE  IInv'
<1>1. /\ fault = "none" /\ boot = "alive" /\ boot' = "dead" /\ channel' = None /\ LastHolders
      /\ UNCHANGED <<delay, leaked, timers, done, channels, load, tasks, retry, found,
                     server, connects, resting>>
  BY DEF DestroyInLoop, Running
<1>2. BooksInv' /\ connects' \in Nat
  BY <1>1, Sizes DEF BooksInv
<1>3. fault' \in {"none", "lost"} /\ FaultCause'
  BY <1>1, <1>2, LostCause
<1>4. TasksType' /\ RestType' /\ FaultType'
  BY <1>1, <1>3 DEF IInv, TypeOK, TasksType, RestType, FaultType
<1>5. TaskInv'
  BY <1>1 DEF IInv, TaskInv
<1>6. Cardinality(channels') = Cardinality(channels) + 0 /\ Len(timers') = Len(timers) + 0
      /\ Cardinality(Queued') = Cardinality(Queued) + 0
  BY <1>1, QueuedKept, Sizes
<1>7. ASSUME live' \subseteq live, be' \in {be, None}, wanted' \in BOOLEAN,
             swapped' \subseteq channels, DeadInv'
      PROVE  IInv'
  <2>1. TypeOK'
    <3>1. ConnectorType'
      BY <1>1, <1>7 DEF IInv, TypeOK, ConnectorType
    <3>2. HolderType'
      BY <1>1, <1>7 DEF IInv, TypeOK, HolderType
    <3> QED BY <1>4, <3>1, <3>2 DEF TypeOK, ConnectorType, HolderType, TasksType, RestType, FaultType
  <2>2. IsFiniteSet(live') /\ Cardinality(live') <= Cardinality(live) /\ Cardinality(live') \in Nat
    BY <1>7, LessLive
  <2>3. FinInv'
    BY <1>1, <2>2 DEF IInv, FinInv
  <2>4. ChanInv'
    <3>1. None \notin channels
      BY NoneIsNot DEF IInv, TypeOK
    <3> QED BY <1>1, <1>7, <3>1 DEF IInv, ChanInv
  <2>5. OneChain'
    <3>1. PICK m \in Int, z \in Int : Cardinality(live') = Cardinality(live) + m /\ m <= 0 /\ z = 0
      <4>1. PICK x \in Nat, y \in Nat : x = Cardinality(live') /\ y = Cardinality(live)
        BY <2>2, Sizes
      <4>2. x - y \in Int /\ x = y + (x - y) /\ x - y <= 0
        BY <2>2, <4>1
      <4>3. PICK z \in Int : z = 0
        OBVIOUS
      <4> QED BY <4>1, <4>2, <4>3
    <3>2. /\ Cardinality(live') = Cardinality(live) + m
          /\ Cardinality(channels') = Cardinality(channels) + z /\ Len(timers') = Len(timers) + z
          /\ Cardinality(Queued') = Cardinality(Queued) + z
      BY <1>6, <3>1
    <3>3. Pending' = Pending + (m + z + z + z)
      BY <3>2, PendingMoves
    <3>4. Pending' <= connects'
      BY <1>1, <3>1, <3>3, PendingBound
    <3> QED BY <1>1, <3>4 DEF OneChain
  <2> QED BY <1>2, <1>3, <1>5, <1>7, <2>1, <2>3, <2>4, <2>5 DEF IInv
<1>8. CASE channel # None /\ swapped' = swapped \cup {channel} /\ UNCHANGED <<wanted, be, live>>
  <2>1. channel \in channels /\ swapped' \subseteq channels /\ wanted' \in BOOLEAN
    BY <1>8 DEF IInv, TypeOK, ChanInv
  <2>2. connects <= 1 => live = {} /\ channels = {channel}
    BY <1>1, <1>8, <2>1, OnlyOne DEF IInv, BooksInv
  <2>3. DeadInv'
    BY <1>1, <1>8, <2>2 DEF DeadInv
  <2> QED BY <1>7, <1>8, <2>1, <2>3
<1>9. CASE channel = None /\ wanted' = FALSE /\ DisconnectInLoop /\ UNCHANGED swapped
  <2>1. be' = None /\ live' = live \ {be} /\ swapped \subseteq channels
    BY <1>9 DEF DisconnectInLoop, IInv, TypeOK
  <2>2. connects <= 1 => live' = {} /\ channels = {}
    BY <1>1, <1>9, <2>1 DEF IInv, BooksInv
  <2>3. DeadInv'
    BY <1>1, <2>2 DEF DeadInv
  <2> QED BY <1>7, <1>9, <2>1, <2>3
<1> QED BY <1>8, <1>9 DEF DestroyInLoop

(* ~ClientBootstrap in another thread: it reads channel_ ...               *)
LEMMA DestroyBeginsInv ==
  ASSUME IInv, DestroyBegins
  PROVE  IInv'
<1>1. /\ fault = "none" /\ boot = "alive" /\ boot' = "dying" /\ found' = channel /\ "other" \in Users
      /\ UNCHANGED <<connector, holder, tasks, retry, server, fault, connects, resting>>
  BY DEF DestroyBegins, Running
<1>2. TypeOK'
  <2>1. ConnectorType' /\ HolderType' /\ TasksType' /\ FaultType'
    BY <1>1 DEF IInv, TypeOK, ConnectorType, HolderType, TasksType, FaultType, connector, holder
  <2>2. RestType'
    BY <1>1 DEF IInv, TypeOK, RestType
  <2> QED BY <2>1, <2>2 DEF TypeOK, ConnectorType, HolderType, TasksType, RestType, FaultType
<1>3. FinInv' /\ ChanInv' /\ TaskInv' /\ BooksInv' /\ DeadInv'
  BY <1>1 DEF IInv, FinInv, ChanInv, TaskInv, BooksInv, DeadInv, connector, holder
<1>4. Pending' = Pending
  BY <1>1 DEF Pending, connector, holder
<1>5. OneChain'
  BY <1>1, <1>4, PendingBound DEF OneChain
<1>6. FaultCause'
  BY <1>1 DEF FaultCause
<1> QED BY <1>2, <1>3, <1>5, <1>6 DEF IInv

(* ... and later queues the swap or disconnectInLoop().                    *)
LEMMA DestroyEndsInv ==
  ASSUME IInv, DestroyEnds
  PROVE  IInv'
<1>1. /\ fault = "none" /\ boot = "dying" /\ boot' = "dead" /\ channel' = None /\ found' = None
      /\ LastHolders
      /\ UNCHANGED <<be, delay, live, leaked, timers, done, channels, swapped, load,
                     retry, server, connects, resting>>
  BY DEF DestroyEnds, Running
<1>2. PICK task \in Task : task.op # "connect" /\ tasks' = Append(tasks, task)
  <2>1. CASE found # None /\ tasks' = Append(tasks, [op |-> "swap", ch |-> found])
    <3>1. [op |-> "swap", ch |-> found] \in Task
      BY DEF Task, IInv, TypeOK
    <3> QED BY <2>1, <3>1
  <2>2. CASE tasks' = Append(tasks, [op |-> "disconnect", ch |-> None])
    <3>1. [op |-> "disconnect", ch |-> None] \in Task
      BY DEF Task
    <3> QED BY <2>2, <3>1
  <2> QED BY <2>1, <2>2 DEF DestroyEnds
<1>3. wanted' \in BOOLEAN
  BY DEF DestroyEnds, IInv, TypeOK
<1>4. tasks' \in Seq(Task) /\ Cardinality(Queued') = Cardinality(Queued) + 0
  BY <1>2, QueuedAppend
<1>5. BooksInv' /\ connects' \in Nat
  BY <1>1, Sizes DEF BooksInv
<1>6. fault' \in {"none", "lost"} /\ FaultCause'
  BY <1>1, <1>5, LostCause
<1>7. TypeOK'
  <2>1. ConnectorType' /\ HolderType'
    BY <1>1, <1>3 DEF IInv, TypeOK, ConnectorType, HolderType
  <2>2. TasksType' /\ RestType' /\ FaultType'
    BY <1>1, <1>4, <1>6 DEF IInv, TypeOK, TasksType, RestType, FaultType
  <2> QED BY <2>1, <2>2 DEF TypeOK, ConnectorType, HolderType, TasksType, RestType, FaultType
<1>8. "other" \in Users
  BY <1>1 DEF IInv, TaskInv
<1>9. FinInv' /\ ChanInv' /\ TaskInv' /\ DeadInv'
  BY <1>1, <1>8 DEF IInv, FinInv, ChanInv, TaskInv, DeadInv
<1>10. OneChain'
  <2>1. PICK z \in Int : z = 0
    OBVIOUS
  <2>2. /\ Cardinality(live') = Cardinality(live) + z
        /\ Cardinality(channels') = Cardinality(channels) + z /\ Len(timers') = Len(timers) + z
        /\ Cardinality(Queued') = Cardinality(Queued) + z
    BY <1>1, <1>4, <2>1, Sizes
  <2>3. Pending' = Pending + (z + z + z + z)
    BY <2>2, PendingMoves
  <2> QED BY <1>1, <2>1, <2>3, PendingBound DEF OneChain
<1> QED BY <1>5, <1>6, <1>7, <1>9, <1>10 DEF IInv

LEMMA NextInv ==
  ASSUME IInv, [Next]_vars
  PROVE  IInv'
<1>1. CASE Connect
  BY <1>1, ConnectInv
<1>2. CASE EnableRetry
  BY <1>2, EnableRetryInv
<1>3. ASSUME NEW a \in Attempt, EventCaught(a) PROVE IInv'
  BY <1>3, EventCaughtInv
<1>4. ASSUME NEW a \in Attempt, ChannelCloses(a) PROVE IInv'
  BY <1>4, ChannelClosesInv
<1>5. CASE RetryTimer
  BY <1>5, RetryTimerInv
<1>6. CASE RunTask
  BY <1>6, RunTaskInv
<1>7. CASE DestroyInLoop
  BY <1>7, DestroyInLoopInv
<1>8. CASE DestroyBegins
  BY <1>8, DestroyBeginsInv
<1>9. CASE DestroyEnds
  BY <1>9, DestroyEndsInv
<1>10. CASE ServerChanges
  BY <1>10, ServerChangesInv
<1>11. CASE UNCHANGED vars
  <2>1. retry' \in BOOLEAN /\ found' \in Attempt \cup {None} /\ server' \in {"up", "refusing", "silent"}
    BY <1>11 DEF IInv, TypeOK, vars
  <2> QED BY <1>11, <2>1, QuietStep DEF vars, connector
<1> QED BY <1>1, <1>2, <1>3, <1>4, <1>5, <1>6, <1>7, <1>8, <1>9, <1>10, <1>11 DEF Next

LEMMA Invariance == Spec => []IInv
<1>1. Init => IInv
  BY InitInv
<1>2. IInv /\ [Next]_vars => IInv'
  BY NextInv
<1> QED BY <1>1, <1>2, PTL DEF Spec
-----------------------------------------------------------------------------
(* The theorems.                                                           *)

(* Retries and reconnections never multiply: connect() as often as you     *)
(* like, from any thread, with retry switched on and off, and each call    *)
(* pays for at most one queued task, attempt, timer or channel; after one  *)
(* call the chain has no gap either.  (retryAfter, handleNewConnection,    *)
(* removeChannel, ~ClientBootstrap.)                                       *)
THEOREM RetriesNeverMultiply == Spec => []OneChain
<1>1. IInv => OneChain
  BY DEF IInv
<1> QED BY <1>1, Invariance, PTL

(* After one connect() be_ is the one attempt, channel_ the one channel,   *)
(* and nothing is leaked; with any number of calls every open channel      *)
(* weighs one on its loop.                                                 *)
THEOREM BooksAreExact == Spec => []ExactBooks
<1>1. IInv => ExactBooks
  BY DEF IInv, ChanInv, BooksInv, ExactBooks
<1> QED BY <1>1, Invariance, PTL

(* The program breaks only in the ways FaultCause names: by a second       *)
(* connect(), by calls from outside the loop thread, or by destroying the  *)
(* ClientBootstrap while a retry is pending or its channel has no other    *)
(* holder.                                                                 *)
THEOREM FaultsHaveCauses == Spec => []FaultCause
<1>1. IInv => FaultCause
  BY DEF IInv
<1> QED BY <1>1, Invariance, PTL
=============================================================================

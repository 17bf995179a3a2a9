------------------------ MODULE ServerBootstrap_proofs ------------------------
(***************************************************************************)
(* Theorems about ServerBootstrap, for any number of servers, loops and    *)
(* connections, with and without another holder of the group.              *)
(*                                                                         *)
(* The invariant relates the phases of the servers, the life of a channel, *)
(* the maps and the tasks under way.  Who can be dying at once, and what a *)
(* map still holds then, is what FaultCause rests on; which connections a  *)
(* loop carries is what the loads count.                                   *)
(***************************************************************************)
EXTENDS ServerBootstrap, FiniteSetTheorems, SequenceTheorems, TLAPS

(* The channels that count in the load of a loop.                          *)
Carried(l) == {c \in Conn : at[c] = l /\ (conn[c] # "closed" \/ c \in leaked)}

(* A server that started has a group that started; the servers that share  *)
(* one find it started, or not, together.                                  *)
ReadyInv ==
    /\ ready \subseteq Server
    /\ phase \in [Server -> {"idle", "started", "listening", "sweeping", "stopping", "dead"}]
    /\ ~OwnGroups => ready \in {{}, Server}
    /\ \A s \in Server : phase[s] \in {"started", "listening"} => s \in ready

(* One server dies at a time, and while it does nothing is being placed.   *)
PhaseInv ==
    /\ picking # None =>
          /\ \A s \in Server : ~Dying(s)
          /\ conn[picking] = "none" /\ of[picking] \in Server
          /\ phase[of[picking]] = "listening"
    /\ \A s, t \in Server : Dying(s) /\ Dying(t) => s = t
    /\ \A s \in Server : phase[s] = "stopping" => LastHolder(s)
    /\ loops # {Base} /\ ~kept /\ Server # {} /\ (\A s \in Server : phase[s] = "dead") =>
          \A l \in Workers : status[l] = "stopped"

(* A connection that was placed has a loop and a server that listened.     *)
ConnInv ==
    /\ \A c \in Conn :
          \/ conn[c] = "none" /\ at[c] = None
          \/ /\ conn[c] # "none" /\ of[c] \in Server /\ at[c] \in loops
             /\ phase[of[c]] \notin {"idle", "started"}
    /\ \A c \in leaked :
          /\ conn[c] = "closed" /\ of[c] \in Server
          /\ Dying(of[c]) \/ phase[of[c]] = "dead"

(* What the maps hold, and what they cannot miss.                          *)
HeldInv ==
    /\ \A s \in Server : \A l \in Loops : \A c \in hodlers[s][l] :
          conn[c] = "open" /\ of[c] = s /\ at[c] = l
    /\ \A c \in Conn : conn[c] = "open" /\ (phase[of[c]] = "listening" \/ at[c] = Base) =>
          c \in hodlers[of[c]][at[c]]
    /\ \A c \in Conn : conn[c] = "open" /\ at[c] = Base =>
          phase[of[c]] \in {"listening", "sweeping"}
    /\ \A s \in Server :
          phase[s] = "sweeping" /\ loops = {Base} /\ Base \in swept => hodlers[s][Base] = {}

(* A task for a channel that has still to open, and one for a channel that *)
(* the destructor took out of its map.                                     *)
Arriving(l, c) == conn[c] = "accepted" /\ at[c] = l

Condemned(c) ==
    /\ conn[c] \in {"open", "closed"} /\ of[c] \in Server
    /\ Dying(of[c]) \/ phase[of[c]] = "dead"
    /\ \A s \in Server : \A l \in Loops : c \notin hodlers[s][l]

TaskOK(l, task) ==
    /\ task.op # "exit" => task.c \in Conn
    /\ task.op = "new" => Arriving(l, task.c)
    /\ task.op = "destroyed" => Condemned(task.c)

TasksOK == \A l \in Workers : \A i \in 1..Len(queue[l]) : TaskOK(l, queue[l][i])

Distinct(q) ==
    \A i, j \in 1..Len(q) : q[i].op = "new" /\ q[j].op = "new" /\ q[i].c = q[j].c => i = j

QueueInv == TasksOK /\ \A l \in Workers : Distinct(queue[l])

LoadInv == \A l \in Loops : IsFiniteSet(Carried(l)) /\ load[l] = Cardinality(Carried(l))

SpreadInv ==
    (\A c \in Conn : conn[c] # "closed") =>
        /\ picking # None => seen = load
        /\ \A l, k \in loops : load[l] <= load[k] + 1

IInv ==
    /\ TypeOK
    /\ PhaseInv
    /\ ConnInv
    /\ HeldInv
    /\ QueueInv
    /\ LoadInv
    /\ SpreadInv
    /\ FaultCause

BaseType ==
    /\ loops \in {Workers, {Base}}
    /\ kept \in BOOLEAN
    /\ ready \subseteq Server
    /\ phase \in [Server -> {"idle", "started", "listening", "sweeping", "stopping", "dead"}]
    /\ wheels \subseteq Server
    /\ listens \subseteq Server
    /\ picking \in {None} \cup Conn
    /\ seen \in [Loops -> Nat]
    /\ swept \subseteq loops

ChanType ==
    /\ conn \in [Conn -> {"none", "accepted", "open", "closed"}]
    /\ of \in [Conn -> Server \cup {None}]
    /\ at \in [Conn -> Loops \cup {None}]
    /\ hodlers \in [Server -> [Loops -> SUBSET Conn]]
    /\ leaked \subseteq Conn

LoadType == load \in [Loops -> Nat]

QueueType ==
    /\ queue \in [Workers -> Seq(Task)]
    /\ status \in [Workers -> {"running", "asked", "exiting", "stopped"}]

FaultType == fault \in {"none", "freed", "listen", "iterator", "orphan", "base", "recursion"}

LEMMA TypeGroups == TypeOK <=> BaseType /\ ChanType /\ LoadType /\ QueueType /\ FaultType
BY DEF TypeOK, BaseType, ChanType, LoadType, QueueType, FaultType

LEMMA NotNone ==
    /\ Base \notin Workers /\ None # Base /\ None \notin Server
    /\ None \notin Conn /\ None \notin Loops /\ Base \in Loops /\ Workers \subseteq Loops
BY BaseAssumption, NoneAssumption DEF Loops

LEMMA SomeLoops ==
  ASSUME IInv
  PROVE  /\ loops \subseteq Loops
         /\ loops # {Base} => loops = Workers /\ Base \notin loops
         /\ Base \in loops => loops = {Base}
BY NotNone DEF IInv, TypeOK, Loops

(* The base loop never has a channel unless it is the only loop.           *)
LEMMA Placed ==
  ASSUME IInv, NEW c \in Conn, conn[c] # "none"
  PROVE  /\ of[c] \in Server /\ at[c] \in loops /\ at[c] \in Loops
         /\ phase[of[c]] \notin {"idle", "started"}
         /\ at[c] = Base <=> loops = {Base}
         /\ at[c] \in Workers <=> loops # {Base}
BY SomeLoops, NotNone DEF IInv, ConnInv, Loops
-----------------------------------------------------------------------------
(* Facts about queues.                                                     *)

LEMMA TaskType ==
    /\ Job("exit", None) \in Task
    /\ \A c \in Conn : Job("new", c) \in Task /\ Job("destroyed", c) \in Task
    /\ \A op, c : Job(op, c).op = op /\ Job(op, c).c = c
BY DEF Task, Job

LEMMA AppendFacts ==
  ASSUME NEW S, NEW s \in Seq(S), NEW e \in S
  PROVE  /\ Append(s, e) \in Seq(S)
         /\ Len(s) \in Nat
         /\ Len(Append(s, e)) = Len(s) + 1
         /\ \A i \in 1..Len(s) : Append(s, e)[i] = s[i]
         /\ Append(s, e)[Len(s) + 1] = e
BY AppendProperties, LenProperties

LEMMA TailFacts ==
  ASSUME NEW S, NEW s \in Seq(S), s # <<>>
  PROVE  /\ Head(s) = s[1] /\ Head(s) \in S
         /\ Tail(s) \in Seq(S)
         /\ Len(s) \in Nat \ {0}
         /\ Len(Tail(s)) = Len(s) - 1
         /\ \A i \in 1..(Len(s) - 1) : Tail(s)[i] = s[i + 1]
BY HeadTailProperties, LenProperties, EmptySeq

LEMMA DistinctTail ==
  ASSUME NEW q \in Seq(Task), q # <<>>, Distinct(q)
  PROVE  /\ Distinct(Tail(q))
         /\ \A i \in 1..Len(Tail(q)) :
               Head(q).op = "new" /\ Tail(q)[i].op = "new" => Tail(q)[i].c # Head(q).c
<1>1. /\ Head(q) = q[1] /\ Len(q) \in Nat \ {0} /\ Len(Tail(q)) = Len(q) - 1
      /\ \A i \in 1..(Len(q) - 1) : Tail(q)[i] = q[i + 1]
  BY TailFacts
<1>2. ASSUME NEW i \in 1..Len(Tail(q))
      PROVE  /\ Tail(q)[i] = q[i + 1] /\ i + 1 \in 1..Len(q) /\ 1 \in 1..Len(q)
             /\ i \in Nat /\ i + 1 # 1
  BY <1>1
<1>3. Distinct(Tail(q))
  <2> SUFFICES ASSUME NEW i \in 1..Len(Tail(q)), NEW j \in 1..Len(Tail(q)),
                      Tail(q)[i].op = "new", Tail(q)[j].op = "new", Tail(q)[i].c = Tail(q)[j].c
               PROVE  i = j
    BY DEF Distinct
  <2>1. i + 1 = j + 1
    BY <1>2 DEF Distinct
  <2> QED BY <1>2, <2>1
<1>4. ASSUME NEW i \in 1..Len(Tail(q)), Head(q).op = "new", Tail(q)[i].op = "new"
      PROVE  Tail(q)[i].c # Head(q).c
  BY <1>1, <1>2, <1>4 DEF Distinct
<1> QED BY <1>3, <1>4

(* A queue that grows by tasks other than newChannelLoop().                *)
LEMMA DistinctMore ==
  ASSUME NEW q \in Seq(Task), NEW r \in Seq(Task), Distinct(q), Len(r) >= Len(q),
         \A i \in 1..Len(q) : r[i] = q[i],
         \A i \in 1..Len(r) : i > Len(q) => r[i].op # "new"
  PROVE  Distinct(r)
<1>1. Len(q) \in Nat /\ Len(r) \in Nat
  BY LenProperties
<1>2. ASSUME NEW i \in 1..Len(r), r[i].op = "new"
      PROVE  i \in 1..Len(q) /\ q[i] = r[i]
  BY <1>1, <1>2
<1> QED BY <1>2 DEF Distinct

LEMMA DistinctAppend ==
  ASSUME NEW q \in Seq(Task), NEW task \in Task, Distinct(q),
         \A i \in 1..Len(q) : q[i].op = "new" => q[i].c # task.c
  PROVE  Distinct(Append(q, task))
<1>1. /\ Len(q) \in Nat /\ Len(Append(q, task)) = Len(q) + 1
      /\ \A i \in 1..Len(q) : Append(q, task)[i] = q[i]
      /\ Append(q, task)[Len(q) + 1] = task
  BY AppendFacts
<1>2. \A i \in 1..Len(Append(q, task)) : i \in 1..Len(q) \/ i = Len(q) + 1
  BY <1>1
<1> QED BY <1>1, <1>2 DEF Distinct

LEMMA TaskOp ==
  ASSUME IInv, NEW l \in Workers, NEW i \in 1..Len(queue[l])
  PROVE  queue[l] \in Seq(Task) /\ Len(queue[l]) \in Nat /\ queue[l][i] \in Task
<1>1. queue[l] \in Seq(Task)
  BY DEF IInv, TypeOK
<1> QED BY <1>1, ElementOfSeq, LenProperties
-----------------------------------------------------------------------------
(* What a step that leaves the loads, or the loops, alone preserves.       *)

LEMMA LoadKept ==
  ASSUME IInv, UNCHANGED <<conn, at, load, leaked>>
  PROVE  LoadInv'
BY DEF IInv, LoadInv, Carried

LEMMA SpreadKept ==
  ASSUME IInv, UNCHANGED <<loops, conn, load>>,
         picking' # None => (picking' = picking /\ seen' = seen) \/ seen' = load
  PROVE  SpreadInv'
BY DEF IInv, SpreadInv

(* Tasks stay right when channels, maps and queues do, and nobody comes    *)
(* back to life.                                                           *)
LEMMA TasksKept ==
  ASSUME IInv, UNCHANGED <<conn, of, at, queue>>,
         \A s \in Server : Dying(s) \/ phase[s] = "dead" => Dying(s)' \/ phase'[s] = "dead",
         \A s \in Server : \A l \in Loops : hodlers'[s][l] \subseteq hodlers[s][l]
  PROVE  QueueInv'
<1>1. ASSUME NEW c, Condemned(c) PROVE Condemned(c)'
  BY <1>1 DEF Condemned
<1>2. TasksOK'
  BY <1>1 DEF IInv, QueueInv, TasksOK, TaskOK, Arriving
<1> QED BY <1>2 DEF IInv, QueueInv
-----------------------------------------------------------------------------
(* The steps.                                                              *)

LEMMA InitInv == Init => IInv
<1> SUFFICES ASSUME Init PROVE IInv
  OBVIOUS
<1>1. QueueType
  BY EmptySeq DEF Init, QueueType
<1>2. BaseType /\ LoadType /\ FaultType
  BY DEF Init, BaseType, LoadType, FaultType
<1>3. ChanType
  BY DEF Init, ChanType, NoChannels
<1>4. TypeOK
  BY <1>1, <1>2, <1>3, TypeGroups
<1>5. PhaseInv /\ ConnInv
  BY NotNone DEF Init, PhaseInv, ConnInv, Dying
<1>6. HeldInv
  BY DEF Init, HeldInv, NoChannels
<1>7. QueueInv
  BY EmptySeq DEF Init, QueueInv, TasksOK, Distinct
<1>8. LoadInv
  <2>1. \A l \in Loops : Carried(l) = {}
    BY NotNone DEF Init, Carried
  <2> QED BY <2>1, FS_EmptySet DEF Init, LoadInv
<1>9. SpreadInv
  BY SomeLoops, NotNone DEF Init, SpreadInv, Loops
<1>10. FaultCause
  BY DEF Init, FaultCause
<1> QED BY <1>4, <1>5, <1>6, <1>7, <1>8, <1>9, <1>10 DEF IInv

(* Nobody starts, or the one that does has seen to its group.              *)
LEMMA ReadyKept ==
  ASSUME ReadyInv, [Next]_vars
  PROVE  ReadyInv'
<1>1. CASE UNCHANGED <<loops, kept, ready, phase>>
  BY <1>1 DEF ReadyInv, OwnGroups
<1>2. ASSUME NEW s \in Server, Start(s) PROVE ReadyInv'
  <2>1. UNCHANGED <<loops, kept>>
    BY <1>2 DEF Start
  <2>2. CASE UNCHANGED <<ready, phase>>
    BY <2>1, <2>2 DEF ReadyInv, OwnGroups
  <2>3. CASE /\ ready' = IF OwnGroups THEN ready \cup {s} ELSE Server
             /\ phase' = [phase EXCEPT ![s] = "listening"]
    BY <2>1, <2>3 DEF ReadyInv, OwnGroups
  <2>4. CASE s \in ready /\ ready' = ready /\ phase' = [phase EXCEPT ![s] = "started"]
    BY <2>1, <2>4 DEF ReadyInv, OwnGroups
  <2> QED BY <1>2, <2>2, <2>3, <2>4 DEF Start, OffLoop
<1>3. ASSUME NEW s \in Server, NEW p \in {"sweeping", "stopping", "dead"},
             phase' = [phase EXCEPT ![s] = p], UNCHANGED <<loops, kept, ready>>
      PROVE  ReadyInv'
  BY <1>3 DEF ReadyInv, OwnGroups
<1>4. ASSUME NEW s \in Server, Listen(s) PROVE ReadyInv'
  <2>1. UNCHANGED <<loops, kept, ready>>
    BY <1>4 DEF Listen
  <2>2. CASE UNCHANGED phase
    BY <2>1, <2>2 DEF ReadyInv, OwnGroups
  <2>3. CASE phase[s] = "started" /\ phase' = [phase EXCEPT ![s] = "listening"]
    BY <2>1, <2>3 DEF ReadyInv, OwnGroups
  <2> QED BY <1>4, <2>2, <2>3 DEF Listen
<1>5. ASSUME NEW s \in Server, BeginDestroy(s) \/ StopGroup(s) \/ FreeMembers(s) PROVE ReadyInv'
  BY <1>3, <1>5 DEF BeginDestroy, StopGroup, FreeMembers
<1>6. ASSUME NEW s \in Server, NEW c \in Conn, NewChannel(s, c) PROVE ReadyInv'
  BY <1>1, <1>6 DEF NewChannel
<1>7. ASSUME NEW l \in loops, LightWeighted(l) PROVE ReadyInv'
  BY <1>1, <1>7 DEF LightWeighted
<1>8. ASSUME NEW s \in Server, NEW l \in loops, SweepHolder(s, l) PROVE ReadyInv'
  BY <1>1, <1>8 DEF SweepHolder
<1>9. ASSUME NEW l \in Workers, StopThread(l) \/ RunTask(l) \/ LoopExits(l) PROVE ReadyInv'
  BY <1>1, <1>9 DEF StopThread, RunTask, LoopExits, base
<1>10. ASSUME NEW c \in Conn, Close(c) \/ Traffic(c) PROVE ReadyInv'
  BY <1>1, <1>10 DEF Close, Traffic, base
<1>11. CASE UNCHANGED vars
  BY <1>1, <1>11 DEF vars, base
<1> QED BY <1>2, <1>4, <1>5, <1>6, <1>7, <1>8, <1>9, <1>10, <1>11 DEF Next, Destructor

(* A server starts, at once or by a task, or recurses.                     *)
LEMMA StartInv ==
  ASSUME IInv, ReadyInv, NEW s \in Server, Start(s)
  PROVE  IInv'
<1>1. /\ phase[s] = "idle" /\ fault = "none"
      /\ ready' \subseteq Server /\ wheels' \subseteq Server /\ listens' \subseteq Server
      /\ UNCHANGED <<loops, kept, picking, seen, swept, chans, queue, status>>
  BY DEF Start, OffLoop, IInv, TypeOK
<1>2. PICK p \in {"idle", "listening", "started"} :
         phase'[s] = p /\ \A t \in Server \ {s} : phase'[t] = phase[t]
  BY DEF Start, OffLoop, IInv, TypeOK
<1>3. TypeOK'
  <2>1. phase' \in [Server -> {"idle", "started", "listening", "sweeping", "stopping", "dead"}]
    BY DEF Start, OffLoop, IInv, TypeOK
  <2>2. BaseType'
    BY <1>1, <2>1 DEF IInv, TypeOK, BaseType
  <2>3. FaultType'
    BY <1>1 DEF Start, OffLoop, FaultType
  <2>4. ChanType' /\ LoadType' /\ QueueType'
    BY <1>1 DEF IInv, TypeOK, ChanType, LoadType, QueueType, chans
  <2> QED BY <2>2, <2>3, <2>4 DEF TypeOK, BaseType, ChanType, LoadType, QueueType, FaultType
<1>4. \A t \in Server : Dying(t)' <=> Dying(t)
  BY <1>1, <1>2 DEF Dying
<1>5. PhaseInv'
  <2>1. phase'[s] # "stopping" /\ phase'[s] # "dead"
    BY <1>2
  <2>2. \A t \in Server : phase'[t] = "stopping" => phase[t] = "stopping"
    BY <1>2, <2>1
  <2>3. \A t \in Server : phase[t] # "stopping" 
    BY <1>1 DEF IInv, PhaseInv, LastHolder, Dying
  <2> QED BY <1>1, <1>2, <1>4, <2>1, <2>2, <2>3 DEF IInv, PhaseInv, chans
<1>6. ConnInv'
  BY <1>1, <1>2, <1>4 DEF IInv, ConnInv, chans
<1>7. \A c \in Conn : conn[c] # "none" => of[c] \in Server /\ of[c] # s
  BY <1>1, Placed
<1>8. HeldInv'
  BY <1>1, <1>2, <1>7 DEF IInv, HeldInv, chans
<1>9. QueueInv'
  BY <1>1, <1>2, <1>4, TasksKept DEF chans
<1>10. LoadInv' /\ SpreadInv'
  BY <1>1, LoadKept, SpreadKept DEF chans
<1>11. FaultCause'
  <2>1. CASE fault' = "none"
    BY <2>1 DEF FaultCause
  <2>2. CASE s \notin ready /\ fault' = "recursion" /\ UNCHANGED <<ready, phase>>
    BY <1>1, <2>2 DEF FaultCause, ReadyInv, OwnGroups
  <2> QED BY <1>1, <2>1, <2>2 DEF Start, OffLoop
<1> QED BY <1>3, <1>5, <1>6, <1>8, <1>9, <1>10, <1>11 DEF IInv

LEMMA ListenInv ==
  ASSUME IInv, NEW s \in Server, Listen(s)
  PROVE  IInv'
<1>1. /\ UNCHANGED <<loops, kept, ready, wheels, picking, seen, swept, chans, queue, status>>
      /\ listens' = listens \ {s} /\ fault = "none"
      /\ \A t \in Server : ~Dying(t)
  BY DEF Listen, BaseFree
<1>2. CASE phase[s] = "started" /\ phase' = [phase EXCEPT ![s] = "listening"] /\ UNCHANGED fault
  <2>1. phase'[s] = "listening" /\ \A t \in Server \ {s} : phase'[t] = phase[t]
    BY <1>2 DEF IInv, TypeOK
  <2>2. TypeOK'
    <3>1. BaseType'
      BY <1>1, <1>2 DEF IInv, TypeOK, BaseType
    <3>2. ChanType' /\ LoadType' /\ QueueType' /\ FaultType'
      BY <1>1, <1>2 DEF IInv, TypeOK, ChanType, LoadType, QueueType, FaultType, chans
    <3> QED BY <3>1, <3>2 DEF TypeOK, BaseType, ChanType, LoadType, QueueType, FaultType
  <2>3. \A t \in Server : ~Dying(t) /\ ~Dying(t)'
    BY <1>1, <1>2, <2>1 DEF Dying
  <2>4. PhaseInv'
    BY <1>1, <1>2, <2>1, <2>3 DEF IInv, PhaseInv, chans, Dying
  <2>5. ConnInv'
    BY <1>1, <1>2, <2>1, <2>3 DEF IInv, ConnInv, chans
  <2>6. \A c \in Conn : conn[c] # "none" => of[c] \in Server /\ of[c] # s
    BY <1>2, Placed
  <2>7. HeldInv'
    BY <1>1, <2>1, <2>6 DEF IInv, HeldInv, chans
  <2>8. QueueInv'
    BY <1>1, <1>2, <2>1, <2>3, TasksKept DEF chans
  <2>9. LoadInv' /\ SpreadInv'
    BY <1>1, LoadKept, SpreadKept DEF chans
  <2>10. FaultCause'
    BY <1>1, <1>2 DEF FaultCause
  <2> QED BY <2>2, <2>4, <2>5, <2>7, <2>8, <2>9, <2>10 DEF IInv
<1>3. CASE phase[s] = "dead" /\ fault' = "listen" /\ UNCHANGED phase
  <2>1. TypeOK'
    <3>1. BaseType'
      BY <1>1, <1>3 DEF IInv, TypeOK, BaseType
    <3>2. ChanType' /\ LoadType' /\ QueueType' /\ FaultType'
      BY <1>1, <1>3 DEF IInv, TypeOK, ChanType, LoadType, QueueType, FaultType, chans
    <3> QED BY <3>1, <3>2 DEF TypeOK, BaseType, ChanType, LoadType, QueueType, FaultType
  <2>2. PhaseInv' /\ ConnInv' /\ HeldInv'
    BY <1>1, <1>3 DEF IInv, PhaseInv, ConnInv, HeldInv, chans, Dying, LastHolder
  <2>3. QueueInv'
    BY <1>1, <1>3, TasksKept DEF chans, Dying
  <2>4. LoadInv' /\ SpreadInv'
    BY <1>1, LoadKept, SpreadKept DEF chans
  <2>5. FaultCause'
    BY <1>3 DEF FaultCause
  <2> QED BY <2>1, <2>2, <2>3, <2>4, <2>5 DEF IInv
<1> QED BY <1>2, <1>3 DEF Listen

(* A connection is accepted: its server listens, and it has no loop yet.   *)
LEMMA NewChannelInv ==
  ASSUME IInv, NEW s \in Server, NEW c \in Conn, NewChannel(s, c)
  PROVE  IInv'
<1>1. /\ BaseFree /\ phase[s] = "listening" /\ conn[c] = "none"
      /\ picking' = c /\ seen' = load /\ of' = [of EXCEPT ![c] = s]
      /\ UNCHANGED <<loops, kept, ready, phase, wheels, listens, swept, conn, at, hodlers, load, leaked, queue, status, fault>>
  BY DEF NewChannel
<1>2. of'[c] = s /\ \A d \in Conn : conn[d] # "none" => of'[d] = of[d]
  BY <1>1 DEF IInv, TypeOK
<1>3. TypeOK'
  <2>1. BaseType'
    BY <1>1 DEF IInv, TypeOK, BaseType
  <2>2. ChanType' /\ LoadType' /\ QueueType' /\ FaultType'
    BY <1>1 DEF IInv, TypeOK, ChanType, LoadType, QueueType, FaultType
  <2> QED BY <2>1, <2>2 DEF TypeOK, BaseType, ChanType, LoadType, QueueType, FaultType
<1>4. PhaseInv'
  BY <1>1, <1>2 DEF IInv, PhaseInv, BaseFree, Dying, LastHolder
<1>5. ConnInv'
  <2>1. leaked \subseteq Conn
    BY DEF IInv, TypeOK
  <2> QED BY <1>1, <1>2, <2>1 DEF IInv, ConnInv, Dying
<1>6. HeldInv'
  <2>1. \A t \in Server : \A l \in Loops : hodlers[t][l] \subseteq Conn
    BY DEF IInv, TypeOK
  <2> QED BY <1>1, <1>2, <2>1 DEF IInv, HeldInv
<1>7. QueueInv'
  <2>1. ASSUME NEW d \in Conn, Condemned(d) PROVE Condemned(d)'
    BY <1>1, <1>2, <2>1 DEF Condemned, Dying
  <2>2. TasksOK'
    <3> SUFFICES ASSUME NEW l \in Workers, NEW i \in 1..Len(queue[l])
                 PROVE  TaskOK(l, queue[l][i])'
      BY <1>1 DEF TasksOK
    <3>1. queue[l][i].op \in {"new", "destroyed", "exit"}
      BY TaskOp DEF Task
    <3> QED BY <1>1, <2>1, <3>1 DEF IInv, QueueInv, TasksOK, TaskOK, Arriving
  <2> QED BY <1>1, <2>2 DEF IInv, QueueInv
<1>8. LoadInv' /\ SpreadInv'
  BY <1>1, LoadKept, SpreadKept
<1>9. FaultCause'
  BY <1>1 DEF FaultCause, BaseFree
<1> QED BY <1>3, <1>4, <1>5, <1>6, <1>7, <1>8, <1>9 DEF IInv

LEMMA BeginDestroyInv ==
  ASSUME IInv, NEW s \in Server, BeginDestroy(s)
  PROVE  IInv'
<1>1. /\ BaseFree /\ phase[s] \in {"idle", "started", "listening"}
      /\ phase' = [phase EXCEPT ![s] = "sweeping"] /\ swept' = {}
      /\ UNCHANGED <<loops, kept, ready, wheels, listens, picking, seen, chans, queue, status, fault>>
  BY DEF BeginDestroy
<1>2. phase'[s] = "sweeping" /\ \A t \in Server \ {s} : phase'[t] = phase[t]
  BY <1>1 DEF IInv, TypeOK
<1>3. TypeOK'
  <2>1. BaseType'
    BY <1>1 DEF IInv, TypeOK, BaseType
  <2>2. ChanType' /\ LoadType' /\ QueueType' /\ FaultType'
    BY <1>1 DEF IInv, TypeOK, ChanType, LoadType, QueueType, FaultType, chans
  <2> QED BY <2>1, <2>2 DEF TypeOK, BaseType, ChanType, LoadType, QueueType, FaultType
<1>4. \A t \in Server : ~Dying(t) /\ (Dying(t)' <=> t = s)
  BY <1>1, <1>2 DEF BaseFree, Dying
<1>5. PhaseInv'
  BY <1>1, <1>2, <1>4 DEF IInv, PhaseInv, BaseFree, Dying
<1>6. ConnInv'
  BY <1>1, <1>2, <1>4 DEF IInv, ConnInv, chans
<1>7. HeldInv'
  <2>1. \A c \in Conn : conn[c] # "none" => of[c] \in Server
    BY Placed
  <2>2. \A c \in Conn : conn[c] = "open" /\ at[c] = Base => phase[of[c]] \in {"listening"}
    BY <1>4, <2>1 DEF IInv, HeldInv, Dying
  <2> QED BY <1>1, <1>2, <2>1, <2>2 DEF IInv, HeldInv, chans
<1>8. QueueInv'
  BY <1>1, <1>2, <1>4, TasksKept DEF chans
<1>9. LoadInv' /\ SpreadInv'
  BY <1>1, LoadKept, SpreadKept DEF chans
<1>10. FaultCause'
  BY <1>1 DEF FaultCause, BaseFree
<1> QED BY <1>3, <1>5, <1>6, <1>7, <1>8, <1>9, <1>10 DEF IInv

LEMMA StopGroupInv ==
  ASSUME IInv, NEW s \in Server, StopGroup(s)
  PROVE  IInv'
<1>1. /\ fault = "none" /\ phase[s] = "sweeping" /\ LastHolder(s)
      /\ phase' = [phase EXCEPT ![s] = "stopping"]
      /\ UNCHANGED <<loops, kept, ready, wheels, listens, picking, seen, swept, chans, queue, status, fault>>
  BY DEF StopGroup, Swept
<1>2. phase'[s] = "stopping" /\ \A t \in Server \ {s} : phase'[t] = phase[t]
  BY <1>1 DEF IInv, TypeOK
<1>3. TypeOK'
  <2>1. BaseType'
    BY <1>1 DEF IInv, TypeOK, BaseType
  <2>2. ChanType' /\ LoadType' /\ QueueType' /\ FaultType'
    BY <1>1 DEF IInv, TypeOK, ChanType, LoadType, QueueType, FaultType, chans
  <2> QED BY <2>1, <2>2 DEF TypeOK, BaseType, ChanType, LoadType, QueueType, FaultType
<1>4. /\ picking = None
      /\ \A t \in Server : (Dying(t)' <=> Dying(t)) /\ (Dying(t) <=> t = s)
  BY <1>1, <1>2 DEF IInv, PhaseInv, Dying
<1>5. PhaseInv'
  BY <1>1, <1>2, <1>4 DEF IInv, PhaseInv, LastHolder
<1>6. ConnInv'
  BY <1>1, <1>2, <1>4 DEF IInv, ConnInv, chans
<1>7. HeldInv'
  <2>1. \A c \in Conn : conn[c] = "open" => of[c] \in Server /\ at[c] # Base
    BY <1>1, Placed DEF LastHolder
  <2> QED BY <1>1, <1>2, <2>1 DEF IInv, HeldInv, chans, LastHolder
<1>8. QueueInv'
  BY <1>1, <1>2, <1>4, TasksKept DEF chans
<1>9. LoadInv' /\ SpreadInv'
  BY <1>1, LoadKept, SpreadKept DEF chans
<1>10. FaultCause'
  BY <1>1 DEF FaultCause
<1> QED BY <1>3, <1>5, <1>6, <1>7, <1>8, <1>9, <1>10 DEF IInv

(* The threads stop, one by one.                                           *)
LEMMA StopThreadInv ==
  ASSUME IInv, NEW l \in Workers, StopThread(l)
  PROVE  IInv'
<1>1. PICK s \in Server : phase[s] = "stopping"
  BY DEF StopThread
<1>2. /\ fault = "none" /\ status[l] = "running"
      /\ status' = [status EXCEPT ![l] = "asked"]
      /\ queue' = [queue EXCEPT ![l] = Append(@, Job("exit", None))]
      /\ UNCHANGED <<base, chans, fault>>
  BY DEF StopThread, AskToStop
<1>3. queue \in [Workers -> Seq(Task)]
  BY DEF IInv, TypeOK
<1>4. /\ queue'[l] \in Seq(Task) /\ Len(queue'[l]) = Len(queue[l]) + 1 /\ Len(queue[l]) \in Nat
      /\ \A i \in 1..Len(queue[l]) : queue'[l][i] = queue[l][i]
      /\ queue'[l][Len(queue[l]) + 1] = Job("exit", None)
      /\ \A k \in Workers \ {l} : queue'[k] = queue[k]
  BY <1>2, <1>3, AppendFacts, TaskType
<1>5. TypeOK'
  <2>1. QueueType'
    BY <1>2, <1>3, <1>4 DEF IInv, TypeOK, QueueType
  <2>2. BaseType' /\ ChanType' /\ LoadType' /\ FaultType'
    BY <1>2 DEF IInv, TypeOK, BaseType, ChanType, LoadType, FaultType, base, chans
  <2> QED BY <2>1, <2>2 DEF TypeOK, BaseType, ChanType, LoadType, QueueType, FaultType
<1>6. PhaseInv'
  BY <1>1, <1>2 DEF IInv, PhaseInv, base, chans, Dying, LastHolder
<1>7. ConnInv' /\ HeldInv'
  BY <1>2 DEF IInv, ConnInv, HeldInv, base, chans, Dying
<1>8. QueueInv'
  <2>1. ASSUME NEW c, Condemned(c) PROVE Condemned(c)'
    BY <1>2, <2>1 DEF Condemned, base, chans, Dying
  <2>2. ASSUME NEW k \in Workers, NEW task, TaskOK(k, task) PROVE TaskOK(k, task)'
    BY <1>2, <2>1, <2>2 DEF TaskOK, Arriving, chans
  <2>3. ASSUME NEW k \in Workers, NEW i \in 1..Len(queue'[k]) PROVE TaskOK(k, queue[k][i])'
    <3>1. CASE k = l /\ i = Len(queue[l]) + 1
      BY <1>4, <3>1, TaskType DEF TaskOK
    <3>2. CASE ~(k = l /\ i = Len(queue[l]) + 1)
      <4>1. i \in 1..Len(queue[k]) /\ queue'[k][i] = queue[k][i]
        BY <1>4, <3>2
      <4> QED BY <2>2, <4>1 DEF IInv, QueueInv, TasksOK, TaskOK
    <3> QED BY <3>1, <3>2
  <2>4. Distinct(queue'[l])
    <3>1. \A i \in 1..Len(queue'[l]) : i > Len(queue[l]) => queue'[l][i].op # "new"
      BY <1>4, TaskType
    <3> QED BY <1>3, <1>4, <3>1, DistinctMore DEF IInv, QueueInv
  <2>5. ASSUME NEW k \in Workers PROVE Distinct(queue'[k])
    BY <1>4, <2>4 DEF IInv, QueueInv
  <2> QED BY <2>3, <2>5 DEF QueueInv, TasksOK, Distinct
<1>9. LoadInv' /\ SpreadInv'
  BY <1>2, LoadKept, SpreadKept DEF base, chans
<1>10. FaultCause'
  BY <1>2 DEF FaultCause
<1> QED BY <1>5, <1>6, <1>7, <1>8, <1>9, <1>10 DEF IInv

LEMMA LoopExitsInv ==
  ASSUME IInv, NEW l \in Workers, LoopExits(l)
  PROVE  IInv'
<1>1. /\ fault = "none" /\ status' = [status EXCEPT ![l] = "stopped"]
      /\ UNCHANGED <<base, chans, queue, fault>>
  BY DEF LoopExits
<1>2. TypeOK'
  <2>1. QueueType'
    BY <1>1 DEF IInv, TypeOK, QueueType
  <2>2. BaseType' /\ ChanType' /\ LoadType' /\ FaultType'
    BY <1>1 DEF IInv, TypeOK, BaseType, ChanType, LoadType, FaultType, base, chans
  <2> QED BY <2>1, <2>2 DEF TypeOK, BaseType, ChanType, LoadType, QueueType, FaultType
<1>3. \A k \in Workers : status[k] = "stopped" => status'[k] = "stopped"
  BY <1>1 DEF IInv, TypeOK
<1>4. PhaseInv'
  BY <1>1, <1>3 DEF IInv, PhaseInv, base, chans, Dying, LastHolder
<1>5. ConnInv' /\ HeldInv'
  BY <1>1 DEF IInv, ConnInv, HeldInv, base, chans, Dying
<1>6. QueueInv'
  BY <1>1, TasksKept DEF base, chans, Dying
<1>7. LoadInv' /\ SpreadInv'
  BY <1>1, LoadKept, SpreadKept DEF base, chans
<1>8. FaultCause'
  BY <1>1 DEF FaultCause
<1> QED BY <1>2, <1>4, <1>5, <1>6, <1>7, <1>8 DEF IInv

(* The members of s go: its maps, then nothing of it is dying.             *)
LEMMA FreeMembersInv ==
  ASSUME IInv, NEW s \in Server, FreeMembers(s)
  PROVE  IInv'
<1>1. /\ fault = "none"
      /\ phase' = [phase EXCEPT ![s] = "dead"]
      /\ fault' \in {"none"} \cup Orphans(s) \cup LateCancel(s)
      /\ wheels' = wheels \ {s}
      /\ hodlers' = [hodlers EXCEPT ![s] = NoChannels]
      /\ UNCHANGED <<loops, kept, ready, listens, picking, seen, swept, conn, of, at, load, leaked, queue, status>>
  BY DEF FreeMembers
<1>2. \/ phase[s] = "stopping" /\ LastHolder(s) /\ \A l \in Workers : status[l] = "stopped"
      \/ phase[s] = "sweeping" /\ swept = loops /\ ~LastHolder(s)
  BY DEF FreeMembers, Swept, IInv, PhaseInv
<1>3. phase'[s] = "dead" /\ \A t \in Server \ {s} : phase'[t] = phase[t]
  BY <1>1 DEF IInv, TypeOK
<1>4. /\ hodlers'[s] = NoChannels
      /\ \A t \in Server \ {s} : hodlers'[t] = hodlers[t]
  BY <1>1 DEF IInv, TypeOK
<1>5. \A t \in Server : \A l \in Loops : hodlers'[t][l] \subseteq hodlers[t][l]
  BY <1>4 DEF NoChannels
<1>6. TypeOK'
  <2>1. BaseType'
    BY <1>1 DEF IInv, TypeOK, BaseType
  <2>2. NoChannels \in [Loops -> SUBSET Conn]
    BY DEF NoChannels
  <2>3. ChanType'
    BY <1>1, <2>2 DEF IInv, TypeOK, ChanType
  <2>4. LoadType' /\ QueueType'
    BY <1>1 DEF IInv, TypeOK, LoadType, QueueType
  <2>5. FaultType'
    BY <1>1 DEF FaultType, Orphans, LateCancel
  <2> QED BY <2>1, <2>3, <2>4, <2>5 DEF TypeOK, BaseType, ChanType, LoadType, QueueType, FaultType
<1>7. /\ picking = None /\ Dying(s)
      /\ \A t \in Server : ~Dying(t)' /\ (Dying(t) => t = s)
  BY <1>1, <1>2, <1>3 DEF IInv, PhaseInv, Dying
<1>8. PhaseInv'
  <2>1. ASSUME loops # {Base}, ~kept, \A t \in Server : phase'[t] = "dead"
        PROVE  \A l \in Workers : status[l] = "stopped"
    BY <1>2, <1>3, <2>1 DEF LastHolder
  <2> QED BY <1>1, <1>3, <1>7, <2>1 DEF IInv, PhaseInv, Dying
<1>9. ConnInv'
  BY <1>1, <1>3, <1>7 DEF IInv, ConnInv
<1>10. loops = {Base} => phase[s] = "sweeping" /\ hodlers[s][Base] = {}
  BY <1>2 DEF LastHolder, IInv, HeldInv
<1>11. ASSUME NEW c \in Conn, conn[c] = "open", at[c] = Base PROVE of[c] \in Server \ {s}
  BY <1>10, <1>11, Placed DEF IInv, HeldInv
<1>12. HeldInv'
  <2>1. \A t \in Server : \A l \in Loops : \A c \in hodlers'[t][l] :
          conn[c] = "open" /\ of[c] = t /\ at[c] = l
    BY <1>5 DEF IInv, HeldInv
  <2>2. ASSUME NEW c \in Conn, conn[c] = "open", phase'[of[c]] = "listening" \/ at[c] = Base
        PROVE  c \in hodlers'[of[c]][at[c]]
    <3>1. of[c] \in Server \ {s}
      BY <1>3, <1>11, <2>2, Placed
    <3> QED BY <1>3, <1>4, <2>2, <3>1 DEF IInv, HeldInv
  <2>3. ASSUME NEW c \in Conn, conn[c] = "open", at[c] = Base
        PROVE  phase'[of[c]] \in {"listening", "sweeping"}
    BY <1>3, <1>11, <2>3 DEF IInv, HeldInv
  <2>4. \A t \in Server : phase'[t] # "sweeping"
    BY <1>7 DEF Dying
  <2> QED BY <1>1, <2>1, <2>2, <2>3, <2>4 DEF HeldInv
<1>13. QueueInv'
  BY <1>1, <1>3, <1>5, <1>7, TasksKept
<1>14. LoadInv' /\ SpreadInv'
  BY <1>1, LoadKept, SpreadKept
<1>15. FaultCause'
  <2>1. CASE fault' = "none"
    BY <2>1 DEF FaultCause
  <2>2. CASE fault' = "orphan"
    <3>1. \E l \in loops : hodlers[s][l] # {}
      BY <1>1, <2>2 DEF Orphans, LateCancel
    <3>2. loops # {Base}
      BY <1>10, <3>1
    <3> QED BY <1>1, <1>3, <2>2, <3>2 DEF FaultCause
  <2>3. CASE fault' = "base"
    <3>1. phase[s] = "stopping"
      BY <1>1, <2>3 DEF Orphans, LateCancel
    <3> QED BY <1>1, <1>2, <1>3, <2>3, <3>1 DEF FaultCause, LastHolder
  <2> QED BY <1>1, <2>1, <2>2, <2>3 DEF Orphans, LateCancel
<1> QED BY <1>6, <1>8, <1>9, <1>12, <1>13, <1>14, <1>15 DEF IInv

(* Only a channel of a worker outlives its server.                         *)
LEMMA FreedCause ==
  ASSUME IInv, NEW c \in Conn, conn[c] # "none", phase[of[c]] = "dead",
         at[c] = Base \/ MayRun(at[c]), conn[c] = "open" \/ at[c] # Base
  PROVE  loops # {Base} /\ (kept \/ \E s \in Server : phase[s] # "dead")
<1>1. at[c] # Base
  BY DEF IInv, HeldInv
<1>2. loops # {Base} /\ at[c] \in Workers /\ of[c] \in Server
  BY <1>1, Placed
<1> QED BY <1>1, <1>2 DEF IInv, PhaseInv, MayRun

LEMMA TrafficInv ==
  ASSUME IInv, NEW c \in Conn, Traffic(c)
  PROVE  IInv'
<1>1. /\ conn[c] = "open" /\ phase[of[c]] = "dead" /\ MayRun(at[c])
      /\ fault' = "freed" /\ UNCHANGED <<base, chans, queue, status>>
  BY DEF Traffic
<1>2. TypeOK'
  <2>1. BaseType' /\ ChanType' /\ LoadType' /\ QueueType' /\ FaultType'
    BY <1>1 DEF IInv, TypeOK, BaseType, ChanType, LoadType, QueueType, FaultType, base, chans
  <2> QED BY <2>1 DEF TypeOK, BaseType, ChanType, LoadType, QueueType, FaultType
<1>3. PhaseInv' /\ ConnInv' /\ HeldInv'
  BY <1>1 DEF IInv, PhaseInv, ConnInv, HeldInv, base, chans, Dying, LastHolder
<1>4. QueueInv' /\ LoadInv' /\ SpreadInv'
  BY <1>1, TasksKept, LoadKept, SpreadKept DEF base, chans, Dying
<1>5. FaultCause'
  BY <1>1, FreedCause DEF FaultCause, base
<1> QED BY <1>2, <1>3, <1>4, <1>5 DEF IInv

(* A loop is charged with the connection being placed.                     *)
LEMMA LightWeightedInv ==
  ASSUME IInv, NEW l \in loops, LightWeighted(l)
  PROVE  IInv'
<1>1. /\ fault = "none" /\ picking # None /\ MayBeLightest(l)
      /\ load' = [load EXCEPT ![l] = @ + 1]
      /\ at' = [at EXCEPT ![picking] = l]
      /\ picking' = None
      /\ UNCHANGED <<loops, kept, ready, phase, wheels, listens, seen, swept, of, leaked, status, fault>>
  BY DEF LightWeighted
<1>2. /\ picking \in Conn /\ l \in Loops /\ None \notin Loops
      /\ load \in [Loops -> Nat] /\ at \in [Conn -> Loops \cup {None}]
      /\ conn \in [Conn -> {"none", "accepted", "open", "closed"}]
      /\ hodlers \in [Server -> [Loops -> SUBSET Conn]]
      /\ queue \in [Workers -> Seq(Task)]
  BY <1>1, SomeLoops, NotNone DEF IInv, TypeOK
<1>3. /\ conn[picking] = "none" /\ of[picking] \in Server /\ phase[of[picking]] = "listening"
      /\ at[picking] = None /\ picking \notin leaked
      /\ \A s \in Server : ~Dying(s)
  BY <1>1, <1>2 DEF IInv, PhaseInv, ConnInv
<1>4. at'[picking] = l /\ \A c \in Conn \ {picking} : at'[c] = at[c]
  BY <1>1, <1>2
<1>5. PICK p \in {"open", "accepted"} :
         /\ conn' = [conn EXCEPT ![picking] = p]
         /\ p = "open" <=> l = Base
  BY <1>1 DEF LightWeighted, Hold
<1>6. conn'[picking] = p /\ \A c \in Conn \ {picking} : conn'[c] = conn[c]
  BY <1>2, <1>5
<1>7. /\ l = Base => UNCHANGED queue /\ hodlers' = [hodlers EXCEPT ![of[picking]][l] = @ \cup {picking}]
      /\ l # Base => UNCHANGED hodlers /\ queue' = [queue EXCEPT ![l] = Append(@, Job("new", picking))]
  BY DEF LightWeighted, Hold
<1>8. \A s \in Server : \A k \in Loops :
         hodlers'[s][k] = IF l = Base /\ s = of[picking] /\ k = l
                          THEN hodlers[s][k] \cup {picking} ELSE hodlers[s][k]
  <2>1. CASE l # Base
    BY <1>7, <2>1
  <2>2. CASE l = Base
    <3>1. PICK t \in Server : t = of[picking]
      BY <1>3
    <3>2. hodlers' = [hodlers EXCEPT ![t] = [hodlers[t] EXCEPT ![l] = hodlers[t][l] \cup {picking}]]
      BY <1>7, <2>2, <3>1
    <3>3. hodlers'[t] = [hodlers[t] EXCEPT ![l] = hodlers[t][l] \cup {picking}]
      BY <1>2, <3>2
    <3>4. \A s \in Server \ {t} : hodlers'[s] = hodlers[s]
      BY <1>2, <3>2
    <3>5. hodlers[t] \in [Loops -> SUBSET Conn]
      BY <1>2
    <3> QED BY <1>2, <2>2, <3>1, <3>3, <3>4, <3>5
  <2> QED BY <2>1, <2>2
<1>9. l # Base => l \in Workers
  BY <1>2 DEF Loops
<1>10. ASSUME l # Base
       PROVE  /\ queue'[l] \in Seq(Task) /\ queue'[l] = Append(queue[l], Job("new", picking))
              /\ Len(queue'[l]) = Len(queue[l]) + 1 /\ Len(queue[l]) \in Nat
              /\ \A i \in 1..Len(queue[l]) : queue'[l][i] = queue[l][i]
              /\ queue'[l][Len(queue[l]) + 1] = Job("new", picking)
              /\ \A k \in Workers \ {l} : queue'[k] = queue[k]
  <2>1. l \in Workers /\ queue[l] \in Seq(Task) /\ Job("new", picking) \in Task
    BY <1>2, <1>9, <1>10, TaskType
  <2>2. queue' = [queue EXCEPT ![l] = Append(queue[l], Job("new", picking))]
    BY <1>7, <1>10
  <2>3. queue'[l] = Append(queue[l], Job("new", picking)) /\ \A k \in Workers \ {l} : queue'[k] = queue[k]
    BY <1>2, <2>1, <2>2
  <2> QED BY <2>1, <2>3, AppendFacts
<1>11. TypeOK'
  <2>1. BaseType'
    BY <1>1 DEF IInv, TypeOK, BaseType
  <2>2. hodlers' \in [Server -> [Loops -> SUBSET Conn]]
    <3>1. CASE l # Base
      BY <1>2, <1>7, <3>1
    <3>2. CASE l = Base
      <4>1. PICK t \in Server : t = of[picking]
        BY <1>3
      <4>2. hodlers' = [hodlers EXCEPT ![t] = [hodlers[t] EXCEPT ![l] = hodlers[t][l] \cup {picking}]]
        BY <1>7, <3>2, <4>1
      <4>3. [hodlers[t] EXCEPT ![l] = hodlers[t][l] \cup {picking}] \in [Loops -> SUBSET Conn]
        BY <1>2
      <4> QED BY <1>2, <4>2, <4>3
    <3> QED BY <3>1, <3>2
  <2>3. ChanType'
    BY <1>1, <1>2, <1>5, <2>2 DEF IInv, TypeOK, ChanType
  <2>4. LoadType'
    BY <1>1, <1>2 DEF LoadType
  <2>5. queue' \in [Workers -> Seq(Task)]
    BY <1>2, <1>7, <1>9, <1>10
  <2>6. QueueType' /\ FaultType'
    BY <1>1, <2>5 DEF IInv, TypeOK, QueueType, FaultType
  <2> QED BY <2>1, <2>3, <2>4, <2>6 DEF TypeOK, BaseType, ChanType, LoadType, QueueType, FaultType
<1>12. PhaseInv'
  BY <1>1 DEF IInv, PhaseInv, Dying, LastHolder
<1>13. ConnInv'
  <2>1. leaked \subseteq Conn
    BY DEF IInv, TypeOK
  <2> QED BY <1>1, <1>2, <1>3, <1>4, <1>5, <1>6, <2>1 DEF IInv, ConnInv, Dying
<1>14. HeldInv'
  <2>1. \A s \in Server : \A k \in Loops : hodlers[s][k] \subseteq Conn
    BY <1>2
  <2>2. \A s \in Server : \A k \in Loops : \A c \in hodlers'[s][k] :
          conn'[c] = "open" /\ of'[c] = s /\ at'[c] = k
    <3> SUFFICES ASSUME NEW s \in Server, NEW k \in Loops, NEW c \in hodlers'[s][k]
                 PROVE  conn'[c] = "open" /\ of'[c] = s /\ at'[c] = k
      OBVIOUS
    <3>1. CASE c \in hodlers[s][k]
      <4>1. conn[c] = "open" /\ of[c] = s /\ at[c] = k /\ c \in Conn
        BY <2>1, <3>1 DEF IInv, HeldInv
      <4> QED BY <1>1, <1>3, <1>4, <1>6, <4>1
    <3>2. CASE c \notin hodlers[s][k]
      <4>1. l = Base /\ s = of[picking] /\ k = l /\ c = picking
        BY <1>8, <3>2
      <4> QED BY <1>1, <1>4, <1>5, <1>6, <4>1
    <3> QED BY <3>1, <3>2
  <2>3. ASSUME NEW c \in Conn, conn'[c] = "open", phase[of[c]] = "listening" \/ at'[c] = Base
        PROVE  c \in hodlers'[of[c]][at'[c]]
    <3>1. CASE c = picking
      BY <1>2, <1>3, <1>4, <1>5, <1>6, <1>8, <2>3, <3>1
    <3>2. CASE c # picking
      <4>1. conn[c] = "open" /\ at'[c] = at[c]
        BY <1>4, <1>6, <2>3, <3>2
      <4>2. of[c] \in Server /\ at[c] \in Loops
        BY <4>1, Placed
      <4>3. c \in hodlers[of[c]][at[c]]
        BY <2>3, <4>1 DEF IInv, HeldInv
      <4> QED BY <1>8, <4>1, <4>2, <4>3
    <3> QED BY <3>1, <3>2
  <2>4. ASSUME NEW c \in Conn, conn'[c] = "open", at'[c] = Base
        PROVE  phase[of[c]] \in {"listening", "sweeping"}
    BY <1>3, <1>4, <1>6, <2>4 DEF IInv, HeldInv
  <2>5. \A s \in Server : phase[s] # "sweeping"
    BY <1>3 DEF Dying
  <2> QED BY <1>1, <2>2, <2>3, <2>4, <2>5 DEF HeldInv
<1>15. QueueInv'
  <2>1. ASSUME NEW c \in Conn, Condemned(c) PROVE Condemned(c)'
    <3>1. c # picking
      BY <1>3, <2>1 DEF Condemned
    <3>2. ASSUME NEW s \in Server, NEW k \in Loops PROVE c \notin hodlers'[s][k]
      <4>1. c \notin hodlers[s][k]
        BY <2>1 DEF Condemned
      <4>2. hodlers'[s][k] = hodlers[s][k] \/ hodlers'[s][k] = hodlers[s][k] \cup {picking}
        BY ONLY <1>8
      <4> QED BY ONLY <3>1, <4>1, <4>2
    <3>3. conn'[c] = conn[c]
      BY <1>6, <3>1
    <3> QED BY <1>1, <2>1, <3>2, <3>3 DEF Condemned, Dying
  <2>2. ASSUME NEW k, NEW c \in Conn, Arriving(k, c) PROVE c # picking /\ Arriving(k, c)'
    BY <1>3, <1>4, <1>6, <2>2 DEF Arriving
  <2>3. ASSUME NEW k \in Workers, NEW i \in 1..Len(queue[k])
        PROVE  \E task \in Task : /\ task = queue[k][i]
                                  /\ TaskOK(k, task)'
                                  /\ task.op = "new" => task.c # picking
    <3>1. queue[k][i].op \in {"new", "destroyed", "exit"} /\ TaskOK(k, queue[k][i])
      BY TaskOp DEF Task, IInv, QueueInv, TasksOK
    <3>2. PICK task \in Task : task = queue[k][i]
      BY TaskOp
    <3>3. TaskOK(k, task)' /\ (task.op = "new" => task.c # picking)
      BY <2>1, <2>2, <3>1, <3>2 DEF TaskOK
    <3> QED BY <3>2, <3>3
  <2>4. CASE l = Base
    <3>1. UNCHANGED queue
      BY <1>7, <2>4
    <3>2. ASSUME NEW k \in Workers, NEW i \in 1..Len(queue'[k]) PROVE TaskOK(k, queue[k][i])'
      <4>1. PICK task \in Task : task = queue'[k][i] /\ TaskOK(k, task)'
        BY <2>3, <3>1
      <4> QED BY <4>1
    <3> QED BY <3>1, <3>2 DEF IInv, QueueInv, TasksOK
  <2>5. CASE l # Base
    <3>1. ASSUME NEW k \in Workers, NEW i \in 1..Len(queue'[k]) PROVE TaskOK(k, queue[k][i])'
      <4>1. CASE k = l /\ i = Len(queue[l]) + 1
        <5>1. queue'[k][i] = Job("new", picking)
          BY <1>10, <2>5, <4>1
        <5>2. conn'[picking] = "accepted"
          BY <1>5, <1>6, <2>5
        <5>3. Job("new", picking).op = "new" /\ Job("new", picking).c = picking
          BY TaskType
        <5>4. PICK c \in Conn : c = picking
          BY <1>2
        <5>5. PICK task \in Task : task = queue'[k][i]
          BY <1>2, <5>1, TaskType
        <5>6. Arriving(k, c)'
          BY <1>4, <4>1, <5>2, <5>4 DEF Arriving
        <5>7. TaskOK(k, task)'
          BY <5>1, <5>3, <5>4, <5>5, <5>6 DEF TaskOK
        <5> QED BY <5>5, <5>7
      <4>2. CASE ~(k = l /\ i = Len(queue[l]) + 1)
        <5>1. i \in 1..Len(queue[k]) /\ queue'[k][i] = queue[k][i]
          BY <1>10, <2>5, <4>2
        <5>2. PICK task \in Task : task = queue'[k][i] /\ TaskOK(k, task)'
          BY <2>3, <5>1
        <5> QED BY <5>2
      <4> QED BY <4>1, <4>2
    <3>2. Distinct(queue'[l])
      <4>1. \A i \in 1..Len(queue[l]) : queue[l][i].op = "new" => queue[l][i].c # Job("new", picking).c
        BY <1>9, <2>3, <2>5, TaskType
      <4>2. queue[l] \in Seq(Task) /\ Distinct(queue[l]) /\ Job("new", picking) \in Task
        BY <1>2, <1>9, <2>5, TaskType DEF IInv, QueueInv
      <4> QED BY <1>10, <2>5, <4>1, <4>2, DistinctAppend
    <3>3. ASSUME NEW k \in Workers PROVE Distinct(queue'[k])
      BY <1>10, <2>5, <3>2 DEF IInv, QueueInv
    <3> QED BY <3>1, <3>3 DEF QueueInv, TasksOK, Distinct
  <2> QED BY <2>4, <2>5
<1>16. LoadInv'
  <2>1. \A k \in Loops : Carried(k)' = IF k = l THEN Carried(k) \cup {picking} ELSE Carried(k)
    BY <1>1, <1>2, <1>3, <1>4, <1>5, <1>6 DEF Carried
  <2>2. picking \notin Carried(l)
    BY <1>2, <1>3 DEF Carried
  <2>3. \A k \in Loops : load'[k] = IF k = l THEN load[k] + 1 ELSE load[k]
    BY <1>1, <1>2
  <2>4. IsFiniteSet(Carried(l)) /\ load[l] = Cardinality(Carried(l))
    BY <1>2 DEF IInv, LoadInv
  <2>5. /\ IsFiniteSet(Carried(l) \cup {picking})
        /\ Cardinality(Carried(l) \cup {picking}) = Cardinality(Carried(l)) + 1
    BY <2>2, <2>4, FS_AddElement
  <2> QED BY <2>1, <2>3, <2>4, <2>5 DEF IInv, LoadInv
<1>17. SpreadInv'
  <2> SUFFICES ASSUME \A c \in Conn : conn'[c] # "closed"
               PROVE  \A a, b \in loops : load'[a] <= load'[b] + 1
    BY <1>1 DEF SpreadInv
  <2>1. \A c \in Conn : conn[c] # "closed"
    BY <1>3, <1>6
  <2>2. \A k \in loops : load[l] <= load[k]
    BY <1>1, <2>1 DEF IInv, SpreadInv, MayBeLightest
  <2>3. \A a, b \in loops : load[a] <= load[b] + 1
    BY <2>1 DEF IInv, SpreadInv
  <2>4. \A k \in loops : load'[k] = (IF k = l THEN load[k] + 1 ELSE load[k]) /\ load[k] \in Nat
    BY <1>1, <1>2, SomeLoops
  <2> QED BY <2>2, <2>3, <2>4
<1>18. FaultCause'
  BY <1>1 DEF FaultCause
<1> QED BY <1>11, <1>12, <1>13, <1>14, <1>15, <1>16, <1>17, <1>18 DEF IInv

(* A set of held channels is finite, so its sequences are.                 *)
LEMMA HeldSeqs ==
  ASSUME IInv, NEW s \in Server, NEW l \in Loops, NEW q \in SetToSeqs(hodlers[s][l])
  PROVE  /\ Cardinality(hodlers[s][l]) \in Nat
         /\ DOMAIN q = 1..Cardinality(hodlers[s][l])
         /\ \A i \in DOMAIN q : q[i] \in hodlers[s][l]
<1>1. hodlers[s][l] \subseteq Conn
  BY DEF IInv, TypeOK
<1>2. \A c \in hodlers[s][l] : conn[c] = "open" /\ at[c] = l
  BY DEF IInv, HeldInv
<1>3. hodlers[s][l] \in SUBSET Carried(l)
  BY <1>1, <1>2 DEF Carried
<1>4. IsFiniteSet(Carried(l))
  BY DEF IInv, LoadInv
<1>5. Cardinality(hodlers[s][l]) \in Nat
  BY <1>3, <1>4, FS_Subset, FS_CardinalityType
<1> QED BY <1>5 DEF SetToSeqs

LEMMA SweepHolderInv ==
  ASSUME IInv, NEW s \in Server, NEW l \in loops, SweepHolder(s, l)
  PROVE  IInv'
<1>1. /\ fault = "none" /\ phase[s] = "sweeping" /\ l \notin swept
      /\ swept' = swept \cup {l}
      /\ hodlers' = [hodlers EXCEPT ![s][l] = {}]
      /\ UNCHANGED <<loops, kept, ready, phase, wheels, listens, picking, seen, of, at, load, status, fault>>
  BY DEF SweepHolder
<1>2. /\ l \in Loops
      /\ hodlers \in [Server -> [Loops -> SUBSET Conn]]
      /\ conn \in [Conn -> {"none", "accepted", "open", "closed"}]
      /\ queue \in [Workers -> Seq(Task)]
  BY SomeLoops DEF IInv, TypeOK
<1>3. /\ hodlers'[s][l] = {}
      /\ \A k \in Loops : k # l => hodlers'[s][k] = hodlers[s][k]
      /\ \A t \in Server : t # s => hodlers'[t] = hodlers[t]
  BY <1>1, <1>2
<1>4. \A t \in Server : \A k \in Loops : hodlers'[t][k] \subseteq hodlers[t][k]
  BY <1>3
<1>5. picking = None /\ Dying(s) /\ \A t \in Server : Dying(t) => t = s
  BY <1>1 DEF IInv, PhaseInv, Dying
<1>6. ASSUME NEW c \in hodlers[s][l]
      PROVE  c \in Conn /\ conn[c] = "open" /\ of[c] = s /\ at[c] = l
  BY <1>2 DEF IInv, HeldInv
<1>7. hodlers' \in [Server -> [Loops -> SUBSET Conn]]
  BY <1>1, <1>2
<1>8. BaseType' /\ LoadType' /\ FaultType'
  BY <1>1 DEF IInv, TypeOK, BaseType, LoadType, FaultType
<1>9. PhaseInv'
  BY <1>1 DEF IInv, PhaseInv, Dying, LastHolder
<1>10. FaultCause'
  BY <1>1 DEF FaultCause
<1>11. \A t \in Server : phase[t] = "sweeping" => t = s
  BY <1>5 DEF Dying
(* The channels of the only loop are closed here.                          *)
<1>12. CASE l = Base
  <2>1. loops = {Base} /\ UNCHANGED queue
    BY <1>12, SomeLoops DEF SweepHolder
  <2>2. \A c \in Conn : conn'[c] = IF c \in hodlers[s][l] THEN "closed" ELSE conn[c]
    BY <1>6, <1>12 DEF SweepHolder, Destroyed
  <2>3. /\ conn' \in [Conn -> {"none", "accepted", "open", "closed"}]
        /\ leaked' = leaked \cup hodlers[s][l]
    <3>1. conn' = [c \in Conn |-> IF c \in {d \in hodlers[s][l] : conn[d] = "open"} THEN "closed" ELSE conn[c]]
      BY <1>12 DEF SweepHolder, Destroyed
    <3>2. leaked' = leaked \cup {d \in hodlers[s][l] : conn[d] = "open"}
      BY <1>12 DEF SweepHolder, Destroyed
    <3> QED BY <1>2, <1>6, <3>1, <3>2
  <2>4. TypeOK'
    <3>1. ChanType'
      BY <1>1, <1>6, <1>7, <2>3 DEF IInv, TypeOK, ChanType
    <3>2. QueueType'
      BY <1>1, <2>1 DEF IInv, TypeOK, QueueType
    <3> QED BY <1>8, <3>1, <3>2 DEF TypeOK, BaseType, ChanType, LoadType, QueueType, FaultType
  <2>5. ConnInv'
    <3>1. \A c \in Conn :
            \/ conn'[c] = "none" /\ at[c] = None
            \/ /\ conn'[c] # "none" /\ of[c] \in Server /\ at[c] \in loops
               /\ phase[of[c]] \notin {"idle", "started"}
      BY <1>6, <2>2 DEF IInv, ConnInv
    <3>2. ASSUME NEW c \in leaked'
          PROVE  /\ conn'[c] = "closed" /\ of[c] \in Server
                 /\ Dying(of[c]) \/ phase[of[c]] = "dead"
      <4>1. leaked \subseteq Conn
        BY DEF IInv, TypeOK
      <4>2. CASE c \in leaked
        BY <2>2, <4>1, <4>2 DEF IInv, ConnInv
      <4>3. CASE c \in hodlers[s][l]
        BY <1>5, <1>6, <2>2, <4>3
      <4> QED BY <2>3, <4>2, <4>3
    <3> QED BY <1>1, <3>1, <3>2 DEF ConnInv, Dying
  <2>6. \A c \in Conn : conn'[c] = "open" => conn[c] = "open" /\ c \notin hodlers[s][l]
    BY <2>2
  <2>7. HeldInv'
    <3>1. ASSUME NEW t \in Server, NEW k \in Loops, NEW c \in hodlers'[t][k]
          PROVE  conn'[c] = "open" /\ of[c] = t /\ at[c] = k
      <4>1. c \in Conn /\ conn[c] = "open" /\ of[c] = t /\ at[c] = k
        BY <1>2, <1>4, <3>1 DEF IInv, HeldInv
      <4>2. c \notin hodlers[s][l]
        BY <1>3, <1>6, <3>1, <4>1
      <4> QED BY <2>2, <4>1, <4>2
    <3>2. ASSUME NEW c \in Conn, conn'[c] = "open"
          PROVE  of[c] \in Server \ {s} /\ at[c] = Base
      <4>1. at[c] = Base /\ of[c] \in Server /\ conn[c] = "open"
        BY <2>1, <2>6, <3>2, Placed
      <4>2. c \in hodlers[of[c]][at[c]]
        BY <4>1 DEF IInv, HeldInv
      <4> QED BY <1>12, <2>6, <3>2, <4>1, <4>2
    <3>3. ASSUME NEW c \in Conn, conn'[c] = "open"
          PROVE  c \in hodlers'[of[c]][at[c]] /\ phase[of[c]] \in {"listening", "sweeping"}
      <4>1. conn[c] = "open" /\ c \in hodlers[of[c]][at[c]] /\ phase[of[c]] \in {"listening", "sweeping"}
        BY <2>6, <3>2, <3>3 DEF IInv, HeldInv
      <4> QED BY <1>3, <3>2, <3>3, <4>1
    <3>4. \A t \in Server : phase[t] = "sweeping" => hodlers'[t][Base] = {}
      BY <1>3, <1>11, <1>12
    <3> QED BY <1>1, <3>1, <3>3, <3>4 DEF HeldInv
  <2>8. QueueInv'
    <3>1. ASSUME NEW c \in Conn, Condemned(c) PROVE Condemned(c)'
      <4>1. conn'[c] \in {"open", "closed"}
        BY <2>2, <3>1 DEF Condemned
      <4> QED BY <1>1, <1>4, <3>1, <4>1 DEF Condemned, Dying
    <3>2. ASSUME NEW k, NEW c \in Conn, Arriving(k, c) PROVE Arriving(k, c)'
      BY <1>1, <1>6, <2>2, <3>2 DEF Arriving
    <3>3. ASSUME NEW k \in Workers, NEW i \in 1..Len(queue'[k]) PROVE TaskOK(k, queue[k][i])'
      <4>1. PICK task \in Task : task = queue[k][i]
        BY <2>1, TaskOp
      <4>2. task.op \in {"new", "destroyed", "exit"} /\ TaskOK(k, task)
        BY <2>1, <4>1 DEF Task, IInv, QueueInv, TasksOK
      <4>3. TaskOK(k, task)'
        BY <3>1, <3>2, <4>2 DEF TaskOK
      <4> QED BY <2>1, <4>1, <4>3
    <3> QED BY <2>1, <3>3 DEF IInv, QueueInv, TasksOK
  <2>9. LoadInv'
    <3>1. \A k \in Loops : Carried(k)' = Carried(k)
      BY <1>1, <1>6, <2>2, <2>3 DEF Carried
    <3> QED BY <1>1, <3>1 DEF IInv, LoadInv
  <2>10. SpreadInv'
    <3> SUFFICES ASSUME \A c \in Conn : conn'[c] # "closed"
                 PROVE  picking' = None /\ \A a, b \in loops' : load'[a] <= load'[b] + 1
      BY DEF SpreadInv
    <3>1. \A c \in Conn : conn[c] # "closed"
      BY <2>2
    <3> QED BY <1>1, <1>5, <3>1 DEF IInv, SpreadInv
  <2> QED BY <1>9, <1>10, <2>4, <2>5, <2>7, <2>8, <2>9, <2>10 DEF IInv
(* Those of a worker are condemned: their destroyed() goes to its queue.   *)
<1>13. CASE l # Base
  <2>1. l \in Workers /\ loops # {Base} /\ UNCHANGED <<conn, leaked>>
    BY <1>2, <1>13 DEF SweepHolder, Loops
  <2>2. PICK channels \in SetToSeqs(hodlers[s][l]) :
          queue' = [queue EXCEPT ![l] =
                       @ \o [i \in DOMAIN channels |-> Job("destroyed", channels[i])]]
    BY <1>13 DEF SweepHolder
  <2>3. PICK more : more = [i \in DOMAIN channels |-> Job("destroyed", channels[i])]
    OBVIOUS
  <2>4. /\ more \in Seq(Task)
        /\ \A i \in 1..Len(more) : \E c \in hodlers[s][l] : more[i] = Job("destroyed", c)
    <3>1. PICK n \in Nat : n = Cardinality(hodlers[s][l])
      BY <1>2, HeldSeqs
    <3>2. DOMAIN channels = 1..n /\ \A i \in 1..n : channels[i] \in hodlers[s][l]
      BY <1>2, <3>1, HeldSeqs
    <3>3. more = [i \in 1..n |-> Job("destroyed", channels[i])]
      BY <2>3, <3>2
    <3>4. \A i \in 1..n : more[i] = Job("destroyed", channels[i]) /\ more[i] \in Task
      BY <1>6, <3>2, <3>3, TaskType
    <3>5. more \in Seq(Task) /\ Len(more) = n
      BY <3>3, <3>4
    <3> QED BY <3>2, <3>4, <3>5
  <2>5. /\ queue'[l] = queue[l] \o more
        /\ \A k \in Workers \ {l} : queue'[k] = queue[k]
    BY <1>2, <2>1, <2>2, <2>3
  <2>6. /\ queue[l] \in Seq(Task) /\ queue'[l] \in Seq(Task)
        /\ Len(queue[l]) \in Nat /\ Len(more) \in Nat
        /\ Len(queue'[l]) = Len(queue[l]) + Len(more)
        /\ \A i \in 1..(Len(queue[l]) + Len(more)) : queue'[l][i] =
               IF i <= Len(queue[l]) THEN queue[l][i] ELSE more[i - Len(queue[l])]
    BY <1>2, <2>1, <2>4, <2>5, ConcatProperties, LenProperties
  <2>7. /\ \A i \in 1..Len(queue[l]) : queue'[l][i] = queue[l][i]
        /\ \A i \in 1..Len(queue'[l]) : i > Len(queue[l]) =>
              \E c \in hodlers[s][l] : queue'[l][i] = Job("destroyed", c)
    <3>1. \A i \in 1..Len(queue[l]) : queue'[l][i] = queue[l][i]
      BY <2>6
    <3>2. ASSUME NEW i \in 1..Len(queue'[l]), i > Len(queue[l])
          PROVE  \E c \in hodlers[s][l] : queue'[l][i] = Job("destroyed", c)
      <4>1. i - Len(queue[l]) \in 1..Len(more) /\ queue'[l][i] = more[i - Len(queue[l])]
        BY <2>6, <3>2
      <4> QED BY <2>4, <4>1
    <3> QED BY <3>1, <3>2
  <2>8. TypeOK'
    <3>1. ChanType'
      BY <1>1, <1>7, <2>1 DEF IInv, TypeOK, ChanType
    <3>2. QueueType'
      BY <1>1, <1>2, <2>1, <2>2, <2>3, <2>5, <2>6 DEF IInv, TypeOK, QueueType
    <3> QED BY <1>8, <3>1, <3>2 DEF TypeOK, BaseType, ChanType, LoadType, QueueType, FaultType
  <2>9. ConnInv'
    BY <1>1, <2>1 DEF IInv, ConnInv, Dying
  <2>10. HeldInv'
    <3>1. \A t \in Server : \A k \in Loops : \A c \in hodlers'[t][k] :
            conn[c] = "open" /\ of[c] = t /\ at[c] = k
      BY <1>4 DEF IInv, HeldInv
    <3>2. ASSUME NEW c \in Conn, conn[c] = "open", phase[of[c]] = "listening" \/ at[c] = Base
          PROVE  c \in hodlers'[of[c]][at[c]]
      <4>1. of[c] \in Server /\ at[c] # Base
        BY <2>1, <3>2, Placed
      <4>2. of[c] # s
        BY <1>1, <3>2, <4>1
      <4> QED BY <1>3, <3>2, <4>1, <4>2 DEF IInv, HeldInv
    <3> QED BY <1>1, <2>1, <3>1, <3>2 DEF IInv, HeldInv
  <2>11. QueueInv'
    <3>1. ASSUME NEW c, Condemned(c) PROVE Condemned(c)'
      BY <1>1, <1>4, <2>1, <3>1 DEF Condemned, Dying
    <3>2. ASSUME NEW c \in hodlers[s][l] PROVE Condemned(c)'
      <4>1. \A t \in Server : \A k \in Loops : c \notin hodlers'[t][k]
        <5> SUFFICES ASSUME NEW t \in Server, NEW k \in Loops, c \in hodlers'[t][k]
                     PROVE  FALSE
          OBVIOUS
        <5>1. of[c] = t /\ at[c] = k
          BY <1>4 DEF IInv, HeldInv
        <5> QED BY <1>3, <1>6, <5>1
      <4> QED BY <1>1, <1>5, <1>6, <2>1, <4>1 DEF Condemned, Dying
    <3>3. ASSUME NEW k \in Workers, NEW i \in 1..Len(queue'[k]) PROVE TaskOK(k, queue[k][i])'
      <4>1. CASE k = l /\ i > Len(queue[l])
        <5>1. PICK c \in hodlers[s][l] : queue'[k][i] = Job("destroyed", c)
          BY <2>7, <4>1
        <5>2. PICK task \in Task : task = Job("destroyed", c)
          BY <1>6, TaskType
        <5>3. TaskOK(k, task)'
          BY <1>6, <3>2, <5>2, TaskType DEF TaskOK
        <5> QED BY <5>1, <5>2, <5>3
      <4>2. CASE ~(k = l /\ i > Len(queue[l]))
        <5>1. i \in 1..Len(queue[k]) /\ queue'[k][i] = queue[k][i]
          BY <2>5, <2>6, <2>7, <4>2
        <5>2. PICK task \in Task : task = queue[k][i]
          BY <5>1, TaskOp
        <5>3. TaskOK(k, task)
          BY <5>1, <5>2 DEF IInv, QueueInv, TasksOK
        <5>4. TaskOK(k, task)'
          BY <1>1, <2>1, <3>1, <5>3 DEF TaskOK, Arriving
        <5> QED BY <5>1, <5>2, <5>4
      <4> QED BY <4>1, <4>2
    <3>4. Distinct(queue'[l])
      <4>1. \A i \in 1..Len(queue'[l]) : i > Len(queue[l]) => queue'[l][i].op # "new"
        BY <2>7, TaskType
      <4>2. Distinct(queue[l]) /\ Len(queue'[l]) >= Len(queue[l])
        BY <2>1, <2>6 DEF IInv, QueueInv
      <4> QED BY <2>6, <2>7, <4>1, <4>2, DistinctMore
    <3>5. ASSUME NEW k \in Workers PROVE Distinct(queue'[k])
      BY <2>5, <3>4 DEF IInv, QueueInv
    <3> QED BY <3>3, <3>5 DEF QueueInv, TasksOK, Distinct
  <2>12. LoadInv' /\ SpreadInv'
    BY <1>1, <2>1, LoadKept, SpreadKept
  <2> QED BY <1>9, <1>10, <2>8, <2>9, <2>10, <2>11, <2>12 DEF IInv
<1> QED BY <1>12, <1>13

(* What the queues are like once a worker has taken a task.                *)
LEMMA TakeTask ==
  ASSUME IInv, NEW l \in Workers, queue[l] # <<>>, queue' = [queue EXCEPT ![l] = Tail(@)]
  PROVE  /\ Head(queue[l]) \in Task /\ TaskOK(l, Head(queue[l]))
         /\ queue' \in [Workers -> Seq(Task)]
         /\ \A k \in Workers : Distinct(queue'[k])
         /\ \A k \in Workers : \A i \in 1..Len(queue'[k]) :
               \E task \in Task :
                  /\ task = queue'[k][i] /\ TaskOK(k, task)
                  /\ task.op = "new" /\ Head(queue[l]).op = "new" => task.c # Head(queue[l]).c
<1>1. queue \in [Workers -> Seq(Task)]
  BY DEF IInv, TypeOK
<1>2. /\ Head(queue[l]) = queue[l][1] /\ Head(queue[l]) \in Task
      /\ Tail(queue[l]) \in Seq(Task)
      /\ Len(queue[l]) \in Nat \ {0}
      /\ Len(Tail(queue[l])) = Len(queue[l]) - 1
      /\ \A i \in 1..(Len(queue[l]) - 1) : Tail(queue[l])[i] = queue[l][i + 1]
  BY <1>1, TailFacts
<1>3. queue'[l] = Tail(queue[l]) /\ \A k \in Workers \ {l} : queue'[k] = queue[k]
  BY <1>1
<1>4. queue' \in [Workers -> Seq(Task)]
  BY <1>1, <1>2
<1>5. 1 \in 1..Len(queue[l])
  BY <1>2
<1>6. TaskOK(l, Head(queue[l]))
  BY <1>2, <1>5 DEF IInv, QueueInv, TasksOK
<1>7. queue[l] \in Seq(Task) /\ Distinct(queue[l])
  BY <1>1 DEF IInv, QueueInv
<1>8. ASSUME NEW k \in Workers PROVE Distinct(queue'[k])
  BY <1>3, <1>7, DistinctTail DEF IInv, QueueInv
<1>9. ASSUME NEW k \in Workers, NEW i \in 1..Len(queue'[k])
      PROVE  \E task \in Task :
                /\ task = queue'[k][i] /\ TaskOK(k, task)
                /\ task.op = "new" /\ Head(queue[l]).op = "new" => task.c # Head(queue[l]).c
  <2>1. CASE k = l
    <3>1. queue'[k][i] = queue[l][i + 1] /\ i + 1 \in 1..Len(queue[l])
      <4>1. i \in 1..Len(Tail(queue[l])) /\ queue'[k][i] = Tail(queue[l])[i]
        BY <1>3, <2>1
      <4>2. i \in 1..(Len(queue[l]) - 1)
        BY <1>2, <4>1
      <4> QED BY <1>2, <4>1, <4>2
    <3>2. PICK task \in Task : task = queue'[k][i]
      BY <3>1, TaskOp
    <3>3. TaskOK(k, task)
      BY <2>1, <3>1, <3>2 DEF IInv, QueueInv, TasksOK
    <3>4. task.op = "new" /\ Head(queue[l]).op = "new" => task.c # Head(queue[l]).c
      BY <1>3, <1>7, <2>1, <3>2, DistinctTail
    <3> QED BY <3>2, <3>3, <3>4
  <2>2. CASE k # l
    <3>1. PICK task \in Task : task = queue'[k][i]
      BY <1>3, <2>2, TaskOp
    <3>2. TaskOK(k, task)
      BY <1>3, <2>2, <3>1 DEF IInv, QueueInv, TasksOK
    <3>3. task.op = "new" /\ Head(queue[l]).op = "new" => task.c # Head(queue[l]).c
      BY <1>6, <2>2, <3>2 DEF TaskOK, Arriving
    <3> QED BY <3>1, <3>2, <3>3
  <2> QED BY <2>1, <2>2
<1> QED BY <1>2, <1>4, <1>6, <1>8, <1>9

(* A map that changes while it is walked.                                  *)
LEMMA RacedCause ==
  ASSUME IInv, NEW s \in Server, NEW l \in Workers, loops # {Base}, fault' \in Raced(s, l),
         UNCHANGED <<loops, phase, kept, status>>
  PROVE  fault' \in {"none", "iterator"} /\ FaultCause'
BY DEF Raced, FaultCause

LEMMA RunTaskInv ==
  ASSUME IInv, NEW l \in Workers, RunTask(l)
  PROVE  IInv'
<1>1. PICK task \in Task : task = Head(queue[l])
  BY TakeTask DEF RunTask
<1>2. /\ fault = "none" /\ MayRun(l) /\ queue[l] # <<>>
      /\ queue' = [queue EXCEPT ![l] = Tail(@)]
      /\ UNCHANGED <<base, of, at, load>>
  BY DEF RunTask
<1>3. /\ TaskOK(l, task)
      /\ queue' \in [Workers -> Seq(Task)]
      /\ \A k \in Workers : Distinct(queue'[k])
      /\ \A k \in Workers : \A i \in 1..Len(queue'[k]) :
            \E t \in Task : /\ t = queue'[k][i] /\ TaskOK(k, t)
                            /\ t.op = "new" /\ task.op = "new" => t.c # task.c
  <2>1. TaskOK(l, Head(queue[l])) /\ queue' \in [Workers -> Seq(Task)] /\ \A k \in Workers : Distinct(queue'[k])
    BY <1>2, TakeTask
  <2>2. \A k \in Workers : \A i \in 1..Len(queue'[k]) :
          \E t \in Task : /\ t = queue'[k][i] /\ TaskOK(k, t)
                          /\ t.op = "new" /\ Head(queue[l]).op = "new" => t.c # Head(queue[l]).c
    BY <1>2, TakeTask
  <2> QED BY ONLY <1>1, <2>1, <2>2
<1>4. BaseType' /\ LoadType'
  BY <1>2 DEF IInv, TypeOK, BaseType, LoadType, base
<1>5. ASSUME NEW k \in Workers, status[k] = "stopped" PROVE k # l
  BY <1>2, <1>5 DEF MayRun
<1>6. /\ of \in [Conn -> Server \cup {None}] /\ l \in Loops
      /\ hodlers \in [Server -> [Loops -> SUBSET Conn]]
      /\ conn \in [Conn -> {"none", "accepted", "open", "closed"}]
  BY NotNone DEF IInv, TypeOK
<1>7. ASSUME UNCHANGED <<conn, hodlers, leaked>>, QueueType', FaultType', FaultCause', PhaseInv'
      PROVE  IInv'
  <2>1. ChanType'
    BY <1>2, <1>7 DEF IInv, TypeOK, ChanType
  <2>2. TypeOK'
    BY <1>4, <1>7, <2>1 DEF TypeOK, BaseType, ChanType, LoadType, QueueType, FaultType
  <2>3. ConnInv' /\ HeldInv'
    BY <1>2, <1>7 DEF IInv, ConnInv, HeldInv, base, Dying
  <2>4. ASSUME NEW k \in Workers, NEW i \in 1..Len(queue'[k]) PROVE TaskOK(k, queue[k][i])'
    <3>1. PICK t \in Task : t = queue'[k][i] /\ TaskOK(k, t)
      BY <1>3
    <3>2. TaskOK(k, t)'
      BY <1>2, <1>7, <3>1 DEF TaskOK, Arriving, Condemned, Dying, base
    <3> QED BY <3>1, <3>2
  <2>5. QueueInv'
    BY <1>3, <2>4 DEF QueueInv, TasksOK, Distinct
  <2>6. LoadInv' /\ SpreadInv'
    BY <1>2, <1>7, LoadKept, SpreadKept DEF base
  <2> QED BY <1>7, <2>2, <2>3, <2>5, <2>6 DEF IInv
<1>8. ASSUME UNCHANGED status, \A c \in Conn : conn[c] = "none" => conn'[c] = "none"
      PROVE  QueueType' /\ PhaseInv'
  <2>1. QueueType'
    BY <1>3, <1>8 DEF IInv, TypeOK, QueueType
  <2>2. picking # None => conn[picking] = "none" /\ picking \in Conn
    BY DEF IInv, PhaseInv, TypeOK
  <2> QED BY <1>2, <1>8, <2>1, <2>2 DEF IInv, PhaseInv, Dying, LastHolder, base
(* newChannelLoop() of a server that is gone.                              *)
<1>9. CASE /\ task.op = "new" /\ phase[of[task.c]] = "dead"
           /\ fault' = "freed" /\ UNCHANGED <<conn, hodlers, leaked, status>>
  <2>1. task.c \in Conn /\ conn[task.c] = "accepted" /\ at[task.c] = l /\ l # Base
    BY <1>3, <1>9, NotNone DEF TaskOK, Arriving
  <2>2. FaultCause'
    BY <1>2, <1>9, <2>1, FreedCause DEF FaultCause, base
  <2> QED BY <1>7, <1>8, <1>9, <2>2 DEF FaultType
(* newChannelLoop(): the channel is held.                                  *)
<1>10. CASE /\ task.op = "new" /\ phase[of[task.c]] # "dead"
            /\ Hold(of[task.c], l, task.c)
            /\ fault' \in Raced(of[task.c], l) /\ UNCHANGED <<leaked, status>>
  <2>1. PICK c \in Conn : c = task.c
    BY <1>3, <1>10 DEF TaskOK
  <2>2. /\ conn[c] = "accepted" /\ at[c] = l /\ of[c] \in Server /\ loops # {Base}
        /\ phase[of[c]] \notin {"idle", "started", "dead"} /\ l # Base
    BY <1>3, <1>10, <2>1, Placed, NotNone DEF TaskOK, Arriving
  <2>3. PICK s \in Server : s = of[c]
    BY <2>2
  <2>4. /\ conn' = [conn EXCEPT ![c] = "open"]
        /\ hodlers' = [hodlers EXCEPT ![s] = [hodlers[s] EXCEPT ![l] = hodlers[s][l] \cup {c}]]
    BY <1>10, <2>1, <2>3 DEF Hold
  <2>5. conn'[c] = "open" /\ \A d \in Conn \ {c} : conn'[d] = conn[d]
    BY <1>6, <2>4
  <2>6. [hodlers[s] EXCEPT ![l] = hodlers[s][l] \cup {c}] \in [Loops -> SUBSET Conn]
    BY <1>6
  <2>7. \A t \in Server : \A k \in Loops :
           hodlers'[t][k] = IF t = s /\ k = l THEN hodlers[s][l] \cup {c} ELSE hodlers[t][k]
    <3>1. hodlers'[s] = [hodlers[s] EXCEPT ![l] = hodlers[s][l] \cup {c}]
      BY <1>6, <2>4
    <3>2. \A t \in Server \ {s} : hodlers'[t] = hodlers[t]
      BY <1>6, <2>4
    <3>3. hodlers[s] \in [Loops -> SUBSET Conn]
      BY <1>6
    <3> QED BY <1>6, <3>1, <3>2, <3>3
  <2>8. FaultCause' /\ FaultType'
    <3>1. fault' \in {"none", "iterator"} /\ FaultCause'
      BY <1>2, <1>10, <2>1, <2>2, RacedCause DEF base
    <3> QED BY <3>1 DEF FaultType
  <2>9. QueueType' /\ PhaseInv'
    BY <1>8, <1>10, <2>2, <2>5
  <2>10. TypeOK'
    <3>1. ChanType'
      BY <1>2, <1>6, <1>10, <2>4, <2>6 DEF IInv, TypeOK, ChanType
    <3> QED BY <1>4, <2>8, <2>9, <3>1 DEF TypeOK, BaseType, ChanType, LoadType, QueueType, FaultType
  <2>11. c \notin leaked /\ leaked \subseteq Conn
    BY <2>2 DEF IInv, ConnInv, TypeOK
  <2>12. ConnInv'
    BY <1>2, <1>10, <2>2, <2>5, <2>11 DEF IInv, ConnInv, base, Dying
  <2>13. HeldInv'
    <3>1. ASSUME NEW t \in Server, NEW k \in Loops, NEW d \in hodlers'[t][k]
          PROVE  conn'[d] = "open" /\ of[d] = t /\ at[d] = k
      <4>1. CASE d \in hodlers[t][k]
        <5>1. d \in Conn /\ conn[d] = "open" /\ of[d] = t /\ at[d] = k
          BY <1>6, <4>1 DEF IInv, HeldInv
        <5> QED BY <2>5, <5>1
      <4>2. CASE d \notin hodlers[t][k]
        <5>1. t = s /\ k = l /\ d = c
          BY <2>7, <3>1, <4>2
        <5> QED BY <2>2, <2>3, <2>5, <5>1
      <4> QED BY <4>1, <4>2
    <3>2. ASSUME NEW d \in Conn, conn'[d] = "open", phase[of[d]] = "listening" \/ at[d] = Base
          PROVE  d \in hodlers'[of[d]][at[d]]
      <4>1. CASE d = c
        BY <1>6, <2>2, <2>3, <2>7, <4>1
      <4>2. CASE d # c
        <5>1. conn[d] = "open" /\ of[d] \in Server /\ at[d] \in Loops
          BY <2>5, <3>2, <4>2, Placed
        <5>2. d \in hodlers[of[d]][at[d]]
          BY <3>2, <5>1 DEF IInv, HeldInv
        <5>3. hodlers[of[d]][at[d]] \subseteq hodlers'[of[d]][at[d]]
          BY <2>7, <5>1
        <5> QED BY <5>2, <5>3
      <4> QED BY <4>1, <4>2
    <3>3. \A d \in Conn : at[d] # Base
      BY <2>2, SomeLoops, NotNone DEF IInv, ConnInv
    <3> QED BY <1>2, <2>2, <3>1, <3>2, <3>3 DEF HeldInv, base
  <2>14. QueueInv'
    <3>1. ASSUME NEW d \in Conn, Condemned(d) PROVE Condemned(d)'
      <4>1. d # c /\ conn'[d] = conn[d]
        BY <2>2, <2>5, <3>1 DEF Condemned
      <4>2. ASSUME NEW t \in Server, NEW k \in Loops PROVE d \notin hodlers'[t][k]
        <5>1. d \notin hodlers[t][k]
          BY <3>1 DEF Condemned
        <5> QED BY <2>7, <4>1, <5>1
      <4> QED BY <1>2, <3>1, <4>1, <4>2 DEF Condemned, Dying, base
    <3>2. ASSUME NEW k, NEW d \in Conn, Arriving(k, d), d # c PROVE Arriving(k, d)'
      BY <1>2, <2>5, <3>2 DEF Arriving
    <3>3. ASSUME NEW k \in Workers, NEW i \in 1..Len(queue'[k]) PROVE TaskOK(k, queue[k][i])'
      <4>1. PICK t \in Task : t = queue'[k][i] /\ TaskOK(k, t) /\ (t.op = "new" => t.c # c)
        BY <1>3, <1>10, <2>1
      <4>2. t.op \in {"new", "destroyed", "exit"}
        BY DEF Task
      <4>3. TaskOK(k, t)'
        BY <3>1, <3>2, <4>1, <4>2 DEF TaskOK
      <4> QED BY <4>1, <4>3
    <3> QED BY <1>3, <3>3 DEF QueueInv, TasksOK, Distinct
  <2>15. LoadInv'
    <3>1. \A k \in Loops : Carried(k)' = Carried(k)
      BY <1>2, <1>10, <2>2, <2>5 DEF Carried
    <3> QED BY <1>2, <3>1 DEF IInv, LoadInv
  <2>16. SpreadInv'
    <3>1. (\A d \in Conn : conn'[d] # "closed") => \A d \in Conn : conn[d] # "closed"
      BY <2>2, <2>5
    <3> QED BY <1>2, <3>1 DEF IInv, SpreadInv, base
  <2> QED BY <2>8, <2>9, <2>10, <2>12, <2>13, <2>14, <2>15, <2>16 DEF IInv
(* destroyed(): the channel is in no map.                                  *)
<1>11. CASE task.op = "destroyed" /\ Destroyed({task.c}) /\ UNCHANGED <<hodlers, status, fault>>
  <2>1. PICK c \in Conn : c = task.c
    BY <1>3, <1>11 DEF TaskOK
  <2>2. /\ conn[c] \in {"open", "closed"} /\ of[c] \in Server
        /\ Dying(of[c]) \/ phase[of[c]] = "dead"
        /\ \A s \in Server : \A k \in Loops : c \notin hodlers[s][k]
    BY <1>3, <1>11, <2>1 DEF TaskOK, Condemned
  <2>3. \A d \in Conn : conn'[d] = IF d = c THEN "closed" ELSE conn[d]
    BY <1>11, <2>1, <2>2 DEF Destroyed
  <2>4. leaked' = IF conn[c] = "open" THEN leaked \cup {c} ELSE leaked
    BY <1>11, <2>1 DEF Destroyed
  <2>5. conn' \in [Conn -> {"none", "accepted", "open", "closed"}]
    <3>1. conn' = [d \in Conn |-> IF d \in {e \in {c} : conn[e] = "open"} THEN "closed" ELSE conn[d]]
      BY <1>11, <2>1 DEF Destroyed
    <3> QED BY <1>6, <3>1
  <2>6. QueueType' /\ PhaseInv' /\ FaultType' /\ FaultCause'
    BY <1>2, <1>8, <1>11, <2>2, <2>3 DEF FaultType, FaultCause
  <2>7. TypeOK'
    <3>1. ChanType'
      BY <1>2, <1>11, <2>4, <2>5 DEF IInv, TypeOK, ChanType
    <3> QED BY <1>4, <2>6, <3>1 DEF TypeOK, BaseType, ChanType, LoadType, QueueType, FaultType
  <2>8. ConnInv'
    <3>1. leaked \subseteq Conn
      BY DEF IInv, TypeOK
    <3>2. \A d \in leaked' : conn'[d] = "closed" /\ of[d] \in Server /\ (Dying(of[d]) \/ phase[of[d]] = "dead")
      BY <2>2, <2>3, <2>4, <3>1 DEF IInv, ConnInv
    <3>3. \A d \in Conn :
            \/ conn'[d] = "none" /\ at[d] = None
            \/ /\ conn'[d] # "none" /\ of[d] \in Server /\ at[d] \in loops
               /\ phase[of[d]] \notin {"idle", "started"}
      BY <2>2, <2>3 DEF IInv, ConnInv
    <3> QED BY <1>2, <3>2, <3>3 DEF ConnInv, Dying, base
  <2>9. HeldInv'
    <3>1. \A d \in Conn : conn'[d] = "open" => conn[d] = "open"
      BY <2>3
    <3>2. ASSUME NEW s \in Server, NEW k \in Loops, NEW d \in hodlers[s][k]
          PROVE  conn'[d] = "open" /\ of[d] = s /\ at[d] = k
      <4>1. d \in Conn /\ d # c
        BY <1>6, <2>2
      <4> QED BY <2>3, <4>1 DEF IInv, HeldInv
    <3> QED BY <1>2, <1>11, <3>1, <3>2 DEF IInv, HeldInv, base
  <2>10. QueueInv'
    <3>1. ASSUME NEW d \in Conn, Condemned(d) PROVE Condemned(d)'
      <4>1. conn'[d] \in {"open", "closed"}
        BY <2>3, <3>1 DEF Condemned
      <4> QED BY <1>2, <1>11, <3>1, <4>1 DEF Condemned, Dying, base
    <3>2. ASSUME NEW k, NEW d \in Conn, Arriving(k, d) PROVE Arriving(k, d)'
      BY <1>2, <2>2, <2>3, <3>2 DEF Arriving
    <3>3. ASSUME NEW k \in Workers, NEW i \in 1..Len(queue'[k]) PROVE TaskOK(k, queue[k][i])'
      <4>1. PICK t \in Task : t = queue'[k][i] /\ TaskOK(k, t)
        BY <1>3
      <4>2. t.op \in {"new", "destroyed", "exit"}
        BY DEF Task
      <4>3. TaskOK(k, t)'
        BY <3>1, <3>2, <4>1, <4>2 DEF TaskOK
      <4> QED BY <4>1, <4>3
    <3> QED BY <1>3, <3>3 DEF QueueInv, TasksOK, Distinct
  <2>11. LoadInv'
    <3>1. \A k \in Loops : Carried(k)' = Carried(k)
      BY <1>2, <2>2, <2>3, <2>4 DEF Carried
    <3> QED BY <1>2, <3>1 DEF IInv, LoadInv
  <2>12. SpreadInv'
    <3>1. conn'[c] = "closed"
      BY <2>3
    <3> QED BY <3>1 DEF SpreadInv
  <2> QED BY <2>6, <2>7, <2>8, <2>9, <2>10, <2>11, <2>12 DEF IInv
(* The request to exit.                                                    *)
<1>12. CASE /\ task.op = "exit" /\ status' = [status EXCEPT ![l] = "exiting"]
            /\ UNCHANGED <<conn, hodlers, leaked, fault>>
  <2>1. QueueType'
    BY <1>3, <1>12 DEF IInv, TypeOK, QueueType
  <2>2. FaultType' /\ FaultCause'
    BY <1>2, <1>12 DEF FaultType, FaultCause
  <2>3. PhaseInv'
    <3>1. \A k \in Workers : status[k] = "stopped" => status'[k] = "stopped"
      BY <1>5, <1>12 DEF IInv, TypeOK
    <3> QED BY <1>2, <1>12, <3>1 DEF IInv, PhaseInv, Dying, LastHolder, base
  <2> QED BY <1>7, <1>12, <2>1, <2>2, <2>3
<1> QED BY <1>1, <1>9, <1>10, <1>11, <1>12 DEF RunTask

(* removeChannel(): the map, the load and the channel go together.         *)
LEMMA RemoveChannelInv ==
  ASSUME IInv, NEW c \in Conn, fault = "none", conn[c] = "open",
         at[c] = Base => picking = None /\ \A s \in Server : ~Dying(s),
         phase[of[c]] # "dead", RemoveChannel(c), fault' \in Raced(of[c], at[c]),
         UNCHANGED <<base, of, at, leaked, queue, status>>
  PROVE  IInv'
<1>1. /\ of[c] \in Server /\ at[c] \in Loops /\ at[c] \in loops
      /\ phase[of[c]] \notin {"idle", "started"}
      /\ at[c] # Base => at[c] \in Workers /\ loops # {Base}
  BY Placed DEF Loops
<1>2. PICK s \in Server, l \in Loops : s = of[c] /\ l = at[c]
  BY <1>1
<1>3. /\ conn' = [conn EXCEPT ![c] = "closed"]
      /\ hodlers' = [hodlers EXCEPT ![s] = [hodlers[s] EXCEPT ![l] = hodlers[s][l] \ {c}]]
      /\ load' = [load EXCEPT ![l] = load[l] - 1]
  BY <1>2 DEF RemoveChannel
<1>4. /\ conn \in [Conn -> {"none", "accepted", "open", "closed"}]
      /\ hodlers \in [Server -> [Loops -> SUBSET Conn]]
      /\ load \in [Loops -> Nat] /\ leaked \subseteq Conn
  BY DEF IInv, TypeOK
<1>5. conn'[c] = "closed" /\ \A d \in Conn \ {c} : conn'[d] = conn[d]
  BY <1>3, <1>4
<1>6. [hodlers[s] EXCEPT ![l] = hodlers[s][l] \ {c}] \in [Loops -> SUBSET Conn]
  BY <1>4
<1>7. \A t \in Server : \A k \in Loops :
         hodlers'[t][k] = IF t = s /\ k = l THEN hodlers[s][l] \ {c} ELSE hodlers[t][k]
  <2>1. hodlers'[s] = [hodlers[s] EXCEPT ![l] = hodlers[s][l] \ {c}]
    BY <1>3, <1>4
  <2>2. \A t \in Server \ {s} : hodlers'[t] = hodlers[t]
    BY <1>3, <1>4
  <2>3. hodlers[s] \in [Loops -> SUBSET Conn]
    BY <1>4
  <2> QED BY <2>1, <2>2, <2>3
<1>8. \A t \in Server : \A k \in Loops : \A d \in hodlers'[t][k] :
         d \in hodlers[t][k] /\ d # c /\ d \in Conn
  <2> SUFFICES ASSUME NEW t \in Server, NEW k \in Loops, NEW d \in hodlers'[t][k]
               PROVE  d \in hodlers[t][k] /\ d # c /\ d \in Conn
    OBVIOUS
  <2>1. d \in hodlers[t][k] /\ d \in Conn
    BY <1>4, <1>7
  <2>2. of[d] = t /\ at[d] = k
    BY <2>1 DEF IInv, HeldInv
  <2>3. CASE d = c
    BY <1>2, <1>7, <2>2, <2>3
  <2> QED BY <2>1, <2>3
<1>9. /\ c \in Carried(l) /\ IsFiniteSet(Carried(l)) /\ load[l] = Cardinality(Carried(l))
      /\ c \notin leaked
  BY <1>2 DEF IInv, LoadInv, Carried, ConnInv
<1>10. /\ IsFiniteSet(Carried(l) \ {c})
       /\ Cardinality(Carried(l) \ {c}) = load[l] - 1
       /\ load[l] - 1 \in Nat
  <2>1. PICK S : S = Carried(l)
    OBVIOUS
  <2>2. c \in S /\ IsFiniteSet(S) /\ load[l] = Cardinality(S)
    BY <1>9, <2>1
  <2>3. IsFiniteSet(S \ {c}) /\ Cardinality(S \ {c}) = Cardinality(S) - 1
    BY <2>2, FS_RemoveElement
  <2>4. Cardinality(S \ {c}) \in Nat
    BY <2>3, FS_CardinalityType
  <2> QED BY <2>1, <2>2, <2>3, <2>4
<1>11. LoadType' /\ \A k \in Loops : load'[k] = IF k = l THEN load[l] - 1 ELSE load[k]
  BY <1>3, <1>4, <1>10 DEF LoadType
<1>12. FaultCause' /\ FaultType'
  <2>1. CASE at[c] = Base
    <3>1. phase[of[c]] # "sweeping"
      BY <1>1, <2>1 DEF Dying
    <3>2. fault' = "none"
      BY <3>1 DEF Raced
    <3> QED BY <3>2 DEF FaultCause, FaultType
  <2>2. CASE at[c] # Base
    <3>1. fault' \in {"none", "iterator"} /\ FaultCause'
      BY <1>1, <2>2, RacedCause DEF base
    <3> QED BY <3>1 DEF FaultType
  <2> QED BY <2>1, <2>2
<1>13. TypeOK'
  <2>1. ChanType'
    BY <1>3, <1>4, <1>6 DEF IInv, TypeOK, ChanType
  <2>2. BaseType' /\ QueueType'
    BY DEF IInv, TypeOK, BaseType, QueueType, base
  <2> QED BY <1>11, <1>12, <2>1, <2>2 DEF TypeOK, BaseType, ChanType, LoadType, QueueType, FaultType
<1>14. PhaseInv'
  <2>1. picking # None => conn[picking] = "none" /\ picking \in Conn /\ picking # c
    BY DEF IInv, PhaseInv, TypeOK
  <2> QED BY <1>5, <2>1 DEF IInv, PhaseInv, Dying, LastHolder, base
<1>15. ConnInv'
  <2>1. \A d \in Conn :
           \/ conn'[d] = "none" /\ at[d] = None
           \/ /\ conn'[d] # "none" /\ of[d] \in Server /\ at[d] \in loops
              /\ phase[of[d]] \notin {"idle", "started"}
    BY <1>1, <1>5 DEF IInv, ConnInv
  <2>2. \A d \in leaked : conn'[d] = "closed"
    BY <1>4, <1>5 DEF IInv, ConnInv
  <2> QED BY <2>1, <2>2 DEF IInv, ConnInv, Dying, base
<1>16. HeldInv'
  <2>1. ASSUME NEW t \in Server, NEW k \in Loops, NEW d \in hodlers'[t][k]
        PROVE  conn'[d] = "open" /\ of[d] = t /\ at[d] = k
    <3>1. d \in hodlers[t][k] /\ d # c /\ d \in Conn
      BY <1>8
    <3> QED BY <1>5, <3>1 DEF IInv, HeldInv
  <2>2. ASSUME NEW d \in Conn, conn'[d] = "open", phase[of[d]] = "listening" \/ at[d] = Base
        PROVE  d \in hodlers'[of[d]][at[d]]
    <3>1. d # c /\ conn[d] = "open"
      BY <1>5, <2>2
    <3>2. of[d] \in Server /\ at[d] \in Loops /\ d \in hodlers[of[d]][at[d]]
      BY <2>2, <3>1, Placed DEF IInv, HeldInv
    <3>3. \/ hodlers'[of[d]][at[d]] = hodlers[of[d]][at[d]]
          \/ hodlers'[of[d]][at[d]] = hodlers[of[d]][at[d]] \ {c}
      BY <1>7, <3>2
    <3> QED BY ONLY <3>1, <3>2, <3>3
  <2>3. \A d \in Conn : conn'[d] = "open" => conn[d] = "open"
    BY <1>5
  <2>4. \A t \in Server :
           phase[t] = "sweeping" /\ loops = {Base} /\ Base \in swept => hodlers'[t][Base] = {}
    BY <1>8, NotNone DEF IInv, HeldInv
  <2> QED BY <2>1, <2>2, <2>3, <2>4 DEF IInv, HeldInv, base
<1>17. QueueInv'
  <2>1. ASSUME NEW d \in Conn, Condemned(d) PROVE Condemned(d)'
    <3>1. conn'[d] \in {"open", "closed"}
      BY <1>5, <2>1 DEF Condemned
    <3>2. \A t \in Server : \A k \in Loops : d \notin hodlers'[t][k]
      BY <1>8, <2>1 DEF Condemned
    <3> QED BY <2>1, <3>1, <3>2 DEF Condemned, Dying, base
  <2>2. ASSUME NEW k, NEW d \in Conn, Arriving(k, d) PROVE Arriving(k, d)'
    BY <1>5, <2>2 DEF Arriving
  <2>3. ASSUME NEW k \in Workers, NEW i \in 1..Len(queue'[k]) PROVE TaskOK(k, queue[k][i])'
    <3>1. PICK t \in Task : t = queue[k][i]
      BY TaskOp
    <3>2. t.op \in {"new", "destroyed", "exit"} /\ TaskOK(k, t)
      BY <3>1 DEF Task, IInv, QueueInv, TasksOK
    <3>3. TaskOK(k, t)'
      BY <2>1, <2>2, <3>2 DEF TaskOK
    <3> QED BY <3>1, <3>3
  <2> QED BY <2>3 DEF IInv, QueueInv, TasksOK
<1>18. LoadInv'
  <2>1. \A k \in Loops : Carried(k)' = IF k = l THEN Carried(k) \ {c} ELSE Carried(k)
    BY <1>2, <1>5, <1>9 DEF Carried
  <2> QED BY <1>10, <1>11, <2>1 DEF IInv, LoadInv
<1>19. SpreadInv'
  BY <1>5 DEF SpreadInv
<1> QED BY <1>12, <1>13, <1>14, <1>15, <1>16, <1>17, <1>18, <1>19 DEF IInv

LEMMA CloseInv ==
  ASSUME IInv, NEW c \in Conn, Close(c)
  PROVE  IInv'
<1>1. /\ fault = "none" /\ conn[c] = "open"
      /\ IF at[c] = Base THEN BaseFree ELSE MayRun(at[c])
      /\ UNCHANGED <<base, of, at, leaked, queue, status>>
  BY DEF Close
<1>2. CASE phase[of[c]] = "dead" /\ fault' = "freed" /\ UNCHANGED <<conn, hodlers, load>>
  <2>1. BaseType' /\ ChanType' /\ LoadType' /\ QueueType' /\ FaultType'
    BY <1>1, <1>2 DEF IInv, TypeOK, BaseType, ChanType, LoadType, QueueType, FaultType, base
  <2>2. TypeOK'
    BY <2>1 DEF TypeOK, BaseType, ChanType, LoadType, QueueType, FaultType
  <2>3. PhaseInv' /\ ConnInv' /\ HeldInv'
    BY <1>1, <1>2 DEF IInv, PhaseInv, ConnInv, HeldInv, base, Dying, LastHolder
  <2>4. QueueInv' /\ LoadInv' /\ SpreadInv'
    BY <1>1, <1>2, TasksKept, LoadKept, SpreadKept DEF base, Dying
  <2>5. FaultCause'
    BY <1>1, <1>2, FreedCause DEF FaultCause, base
  <2> QED BY <2>2, <2>3, <2>4, <2>5 DEF IInv
<1>3. CASE phase[of[c]] # "dead" /\ RemoveChannel(c) /\ fault' \in Raced(of[c], at[c])
  BY <1>1, <1>3, RemoveChannelInv DEF BaseFree
<1> QED BY <1>2, <1>3 DEF Close

LEMMA NextInv == IInv /\ ReadyInv /\ [Next]_vars => IInv'
<1> SUFFICES ASSUME IInv, ReadyInv, [Next]_vars PROVE IInv'
  OBVIOUS
<1>1. ASSUME NEW s \in Server, Start(s) \/ Listen(s) \/ BeginDestroy(s) PROVE IInv'
  BY <1>1, StartInv, ListenInv, BeginDestroyInv
<1>2. ASSUME NEW s \in Server, NEW c \in Conn, NewChannel(s, c) PROVE IInv'
  BY <1>2, NewChannelInv
<1>3. ASSUME NEW l \in loops, LightWeighted(l) PROVE IInv'
  BY <1>3, LightWeightedInv
<1>4. CASE Destructor
  BY <1>4, StopGroupInv, FreeMembersInv, SweepHolderInv, StopThreadInv DEF Destructor
<1>5. ASSUME NEW l \in Workers, RunTask(l) \/ LoopExits(l) PROVE IInv'
  BY <1>5, RunTaskInv, LoopExitsInv
<1>6. ASSUME NEW c \in Conn, Close(c) \/ Traffic(c) PROVE IInv'
  BY <1>6, CloseInv, TrafficInv
<1>7. CASE UNCHANGED vars
  <2>1. BaseType' /\ ChanType' /\ LoadType' /\ QueueType' /\ FaultType'
    BY <1>7 DEF IInv, TypeOK, BaseType, ChanType, LoadType, QueueType, FaultType, vars, base, chans
  <2>2. TypeOK'
    BY <2>1 DEF TypeOK, BaseType, ChanType, LoadType, QueueType, FaultType
  <2>3. PhaseInv' /\ ConnInv' /\ HeldInv'
    BY <1>7 DEF IInv, PhaseInv, ConnInv, HeldInv, vars, base, chans, Dying, LastHolder
  <2>4. QueueInv' /\ LoadInv' /\ SpreadInv'
    BY <1>7, TasksKept, LoadKept, SpreadKept DEF vars, base, chans, Dying
  <2>5. FaultCause'
    BY <1>7 DEF IInv, FaultCause, OwnGroups, vars, base
  <2> QED BY <2>2, <2>3, <2>4, <2>5 DEF IInv
<1> QED BY <1>1, <1>2, <1>3, <1>4, <1>5, <1>6, <1>7 DEF Next

LEMMA Invariance == Spec => []IInv
<1>1. Init => ReadyInv
  BY DEF Init, ReadyInv, OwnGroups
<1>2. ReadyInv /\ [Next]_vars => ReadyInv'
  BY ReadyKept
<1> QED BY <1>1, <1>2, InitInv, NextInv, PTL DEF Spec
-----------------------------------------------------------------------------
(* The maps hold open channels only, each under its server and its loop,   *)
(* and the open channels of a listening server are all held.  (With the    *)
(* types of the variables.)                                                *)
THEOREM MapsAreRight == Spec => []HeldIsOpen
<1>1. IInv => HeldIsOpen
  BY DEF IInv, HeldInv, HeldIsOpen
<1> QED BY <1>1, Invariance, PTL

(* The load of a loop counts the channels that were placed on it and have  *)
(* not closed, and those that a dying server took with it, for good.       *)
THEOREM LoadsAreRight == Spec => []LoadMatches
<1>1. IInv => LoadMatches
  BY DEF IInv, LoadInv, ConnInv, LoadMatches, Carried
<1> QED BY <1>1, Invariance, PTL

(* While nothing has closed, the servers that share a group spread their   *)
(* channels evenly over its loops, however many accept.                    *)
THEOREM LoadsAreEven == Spec => []Spread
<1>1. IInv => Spread
  BY DEF IInv, SpreadInv, Spread
<1> QED BY <1>1, Invariance, PTL

(* Every way in which the destructor breaks the program has the one cause  *)
(* that FaultCause names; a group without threads is safe but for a        *)
(* listen() that was still queued.                                         *)
THEOREM FaultsHaveCauses == Spec => []FaultCause
<1>1. IInv => FaultCause
  BY DEF IInv
<1> QED BY <1>1, Invariance, PTL
=============================================================================

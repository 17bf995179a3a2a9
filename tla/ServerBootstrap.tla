---------------------------- MODULE ServerBootstrap ----------------------------
(***************************************************************************)
(* ServerBootstraps that accept connections in one base loop and spread    *)
(* them over the loops of a NioEventLoopGroup: the Listener, the load      *)
(* balance, the map of channels per loop, and the destructor, which runs   *)
(* in the base loop's thread while the other loops go on.                  *)
(*                                                                         *)
(* A channel here is what NioSocketChannel details: it is open until its   *)
(* close callback or destroyed() has run.  Tasks hold a raw                *)
(* ServerBootstrap; those for destroyed() hold the channel only.           *)
(***************************************************************************)
EXTENDS Naturals, Sequences, SequencesExt, FiniteSets

CONSTANTS
    Server,       \* the ServerBootstraps that share a base loop and a group
    Workers,      \* the loops of the group, each with its thread
    Base,         \* the base loop
    Conn,         \* the connections that may arrive
    None          \* no connection, no server

ASSUME BaseAssumption == Base \notin Workers
ASSUME NoneAssumption == None \notin Server \cup Conn \cup Workers \cup {Base}

(* allLoop(): a group without threads lends its base loop.                 *)
Loops == Workers \cup {Base}

VARIABLES
    loops,      \* the loops of the group: its workers, or the base loop
    kept,       \* whether a user too holds the group
    ready,      \* the servers whose group is started()
    phase,      \* per server: from "idle" through "listening" to "dead"
    listens,    \* servers whose listen() waits in the base loop
    picking,    \* the connection that the base loop is placing
    seen,       \* the load of each loop when placing began
    load,       \* loadfactor_ of each loop
    conn,       \* per connection: "none", "accepted", "open" or "closed"
    of,         \* the server of a connection
    at,         \* the loop of a connection
    hodlers,    \* per server and loop: the channels held
    wheels,     \* servers whose holders have inspectors, each with a timer in its loop
    swept,      \* the loops whose holder the destructor has emptied
    queue,      \* the tasks of each worker, first come first served
    status,     \* per worker: "running", "asked", "exiting" or "stopped"
    fault,      \* how the program broke
    leaked      \* history: channels that never gave their load back

base  == <<loops, kept, ready, phase, wheels, listens, picking, seen, swept>>
chans == <<conn, of, at, hodlers, load, leaked>>
vars  == <<base, chans, queue, status, fault>>

Task == [op : {"new", "destroyed", "exit"}, c : Conn \cup {None}]

TypeOK ==
    /\ loops \in {Workers, {Base}}
    /\ kept \in BOOLEAN
    /\ ready \subseteq Server
    /\ phase \in [Server -> {"idle", "started", "listening", "sweeping", "stopping", "dead"}]
    /\ wheels \subseteq Server
    /\ listens \subseteq Server
    /\ picking \in {None} \cup Conn
    /\ seen \in [Loops -> Nat]
    /\ load \in [Loops -> Nat]
    /\ conn \in [Conn -> {"none", "accepted", "open", "closed"}]
    /\ of \in [Conn -> Server \cup {None}]
    /\ at \in [Conn -> Loops \cup {None}]
    /\ hodlers \in [Server -> [Loops -> SUBSET Conn]]
    /\ swept \subseteq loops
    /\ queue \in [Workers -> Seq(Task)]
    /\ status \in [Workers -> {"running", "asked", "exiting", "stopped"}]
    /\ fault \in {"none", "freed", "listen", "iterator", "orphan", "base", "recursion"}
    /\ leaked \subseteq Conn

NoChannels == [l \in Loops |-> {}]

(* Without group() every server makes a group of its own when it starts;   *)
(* otherwise they share one, which the user may have started.              *)
OwnGroups == loops = {Base} /\ ~kept

Init ==
    /\ loops \in {Workers, {Base}}
    /\ kept \in BOOLEAN
    /\ ready \in {{}} \cup (IF OwnGroups THEN {} ELSE {Server})
    /\ phase = [s \in Server |-> "idle"]
    /\ wheels = {}
    /\ listens = {}
    /\ picking = None
    /\ seen = [l \in Loops |-> 0]
    /\ load = [l \in Loops |-> 0]
    /\ conn = [c \in Conn |-> "none"]
    /\ of = [c \in Conn |-> None]
    /\ at = [c \in Conn |-> None]
    /\ hodlers = [s \in Server |-> NoChannels]
    /\ swept = {}
    /\ queue = [l \in Workers |-> <<>>]
    /\ status = [l \in Workers |-> "running"]
    /\ fault = "none"
    /\ leaked = {}
-----------------------------------------------------------------------------
(* Faulty variants of the definitions below.                               *)

(* A priority queue that puts the heaviest loop on top.                    *)
MayBeLightest_Heaviest(l) == \A k \in loops : seen[l] >= seen[k]

(* removeChannel() that forgets rebalance(kDelete).                        *)
RemoveChannel_KeepsLoad(c) ==
    /\ conn' = [conn EXCEPT ![c] = "closed"]
    /\ hodlers' = [hodlers EXCEPT ![of[c]][at[c]] = @ \ {c}]
    /\ UNCHANGED load

(* removeChannel() that looks into the holder of the base loop.            *)
RemoveChannel_KeepsEntry(c) ==
    /\ conn' = [conn EXCEPT ![c] = "closed"]
    /\ load' = [load EXCEPT ![at[c]] = @ - 1]
    /\ UNCHANGED hodlers

(* The destructor that stops the group first.                              *)
Swept_Early(s) == phase[s] = "sweeping"

(* A loop that ends as soon as it is asked.                                *)
MayRun_UntilAsked(l) == status[l] = "running"

(* stopThread() that does not ask.                                         *)
AskToStop_Forgets(l) == UNCHANGED queue
-----------------------------------------------------------------------------
(* Helpers                                                                 *)

Job(op, c) == [op |-> op, c |-> c]

Dying(s) == phase[s] \in {"sweeping", "stopping"}

(* The base loop's thread is between two callbacks.                        *)
BaseFree == fault = "none" /\ picking = None /\ \A s \in Server : ~Dying(s)

(* The priority queue compares loads that other threads are lowering.      *)
MayBeLightest(l) == \A k \in loops : load[l] <= seen[k]

(* A loop changes its map while the destructor may be walking it.          *)
Raced(s, l) ==
    IF phase[s] = "sweeping" /\ l \notin swept THEN {"none", "iterator"} ELSE {"none"}

(* The end of newChannelLoop(): the channel is held and established.       *)
Hold(s, l, c) ==
    /\ conn' = [conn EXCEPT ![c] = "open"]
    /\ hodlers' = [hodlers EXCEPT ![s][l] = @ \cup {c}]

RemoveChannel(c) ==
    /\ conn' = [conn EXCEPT ![c] = "closed"]
    /\ hodlers' = [hodlers EXCEPT ![of[c]][at[c]] = @ \ {c}]
    /\ load' = [load EXCEPT ![at[c]] = @ - 1]

(* destroyed() of some channels; no load is given back.                    *)
Destroyed(C) ==
    LET open == {c \in C : conn[c] = "open"} IN
    /\ conn' = [c \in Conn |-> IF c \in open THEN "closed" ELSE conn[c]]
    /\ leaked' = leaked \cup open

MayRun(l) == status[l] # "stopped"

AskToStop(l) == queue' = [queue EXCEPT ![l] = Append(@, Job("exit", None))]

(* group_ is the last shared_ptr to a group with threads.                  *)
LastHolder(s) == loops # {Base} /\ ~kept /\ \A t \in Server \ {s} : phase[t] = "dead"

(* What may break when the members of s go.                                *)
Orphans(s) == IF \A l \in loops : hodlers[s][l] = {} THEN {} ELSE {"orphan"}

LateCancel(s) == IF phase[s] = "stopping" /\ s \in wheels THEN {"base"} ELSE {}

(* start() in another thread: NioEventLoopGroup::start() would have to run *)
(* in the base loop's, and assertInLoopThread() calls itself for ever.     *)
OffLoop(s) ==
    \/ /\ s \in ready
       /\ wheels' = wheels \cup {s}
       /\ phase' = [phase EXCEPT ![s] = "started"]
       /\ listens' = listens \cup {s}
       /\ UNCHANGED <<ready, fault>>
    \/ /\ s \notin ready
       /\ fault' = "recursion"
       /\ UNCHANGED <<ready, wheels, phase, listens>>

(* The destructor's walk is over.                                          *)
Swept(s) == phase[s] = "sweeping" /\ swept = loops
-----------------------------------------------------------------------------
(* Actions of the base loop's thread                                       *)

(* start() starts a group that is not started() yet, makes an inspector in *)
(* every loop and has listen() executed, with a raw Listener: in the base  *)
(* loop's thread at once, in others by a task.                             *)
Start(s) ==
    /\ fault = "none" /\ phase[s] = "idle"
    /\ \/ /\ BaseFree
          /\ ready' = IF OwnGroups THEN ready \cup {s} ELSE Server
          /\ wheels' = wheels \cup {s}
          /\ phase' = [phase EXCEPT ![s] = "listening"]
          /\ UNCHANGED <<listens, fault>>
       \/ OffLoop(s)
    /\ UNCHANGED <<loops, kept, picking, seen, swept, chans, queue, status>>

Listen(s) ==
    /\ BaseFree /\ s \in listens
    /\ listens' = listens \ {s}
    /\ \/ /\ phase[s] = "started"
          /\ phase' = [phase EXCEPT ![s] = "listening"]
          /\ UNCHANGED fault
       \/ /\ phase[s] = "dead"
          /\ fault' = "listen"
          /\ UNCHANGED phase
    /\ UNCHANGED <<loops, kept, ready, wheels, picking, seen, swept, chans, queue, status>>

(* newChannel(): a connection is accepted, lightWeighted() begins.         *)
NewChannel(s, c) ==
    /\ BaseFree /\ phase[s] = "listening" /\ conn[c] = "none"
    /\ picking' = c
    /\ seen' = load
    /\ of' = [of EXCEPT ![c] = s]
    /\ UNCHANGED <<loops, kept, ready, phase, wheels, listens, swept, conn, at, hodlers, load, leaked, queue, status, fault>>

(* A loop is chosen, charged, and given newChannelLoop().                  *)
LightWeighted(l) ==
    /\ fault = "none" /\ picking # None /\ MayBeLightest(l)
    /\ load' = [load EXCEPT ![l] = @ + 1]
    /\ at' = [at EXCEPT ![picking] = l]
    /\ picking' = None
    /\ \/ /\ l = Base
          /\ Hold(of[picking], l, picking)
          /\ UNCHANGED queue
       \/ /\ l # Base
          /\ conn' = [conn EXCEPT ![picking] = "accepted"]
          /\ queue' = [queue EXCEPT ![l] = Append(@, Job("new", picking))]
          /\ UNCHANGED hodlers
    /\ UNCHANGED <<loops, kept, ready, phase, wheels, listens, seen, swept, of, leaked, status, fault>>

(* ~ServerBootstrap begins.                                                *)
BeginDestroy(s) ==
    /\ BaseFree /\ phase[s] \in {"idle", "started", "listening"}
    /\ phase' = [phase EXCEPT ![s] = "sweeping"]
    /\ swept' = {}
    /\ UNCHANGED <<loops, kept, ready, wheels, listens, picking, seen, chans, queue, status, fault>>

(* It empties the holder of one loop and has its channels destroyed there. *)
SweepHolder(s, l) ==
    /\ fault = "none" /\ phase[s] = "sweeping" /\ l \notin swept
    /\ swept' = swept \cup {l}
    /\ hodlers' = [hodlers EXCEPT ![s][l] = {}]
    /\ \/ /\ l = Base
          /\ Destroyed(hodlers[s][l])
          /\ UNCHANGED queue
       \/ /\ l # Base
          /\ \E channels \in SetToSeqs(hodlers[s][l]) :
                queue' = [queue EXCEPT ![l] =
                             @ \o [i \in DOMAIN channels |-> Job("destroyed", channels[i])]]
          /\ UNCHANGED <<conn, leaked>>
    /\ UNCHANGED <<loops, kept, ready, phase, wheels, listens, picking, seen, of, at, load, status, fault>>

(* The members go, last declared first: a group nobody else holds stops    *)
(* its threads one after the other and joins each ...                      *)
StopGroup(s) ==
    /\ fault = "none" /\ Swept(s) /\ LastHolder(s)
    /\ phase' = [phase EXCEPT ![s] = "stopping"]
    /\ UNCHANGED <<loops, kept, ready, wheels, listens, picking, seen, swept, chans, queue, status, fault>>

StopThread(l) ==
    /\ fault = "none"
    /\ \E s \in Server : phase[s] = "stopping"
    /\ status[l] = "running"
    /\ \A k \in Workers : status[k] \in {"running", "stopped"}
    /\ status' = [status EXCEPT ![l] = "asked"]
    /\ AskToStop(l)
    /\ UNCHANGED <<base, chans, fault>>

(* ... and the maps free the channels that came after the walk, open as    *)
(* they are unless a user holds them, and the inspectors, which cancel a   *)
(* timer in each loop: when the loops went first, in freed memory.         *)
FreeMembers(s) ==
    /\ fault = "none"
    /\ \/ phase[s] = "stopping" /\ \A l \in Workers : status[l] = "stopped"
       \/ Swept(s) /\ ~LastHolder(s)
    /\ phase' = [phase EXCEPT ![s] = "dead"]
    /\ fault' \in {"none"} \cup Orphans(s) \cup LateCancel(s)
    /\ wheels' = wheels \ {s}
    /\ hodlers' = [hodlers EXCEPT ![s] = NoChannels]
    /\ UNCHANGED <<loops, kept, ready, listens, picking, seen, swept, conn, of, at, load, leaked, queue, status>>
-----------------------------------------------------------------------------
(* Actions of the loops                                                    *)

(* A worker runs its next task: newChannelLoop(), destroyed() or the       *)
(* request to exit.                                                        *)
RunTask(l) ==
    /\ fault = "none" /\ MayRun(l) /\ queue[l] # <<>>
    /\ queue' = [queue EXCEPT ![l] = Tail(@)]
    /\ LET c == Head(queue[l]).c
           op == Head(queue[l]).op
       IN  \/ /\ op = "new" /\ phase[of[c]] = "dead"
              /\ fault' = "freed"
              /\ UNCHANGED <<conn, hodlers, leaked, status>>
           \/ /\ op = "new" /\ phase[of[c]] # "dead"
              /\ Hold(of[c], l, c)
              /\ fault' \in Raced(of[c], l)
              /\ UNCHANGED <<leaked, status>>
           \/ /\ op = "destroyed"
              /\ Destroyed({c})
              /\ UNCHANGED <<hodlers, status, fault>>
           \/ /\ op = "exit"
              /\ status' = [status EXCEPT ![l] = "exiting"]
              /\ UNCHANGED <<conn, hodlers, leaked, fault>>
    /\ UNCHANGED <<base, of, at, load>>

(* The loop ends, at the latest when its active tasks have run.            *)
LoopExits(l) ==
    /\ fault = "none" /\ status[l] = "exiting"
    /\ status' = [status EXCEPT ![l] = "stopped"]
    /\ UNCHANGED <<base, chans, queue, fault>>

(* A channel closes in its loop: removeChannel() of a raw ServerBootstrap. *)
Close(c) ==
    /\ fault = "none" /\ conn[c] = "open"
    /\ IF at[c] = Base THEN BaseFree ELSE MayRun(at[c])
    /\ \/ /\ phase[of[c]] = "dead"
          /\ fault' = "freed"
          /\ UNCHANGED <<conn, hodlers, load>>
       \/ /\ phase[of[c]] # "dead"
          /\ RemoveChannel(c)
          /\ fault' \in Raced(of[c], at[c])
    /\ UNCHANGED <<base, of, at, leaked, queue, status>>

(* Traffic of a channel goes to the inspector of its holder, which its     *)
(* pipeline keeps raw: that changes nothing here, unless it is gone.       *)
Traffic(c) ==
    /\ fault = "none" /\ conn[c] = "open" /\ phase[of[c]] = "dead" /\ MayRun(at[c])
    /\ fault' = "freed"
    /\ UNCHANGED <<base, chans, queue, status>>

Destructor ==
    \/ \E s \in Server : StopGroup(s) \/ FreeMembers(s) \/ \E l \in loops : SweepHolder(s, l)
    \/ \E l \in Workers : StopThread(l)

Next ==
    \/ \E s \in Server : Start(s) \/ Listen(s) \/ BeginDestroy(s)
    \/ \E s \in Server, c \in Conn : NewChannel(s, c)
    \/ \E l \in loops : LightWeighted(l)
    \/ Destructor
    \/ \E l \in Workers : RunTask(l) \/ LoopExits(l)
    \/ \E c \in Conn : Close(c) \/ Traffic(c)

Spec == Init /\ [][Next]_vars

(* Loops serve their queues; a callback or destructor that began goes on.  *)
Fairness ==
    /\ WF_vars(\E l \in loops : LightWeighted(l))
    /\ WF_vars(Destructor)
    /\ \A l \in Workers : WF_vars(RunTask(l)) /\ WF_vars(LoopExits(l))

FairSpec == Spec /\ Fairness
-----------------------------------------------------------------------------
(* Properties                                                              *)

(* The load of a loop is what was placed on it and has not closed, plus    *)
(* the channels that a dying ServerBootstrap destroyed: their load is      *)
(* never given back, and other servers of the group avoid the loop.        *)
LoadMatches ==
    /\ \A l \in Loops :
          load[l] = Cardinality({c \in Conn : at[c] = l /\ (conn[c] # "closed" \/ c \in leaked)})
    /\ \A c \in leaked : Dying(of[c]) \/ phase[of[c]] = "dead"

(* As long as nothing has closed, no loop has two channels more than       *)
(* another, whichever servers accepted them.                               *)
Spread ==
    (\A c \in Conn : conn[c] # "closed") =>
        \A l, k \in loops : load[l] <= load[k] + 1

(* The maps hold exactly the open channels that nobody has condemned, each *)
(* with the server and the loop it belongs to.  (And the variables have    *)
(* their types.)                                                           *)
HeldIsOpen ==
    /\ TypeOK
    /\ fault = "none" =>
        /\ \A s \in Server : \A l \in Loops : \A c \in hodlers[s][l] :
              conn[c] = "open" /\ of[c] = s /\ at[c] = l
        /\ \A c \in Conn : conn[c] = "open" /\ phase[of[c]] = "listening" =>
              c \in hodlers[of[c]][at[c]]

(* What breaks after ~ServerBootstrap: with workers, a map changed while   *)
(* it is walked and channels that opened after the walk; tasks and close   *)
(* callbacks only when someone else holds the group on; and a listen()     *)
(* that was still queued.  With a single loop nothing but the last.  The   *)
(* server that goes last and takes the group with it has its inspectors    *)
(* cancel their timers in loops that are gone.  And before: start() off    *)
(* the base loop recurses when the group is not started, that is for every *)
(* server with a group of its own, and for the first of a shared group.    *)
FaultCause ==
    /\ fault = "iterator" => loops # {Base} /\ \E s \in Server : phase[s] = "sweeping"
    /\ fault = "orphan" => loops # {Base} /\ \E s \in Server : phase[s] = "dead"
    /\ fault = "freed" => loops # {Base} /\ (kept \/ \E s \in Server : phase[s] # "dead")
    /\ fault = "base" =>
          /\ loops # {Base} /\ ~kept
          /\ \A s \in Server : phase[s] = "dead"
          /\ \A l \in Workers : status[l] = "stopped"
    /\ fault = "listen" => \E s \in Server : phase[s] = "dead"
    /\ fault = "recursion" =>
          /\ \E s \in Server \ ready : phase[s] = "idle"
          /\ ~OwnGroups => \A s \in Server : phase[s] \notin {"started", "listening"}

(* An accepted connection becomes a channel (or the program breaks).       *)
AcceptedOpens ==
    \A c \in Conn : (conn[c] = "accepted") ~> (conn[c] # "accepted" \/ fault # "none")

(* The destructor ends: no join waits for ever.                            *)
TeardownEnds ==
    \A s \in Server : (phase[s] = "sweeping") ~> (phase[s] = "dead" \/ fault # "none")
=============================================================================

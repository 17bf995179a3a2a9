---------------------------- MODULE ClientBootstrap ----------------------------
(***************************************************************************)
(* A ClientBootstrap and its Connector: connection attempts, retries with  *)
(* a growing delay, the channel an attempt becomes, reconnection when the  *)
(* channel closes, and the destructor.                                     *)
(*                                                                         *)
(* All handlers run in one loop thread.  Its users call from inside that   *)
(* thread, where a call runs at once, or from another one, where its task  *)
(* is queued with a raw Connector.  Only the retry timer and the swap of   *)
(* the close callback hold shared_ptrs.                                    *)
(*                                                                         *)
(* disconnect() only calls shutdown() of the channel and is part of        *)
(* NioSocketChannel.  state_ is left out: nothing but connecting() reads   *)
(* it, for errors that libevent does not report.  A socket() that fails    *)
(* for want of descriptors is left out too.                                *)
(***************************************************************************)
EXTENDS Naturals, Sequences, SequencesExt, FiniteSets

CONSTANTS
    Attempt,       \* identities of attempts, their sockets and channels
    None,          \* no attempt, no channel
    Users,         \* where the calls come from: "loop", "other"
    MaxConnects,   \* bound: how often connect() is called
    UserKeeps      \* whether users keep a shared_ptr to every channel

ASSUME NoneAssumption == None \notin Attempt
ASSUME UsersAssumption == Users \subseteq {"loop", "other"}
ASSUME MaxConnectsAssumption == MaxConnects \in Nat
ASSUME UserKeepsAssumption == UserKeeps \in BOOLEAN

VARIABLES
    wanted,     \* Connector::connect_
    be,         \* Connector::be_
    delay,      \* Connector::retryDelaMs_
    live,       \* the attempts whose bufferevent still waits for its outcome
    leaked,     \* the attempts whose bufferevent nobody will free
    timers,     \* the pending retry timers: seconds to wait
    tasks,      \* the loop's queue
    retry,      \* ClientBootstrap::retry_
    channel,    \* ClientBootstrap::channel_
    found,      \* what the destructor read from channel_
    boot,       \* the ClientBootstrap: "alive", "dying" or "dead"
    channels,   \* the open channels, by their socket
    swapped,    \* those whose close callback is safeRemoveChannel
    load,       \* the loop's load factor, as changed by this client
    server,     \* what an attempt will meet: "up", "refusing", "silent"
    fault,      \* the place where the program broke
    connects,   \* history: calls of connect()
    done,       \* history: the sockets that finished connecting
    resting     \* history: gave up, or a channel closed without retry

connector == <<wanted, be, delay, live, leaked, timers, done>>
holder    == <<channel, channels, swapped, load>>
vars      == <<connector, holder, tasks, retry, found, boot, server, fault,
               connects, resting>>

kInitRetryDelayMs == 500
kMaxRetryDelayMs  == 30000
Delays == {500, 1000, 2000, 4000, 8000, 16000, 30000}

Task == [op : {"connect", "disconnect", "swap"}, ch : Attempt \cup {None}]

TypeOK ==
    /\ wanted \in BOOLEAN
    /\ be \in Attempt \cup {None}
    /\ delay \in Delays
    /\ live \subseteq Attempt
    /\ leaked \subseteq Attempt
    /\ timers \in Seq(0..30)
    /\ tasks \in Seq(Task)
    /\ retry \in BOOLEAN
    /\ channel \in Attempt \cup {None}
    /\ found \in Attempt \cup {None}
    /\ boot \in {"alive", "dying", "dead"}
    /\ channels \subseteq Attempt
    /\ swapped \subseteq channels
    /\ load \in Nat
    /\ server \in {"up", "refusing", "silent"}
    /\ fault \in {"none", "stale", "config", "freed", "bootstrap", "lost"}
    /\ connects \in 0..MaxConnects
    /\ done \subseteq Attempt
    /\ resting \in BOOLEAN

Init ==
    /\ wanted = FALSE
    /\ be = None
    /\ delay = kInitRetryDelayMs
    /\ live = {}
    /\ leaked = {}
    /\ timers = <<>>
    /\ tasks = <<>>
    /\ retry = FALSE
    /\ channel = None
    /\ found = None
    /\ boot = "alive"
    /\ channels = {}
    /\ swapped = {}
    /\ load = 0
    /\ server \in {"up", "refusing", "silent"}
    /\ fault = "none"
    /\ connects = 0
    /\ done = {}
    /\ resting = FALSE
-----------------------------------------------------------------------------
(* Lifetimes                                                               *)

(* The retry timers hold a shared_ptr to the Connector.                    *)
ConnectorAlive == boot # "dead" \/ timers # <<>>

(* Who holds a channel: channel_, the destructor's local copy, a queued    *)
(* task, or the user.                                                      *)
Held(c) ==
    \/ c \in {channel, found}
    \/ \E i \in DOMAIN tasks : tasks[i].ch = c
    \/ UserKeeps

(* A channel that loses its last holder while it is open is destroyed, and *)
(* its destructor asserts kInactive.                                       *)
LastHolders ==
    fault' = IF \E c \in channels' : ~Held(c)' THEN "lost" ELSE fault
-----------------------------------------------------------------------------
(* Faulty variants of the handlers below.                                  *)

(* Without BUFFEREVENT_RELEASE.                                            *)
ReleaseBe_KeepsBe(a) ==
    /\ live' = live \ {a}
    /\ UNCHANGED <<be, leaked>>

(* retryAfter() that schedules once more per error.                        *)
RetryAfter_Twice(a) ==
    /\ be' = None
    /\ live' = live \ {a, be}
    /\ leaked' = leaked \cup ({a} \ {be})
    /\ timers' = IF wanted THEN timers \o <<delay \div 1000, delay \div 1000>> ELSE timers
    /\ UNCHANGED <<delay, done, wanted>>

(* retryAfter() that stops at the maximal delay.                           *)
RetryAfter_StopsAtMax(a) ==
    /\ be' = None
    /\ live' = live \ {a, be}
    /\ leaked' = leaked \cup ({a} \ {be})
    /\ IF wanted /\ delay < kMaxRetryDelayMs
       THEN /\ timers' = Append(timers, delay \div 1000)
            /\ delay' = IF delay * 2 < kMaxRetryDelayMs THEN delay * 2 ELSE kMaxRetryDelayMs
       ELSE UNCHANGED <<timers, delay>>
    /\ UNCHANGED <<done, wanted>>

(* removeChannel() that does not reconnect.                                *)
CloseCallback_NoReconnect(c) ==
    /\ channels' = channels \ {c}
    /\ swapped' = swapped \ {c}
    /\ load' = load - 1
    /\ channel' = None
    /\ UNCHANGED <<connector, resting>>
    /\ LastHolders
-----------------------------------------------------------------------------
(* Handlers, which run inside the loop thread                              *)

(* What an attempt's event does to be_, which need not be its own: the     *)
(* bufferevent of be_ is freed, and that of the attempt is not.            *)
ReleaseBe(a) ==
    /\ be' = None
    /\ live' = live \ {a, be}
    /\ leaked' = leaked \cup ({a} \ {be})

(* connectInLoop(): be_ is overwritten, whatever it was.  Which identity   *)
(* the attempt gets does not matter: one that is free.                     *)
ConnectInLoop ==
    LET free == Attempt \ (live \cup leaked \cup channels)
        a == CHOOSE x \in free : TRUE
    IN  /\ free # {}
        /\ be' = a
        /\ live' = live \cup {a}
        /\ done' = done \ {a}
    /\ UNCHANGED leaked

DisconnectInLoop ==
    /\ be' = None
    /\ live' = live \ {be}

RetryAfter(a) ==
    /\ ReleaseBe(a)
    /\ IF wanted
       THEN /\ timers' = Append(timers, delay \div 1000)
            /\ delay' = IF delay * 2 < kMaxRetryDelayMs THEN delay * 2 ELSE kMaxRetryDelayMs
       ELSE UNCHANGED <<timers, delay>>
    /\ UNCHANGED <<done, wanted>>

(* newChannel(): the socket of be_ becomes the channel.                    *)
NewChannel ==
    /\ channels' = channels \cup {be}
    /\ channel' = be
    /\ load' = load + 1
    /\ UNCHANGED swapped

(* The close callback of a channel: removeChannel(), which may reconnect,  *)
(* or after the swap safeRemoveChannel().                                  *)
CloseCallback(c) ==
    /\ channels' = channels \ {c}
    /\ swapped' = swapped \ {c}
    /\ load' = load - 1
    /\ \/ /\ c \in swapped
          /\ UNCHANGED <<channel, connector, resting>>
       \/ /\ c \notin swapped
          /\ channel' = None
          /\ \/ /\ retry
                /\ delay' = kInitRetryDelayMs
                /\ wanted' = TRUE
                /\ ConnectInLoop
                /\ UNCHANGED <<timers, resting>>
             \/ /\ ~retry
                /\ resting' = TRUE
                /\ UNCHANGED connector
    /\ LastHolders
-----------------------------------------------------------------------------
(* Actions                                                                 *)

Running == fault = "none"

(* connect().                                                              *)
Connect ==
    /\ Running /\ boot = "alive" /\ connects < MaxConnects
    /\ connects' = connects + 1
    /\ wanted' = TRUE
    /\ \/ /\ "loop" \in Users
          /\ ConnectInLoop
          /\ UNCHANGED tasks
       \/ /\ "other" \in Users
          /\ tasks' = Append(tasks, [op |-> "connect", ch |-> None])
          /\ UNCHANGED <<be, live, leaked, done>>
    /\ UNCHANGED <<delay, timers, holder, retry, found, boot, server, fault, resting>>

EnableRetry ==
    /\ Running /\ boot = "alive"
    /\ retry' = ~retry
    /\ UNCHANGED <<connector, holder, tasks, found, boot, server, fault, connects, resting>>

(* An attempt meets the server: eventCaught, handleError.                  *)
EventCaught(a) ==
    /\ Running /\ a \in live
    /\ UNCHANGED <<tasks, retry, found, boot, server, connects>>
    /\ \/ /\ ~ConnectorAlive
          /\ fault' = "freed"
          /\ UNCHANGED <<connector, holder, resting>>
       \/ /\ ConnectorAlive /\ server = "refusing"
          /\ RetryAfter(a)
          /\ UNCHANGED <<holder, fault, resting>>
       \/ /\ ConnectorAlive /\ server = "silent"
          /\ ReleaseBe(a)
          /\ resting' = TRUE
          /\ UNCHANGED <<wanted, delay, timers, done, holder, fault>>
       \/ /\ ConnectorAlive /\ server = "up" /\ be = None
          /\ fault' = "stale"
          /\ UNCHANGED <<connector, holder, resting>>
       \/ /\ ConnectorAlive /\ server = "up" /\ be # None /\ boot = "dead"
          /\ fault' = "bootstrap"
          /\ UNCHANGED <<connector, holder, resting>>
       \/ /\ ConnectorAlive /\ server = "up" /\ be # None /\ boot # "dead"
          /\ ReleaseBe(a)
          /\ done' = done \cup {a}
          /\ NewChannel
          /\ LastHolders
          /\ UNCHANGED <<wanted, delay, timers, resting>>

(* A retry timer fires.  It does not look at connect_.                     *)
RetryTimer ==
    /\ Running
    /\ \E i \in DOMAIN timers : timers' = RemoveAt(timers, i)
    /\ \/ /\ boot = "dead"
          /\ fault' = "config"
          /\ UNCHANGED <<be, live, leaked, done>>
       \/ /\ boot # "dead"
          /\ ConnectInLoop
          /\ UNCHANGED fault
    /\ UNCHANGED <<wanted, delay, holder, tasks, retry, found, boot, server,
                   connects, resting>>

(* A channel closes, for whatever reason.                                  *)
ChannelCloses(c) ==
    /\ Running /\ c \in channels
    /\ UNCHANGED <<tasks, retry, found, boot, server, connects>>
    /\ \/ /\ boot = "dead" /\ c \notin swapped
          /\ fault' = "bootstrap"
          /\ UNCHANGED <<connector, holder, resting>>
       \/ /\ boot # "dead" \/ c \in swapped
          /\ CloseCallback(c)

(* The loop takes the next task of its queue.                              *)
RunTask ==
    /\ Running /\ tasks # <<>>
    /\ tasks' = Tail(tasks)
    /\ UNCHANGED <<wanted, delay, timers, channel, channels, load, retry, found,
                   boot, server, connects, resting>>
    /\ LET task == Head(tasks) IN
       \/ /\ task.op # "swap" /\ ~ConnectorAlive
          /\ fault' = "freed"
          /\ UNCHANGED <<be, live, leaked, done, swapped>>
       \/ /\ task.op = "connect" /\ ConnectorAlive /\ boot = "dead"
          /\ fault' = "config"
          /\ UNCHANGED <<be, live, leaked, done, swapped>>
       \/ /\ task.op = "connect" /\ boot # "dead"
          /\ ConnectInLoop
          /\ UNCHANGED <<swapped, fault>>
       \/ /\ task.op = "disconnect" /\ ConnectorAlive
          /\ DisconnectInLoop
          /\ UNCHANGED <<leaked, done, swapped, fault>>
       \/ /\ task.op = "swap"
          /\ swapped' = swapped \cup ({task.ch} \cap channels)
          /\ UNCHANGED <<be, live, leaked, done>>
          /\ LastHolders

(* ~ClientBootstrap in the loop thread: the close callback is swapped or   *)
(* be_ is freed, at once.  `unique' is computed from an empty pointer, so  *)
(* the channel is never closed.                                            *)
DestroyInLoop ==
    /\ Running /\ boot = "alive" /\ "loop" \in Users
    /\ boot' = "dead"
    /\ channel' = None
    /\ \/ /\ channel # None
          /\ swapped' = swapped \cup {channel}
          /\ UNCHANGED <<wanted, be, live>>
       \/ /\ channel = None
          /\ wanted' = FALSE
          /\ DisconnectInLoop
          /\ UNCHANGED swapped
    /\ UNCHANGED <<delay, leaked, timers, done, channels, load, tasks, retry, found,
                   server, connects, resting>>
    /\ LastHolders

(* ~ClientBootstrap in another thread reads channel_ under the mutex ...   *)
DestroyBegins ==
    /\ Running /\ boot = "alive" /\ "other" \in Users
    /\ boot' = "dying"
    /\ found' = channel
    /\ UNCHANGED <<connector, holder, tasks, retry, server, fault, connects, resting>>

(* ... and later queues the swap or disconnectInLoop and is gone.          *)
DestroyEnds ==
    /\ Running /\ boot = "dying"
    /\ boot' = "dead"
    /\ channel' = None
    /\ found' = None
    /\ IF found # None
       THEN /\ tasks' = Append(tasks, [op |-> "swap", ch |-> found])
            /\ UNCHANGED wanted
       ELSE /\ tasks' = Append(tasks, [op |-> "disconnect", ch |-> None])
            /\ wanted' = FALSE
    /\ UNCHANGED <<be, delay, live, leaked, timers, done, channels, swapped, load,
                   retry, server, connects, resting>>
    /\ LastHolders

(* The server comes and goes.                                              *)
ServerChanges ==
    /\ Running
    /\ server' \in {"up", "refusing", "silent"} \ {server}
    /\ UNCHANGED <<connector, holder, tasks, retry, found, boot, fault, connects, resting>>

Next ==
    \/ Connect \/ EnableRetry
    \/ \E a \in Attempt : EventCaught(a) \/ ChannelCloses(a)
    \/ RetryTimer \/ RunTask
    \/ DestroyInLoop \/ DestroyBegins \/ DestroyEnds
    \/ ServerChanges

Spec == Init /\ [][Next]_vars

(* The loop runs its tasks and timers, and the kernel reports the outcome  *)
(* of every attempt.  Nothing is assumed of the server or the users.       *)
Fairness ==
    /\ WF_vars(RunTask)
    /\ WF_vars(RetryTimer)
    /\ \A a \in Attempt : WF_vars(EventCaught(a))

FairSpec == Spec /\ Fairness
-----------------------------------------------------------------------------
(* Properties                                                              *)

Pending ==
    Cardinality(live) + Cardinality(channels) + Len(timers)
        + Cardinality({i \in DOMAIN tasks : tasks[i].op = "connect"})

(* Retries and reconnections never multiply: every call of connect() leads *)
(* to at most one queued task, attempt, timer or channel at a time.  And   *)
(* after one call the chain attempt, timer, attempt, channel, attempt has  *)
(* no gap, until handleError counts an error as fatal or a channel closes  *)
(* with retry off.                                                         *)
OneChain ==
    /\ Pending <= connects
    /\ connects = 1 /\ boot = "alive" /\ fault = "none" /\ ~resting => Pending = 1

(* With one call of connect() the books are exact: be_ is the one attempt, *)
(* channel_ is the one channel, its socket is connected, no bufferevent is *)
(* left behind.  (A second call overwrites be_ and breaks all of this.)    *)
(* However many calls: every open channel weighs one on its loop, through  *)
(* reconnections, both close callbacks and the destructor.  (And the       *)
(* variables have their types.)                                            *)
ExactBooks ==
    /\ TypeOK
    /\ fault = "none" => load = Cardinality(channels)
    /\ connects <= 1 /\ boot # "dead" /\ fault = "none" =>
          /\ live = {be} \ {None}
          /\ channels = {channel} \ {None}
          /\ channels \subseteq done
          /\ leaked = {}

(* What it takes to break the program: eventCaught meets a null be_ only   *)
(* after a second connect(); a retry timer outlives the ClientBootstrap    *)
(* and its config_; a raw Connector dangles after calls from outside the   *)
(* loop; a channel dies open when it lives only in channel_.               *)
FaultCause ==
    /\ fault = "stale" => connects >= 2
    /\ fault = "config" => boot = "dead"
    /\ fault = "freed" => boot = "dead" /\ ("other" \in Users \/ connects >= 2)
    /\ fault = "bootstrap" => boot = "dead" /\ ("other" \in Users \/ connects >= 2)
    /\ fault = "lost" => ~UserKeeps /\ (boot = "dead" \/ connects >= 2)

(* With retry on and a server that stays up, a client that was told to     *)
(* connect gets a channel back, unless it rests or is destroyed.           *)
Reconnects ==
    (<>[](server = "up" /\ retry) /\ <>(connects > 0))
        => []<>(channels # {} \/ resting \/ boot # "alive" \/ fault # "none")
=============================================================================

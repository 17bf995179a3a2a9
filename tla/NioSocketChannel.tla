---------------------------- MODULE NioSocketChannel ----------------------------
(***************************************************************************)
(* One NioSocketChannel with everything that touches it: the loop thread   *)
(* that owns it, the task queue of that loop, the callers on other         *)
(* threads, its ChannelPipeline (a libevent bufferevent), the peer, and    *)
(* the ServerBootstrap that holds it and removes it when it closes.        *)
(*                                                                         *)
(* Inside the loop thread a call runs at once.  A call from another thread *)
(* first reads state_ (action Check) and later acts on what it read        *)
(* (action Act): state_ is a plain field and anything may happen between.  *)
(* A task carries a raw `this' unless it is a refused promise or           *)
(* destroyed(), which hold a shared_ptr.                                   *)
(*                                                                         *)
(* A step the program does not survive (null or dangling pointer) sets     *)
(* fault, and nothing happens afterwards.                                  *)
(***************************************************************************)
EXTENDS Naturals, Sequences, SequencesExt, Functions

CONSTANTS
    Callers,         \* the threads, other than the loop, that use the channel
    Loop,            \* the loop thread
    Kinds,           \* the write overloads in use
    Calls,           \* the closing calls the callers make
    MaxCalls,        \* bound: how many calls each thread makes
    BootstrapDies,   \* whether the ServerBootstrap may be destroyed
    NoWrite          \* the write of a task or call that has none

ASSUME LoopAssumption == Loop \notin Callers
ASSUME KindsAssumption ==
    Kinds \subseteq {"plain", "cb", "rawcb", "bufcb", "shared", "sharedcb", "emptycb"}
ASSUME CallsAssumption == Calls \subseteq {"close", "shutdown", "closeWtihDelay"}
ASSUME BoundAssumption == MaxCalls \in Nat
ASSUME SwitchAssumption == BootstrapDies \in BOOLEAN

Threads == Callers \cup {Loop}

(* The n-th call of a thread, when it is a write.  Kinds of write:         *)
(*   plain    no callback, and a buffer of the write's own                 *)
(*   cb       a callback, any overload not listed below                    *)
(*   rawcb    write(const void*, size_t, cb)                               *)
(*   bufcb    writeAndFlush(Buffer*, cb)                                   *)
(*   shared   write(BufferPtr) and write(shared_ptr<string>)               *)
(*   sharedcb the same with a callback                                     *)
(*   emptycb  a callback and no bytes                                      *)
Write == [by : Threads, n : 1..MaxCalls, kind : Kinds]

ASSUME NoWriteAssumption == NoWrite \notin Write

(* Whether the write reaches the loop with its promise.  From another      *)
(* thread the rawcb overload binds an empty promise into its task.         *)
Promised(w) == \/ w.kind \in {"cb", "bufcb", "sharedcb", "emptycb"}
               \/ w.kind = "rawcb" /\ w.by = Loop

(* Whether a write that finds the channel not active answers false: the    *)
(* Buffer* overload has no else branch.                                    *)
Refusable(w) == w.kind \in {"cb", "rawcb", "sharedcb", "emptycb"}

HasBytes(w) == w.kind # "emptycb"

(* Whether the output holds a pointer to the caller's shared_ptr.          *)
Shared(w) == w.kind \in {"shared", "sharedcb"}

VARIABLES
    state,       \* NioSocketChannel::state_
    wired,       \* whether pipeline_ is non-null
    enabled,     \* the directions enabled on the bufferevent
    output,      \* the bufferevent's output: writes not yet given to the socket
    promises,    \* writePromis_, walked and cleared only as a whole
    held,        \* whether the ServerBootstrap's map holds the channel
    ups,         \* channelActive callbacks made
    downs,       \* channelInActive callbacks made
    fin,         \* whether shutdown(SHUT_WR) was called
    fault,       \* the place where the program broke
    tasks,       \* the loop's queue, first come first served
    call,        \* per thread: what it decided from state_ and has yet to do
    issued,      \* per thread: calls made
    refs,        \* the threads whose user code holds a shared_ptr
    delayed,     \* pending closeWtihDelay timers
    bootstrap,   \* the ServerBootstrap, "alive" or "dead"
    conn,        \* the connection as the socket will report it
    wire,        \* history: the writes given to the socket
    yes,         \* history: promises answered true
    no,          \* history: promises answered false
    swallowed,   \* history: promises cleared without an answer by writePromise
    late,        \* history: a caller overwrote kInactive
    careless     \* history: a user let go of its shared_ptr with a raw task queued

life    == <<state, wired, enabled, output, promises, held, downs, fault>>
answers == <<yes, no, swallowed>>
users   == <<tasks, call, issued, refs, delayed, bootstrap, late, careless>>
vars    == <<life, answers, users, ups, fin, conn, wire>>

States == {"kInactive", "kActiving", "kActive", "kInactiving"}
Faults == {"none", "handleClose", "shutdownInLoop", "writeInLoop", "nullPromise",
           "freed", "removeChannel", "newChannelLoop", "weakCallback", "cleanup"}
Task   == [op : {"write", "refuse", "close", "shutdown", "destroyed"},
           w : Write \cup {NoWrite}]
Call   == [op : {"idle", "write", "close", "shutdown", "closeWtihDelay"},
           w : Write \cup {NoWrite}]

TypeOK ==
    /\ state \in States
    /\ wired \in BOOLEAN
    /\ enabled \subseteq {"read", "write"}
    /\ output \in Seq(Write)
    /\ promises \subseteq Write
    /\ held \in BOOLEAN
    /\ ups \in 0..1
    /\ downs \in 0..1
    /\ fin \in BOOLEAN
    /\ fault \in Faults
    /\ tasks \in Seq(Task)
    /\ call \in [Threads -> Call]
    /\ issued \in [Threads -> 0..MaxCalls]
    /\ refs \subseteq Threads
    /\ delayed \in Nat
    /\ bootstrap \in {"alive", "dead"}
    /\ conn \in {"up", "eof", "reset", "error"}
    /\ wire \in Seq(Write)
    /\ yes \subseteq Write
    /\ no \subseteq Write
    /\ swallowed \subseteq Write
    /\ late \in BOOLEAN
    /\ careless \in BOOLEAN
-----------------------------------------------------------------------------
(* Values                                                                  *)

Idle == [op |-> "idle", w |-> NoWrite]
Job(op, w) == [op |-> op, w |-> w]

RawTask(task) == task.op \in {"write", "close", "shutdown"}

RawQueued == \E i \in DOMAIN tasks : RawTask(tasks[i])

(* Nobody holds the channel any more: its destructor has run.              *)
Gone == /\ ups = 1
        /\ ~held
        /\ refs = {}
        /\ \A i \in DOMAIN tasks : RawTask(tasks[i])

Closable == state \in {"kActive", "kInactiving"}

NextWrite(t, kind) == [by |-> t, n |-> issued[t] + 1, kind |-> kind]

Init ==
    /\ state = "kActiving"
    /\ wired = TRUE
    /\ enabled = {"write"}
    /\ output = <<>>
    /\ promises = {}
    /\ held = FALSE
    /\ ups = 0
    /\ downs = 0
    /\ fin = FALSE
    /\ fault = "none"
    /\ tasks = <<>>
    /\ call = [t \in Threads |-> Idle]
    /\ issued = [t \in Threads |-> 0]
    /\ refs = {}
    /\ delayed = 0
    /\ bootstrap = "alive"
    /\ conn = "up"
    /\ wire = <<>>
    /\ yes = {}
    /\ no = {}
    /\ swallowed = {}
    /\ late = FALSE
    /\ careless = FALSE
-----------------------------------------------------------------------------
(* Faulty variants of the handlers below: each is a slip this code invites *)
(* and breaks one of the properties at the end of the module.              *)

(* removeChannel forgets destroyed(): the pipeline stays.                  *)
HandleClose_KeepsPipeline ==
    /\ state' = "kInactive"
    /\ held' = FALSE
    /\ downs' = downs + 1
    /\ UNCHANGED <<wired, enabled, output, promises, fault>>

(* handleClose() without setChannelState(kInactive).                       *)
HandleClose_KeepsState ==
    /\ wired' = FALSE
    /\ enabled' = {}
    /\ output' = <<>>
    /\ promises' = {}
    /\ held' = FALSE
    /\ downs' = downs + 1
    /\ UNCHANGED <<state, fault>>

(* removeChannel forgets to erase the channel from the map.                *)
HandleClose_KeepsEntry ==
    /\ state' = "kInactive"
    /\ wired' = FALSE
    /\ enabled' = {}
    /\ output' = <<>>
    /\ promises' = {}
    /\ downs' = downs + 1
    /\ UNCHANGED <<held, fault>>

(* The promise is queued only behind an empty output.                      *)
WriteInLoop_DropsPromise(w) ==
    /\ promises' = IF Promised(w) /\ output = <<>> THEN promises \cup {w} ELSE promises
    /\ output' = IF HasBytes(w) THEN Append(output, w) ELSE output
    /\ UNCHANGED <<state, wired, enabled, held, downs, fault, yes, no, swallowed>>

(* The bytes go to the front of the output.                                *)
WriteInLoop_Prepends(w) ==
    /\ promises' = IF Promised(w) THEN promises \cup {w} ELSE promises
    /\ output' = IF HasBytes(w) THEN <<w>> \o output ELSE output
    /\ UNCHANGED <<state, wired, enabled, held, downs, fault, yes, no, swallowed>>

(* isWritting() taken the wrong way round.                                 *)
ShutdownInLoop_Inverted ==
    /\ fin' = (fin \/ "write" \in enabled)
    /\ UNCHANGED fault

(* writePromise answers the list and does not clear it.                    *)
WritePromise_NoClear ==
    /\ yes' = yes \cup promises
    /\ output' = <<>>
    /\ UNCHANGED <<promises, state, wired, enabled, held, downs, fault, swallowed, issued>>

(* writePromise walks the list to its end at the time, and so answers a    *)
(* promise that a callback has only just added.                            *)
WritePromise_WalksOn ==
    /\ promises # {} /\ state = "kActive" /\ issued[Loop] < MaxCalls
    /\ issued' = [issued EXCEPT ![Loop] = @ + 1]
    /\ \E kind \in Kinds :
          /\ output' = <<NextWrite(Loop, kind)>>
          /\ yes' = yes \cup promises \cup {NextWrite(Loop, kind)}
    /\ promises' = {}
    /\ UNCHANGED <<state, wired, enabled, held, downs, fault, swallowed>>
-----------------------------------------------------------------------------
(* What runs inside the loop thread.  These are handlers, not actions:     *)
(* each says what becomes of life, answers and fin.                        *)

(* ~ChannelPipeline: the bufferevent goes, with its output and promises.   *)
ResetPipeline ==
    /\ wired' = FALSE
    /\ enabled' = {}
    /\ output' = <<>>
    /\ promises' = {}

(* The close callback: destroyed() resets pipeline_ (the channel is        *)
(* kInactive already), then the map entry goes, in a ServerBootstrap that  *)
(* may be dead by now.                                                     *)
RemoveChannel ==
    /\ ResetPipeline
    /\ held' = FALSE
    /\ fault' = IF bootstrap = "alive" THEN fault ELSE "removeChannel"

(* handleClose(): channelInActive, then the close callback.                *)
HandleClose ==
    /\ state' = "kInactive"
    /\ \/ /\ wired
          /\ downs' = downs + 1
          /\ RemoveChannel
       \/ /\ ~wired
          /\ fault' = "handleClose"
          /\ UNCHANGED <<wired, enabled, output, promises, held, downs>>

(* closeInLoop() without its test of state_.                               *)
CloseInLoop_Unchecked == HandleClose

(* closeInLoop() that tests for kActive only.                              *)
CloseInLoop_ActiveOnly ==
    \/ state = "kActive" /\ HandleClose
    \/ state # "kActive" /\ UNCHANGED life

CloseInLoop ==
    \/ Closable /\ HandleClose
    \/ ~Closable /\ UNCHANGED life

ShutdownInLoop ==
    \/ /\ wired
       /\ fin' = (fin \/ "write" \notin enabled)
       /\ UNCHANGED fault
    \/ /\ ~wired
       /\ fault' = "shutdownInLoop"
       /\ UNCHANGED fin

(* writeAndFlushInLoop(): an inactive channel answers false through the    *)
(* promise, even when there is none.                                       *)
WriteInLoop(w) ==
    /\ \/ /\ state = "kInactive" /\ Promised(w)
          /\ no' = no \cup {w}
          /\ UNCHANGED <<output, promises, fault>>
       \/ /\ state = "kInactive" /\ ~Promised(w)
          /\ fault' = "nullPromise"
          /\ UNCHANGED <<output, promises, no>>
       \/ /\ state # "kInactive" /\ ~wired
          /\ fault' = "writeInLoop"
          /\ UNCHANGED <<output, promises, no>>
       \/ /\ state # "kInactive" /\ wired
          /\ promises' = IF Promised(w) THEN promises \cup {w} ELSE promises
          /\ output' = IF HasBytes(w) THEN Append(output, w) ELSE output
          /\ UNCHANGED <<no, fault>>
    /\ UNCHANGED <<state, wired, enabled, held, downs, yes, swallowed>>

(* destroyed(): a channel that is closing already is not told so.          *)
Destroyed ==
    /\ IF state = "kActive"
       THEN state' = "kInactive" /\ downs' = downs + 1
       ELSE UNCHANGED <<state, downs>>
    /\ ResetPipeline
    /\ UNCHANGED fault

(* The bufferevent has written the whole of its output: every promise is   *)
(* answered true and the list is cleared.  A callback may call back into   *)
(* the channel: a promise it adds is cleared with the others.              *)
WritePromise ==
    /\ yes' = yes \cup promises
    /\ \/ /\ output' = <<>>
          /\ promises' = {}
          /\ UNCHANGED <<state, wired, enabled, held, downs, fault, swallowed, issued>>
       \/ /\ promises # {} /\ state = "kActive" /\ issued[Loop] < MaxCalls
          /\ issued' = [issued EXCEPT ![Loop] = @ + 1]
          /\ \E kind \in Kinds :
                LET w == NextWrite(Loop, kind) IN
                /\ output' = IF HasBytes(w) THEN <<w>> ELSE <<>>
                /\ swallowed' = IF Promised(w) THEN swallowed \cup {w} ELSE swallowed
          /\ promises' = {}
          /\ UNCHANGED <<state, wired, enabled, held, downs, fault>>
       \/ /\ promises # {} /\ Closable /\ issued[Loop] < MaxCalls
          /\ issued' = [issued EXCEPT ![Loop] = @ + 1]
          /\ HandleClose
          /\ UNCHANGED swallowed
-----------------------------------------------------------------------------
(* Actions                                                                 *)

Running == fault = "none"

(* established(): reading starts and user code gets the channel.           *)
Established ==
    /\ state' = "kActive"
    /\ enabled' = enabled \cup {"read"}
    /\ ups' = 1
    /\ refs' = Threads

(* newChannelLoop(): its task holds a raw ServerBootstrap.                 *)
NewChannelLoop ==
    /\ Running /\ ups = 0
    /\ \/ /\ bootstrap = "alive"
          /\ held' = TRUE
          /\ Established
          /\ UNCHANGED fault
       \/ /\ bootstrap = "dead"
          /\ fault' = "newChannelLoop"
          /\ UNCHANGED <<state, held, enabled, ups, refs>>
    /\ UNCHANGED <<wired, output, promises, downs, answers, tasks, call, issued,
                   delayed, bootstrap, late, careless, fin, conn, wire>>

(* A caller's thread reads state_ and decides.  A write that finds the     *)
(* channel not active queues its refusal at once, or is dropped.           *)
CheckWrite(t) == \E kind \in Kinds :
    LET w == NextWrite(t, kind) IN
    \/ /\ state = "kActive"
       /\ call' = [call EXCEPT ![t] = Job("write", w)]
       /\ UNCHANGED tasks
    \/ /\ state # "kActive"
       /\ tasks' = IF Refusable(w) THEN Append(tasks, Job("refuse", w)) ELSE tasks
       /\ UNCHANGED call

CheckClosing(t) == \E op \in Calls :
    /\ IF op = "shutdown" THEN state = "kActive" ELSE Closable
    /\ call' = [call EXCEPT ![t] = Job(op, NoWrite)]
    /\ UNCHANGED tasks

Check(t) ==
    /\ Running /\ t \in refs /\ call[t] = Idle /\ issued[t] < MaxCalls
    /\ issued' = [issued EXCEPT ![t] = @ + 1]
    /\ CheckWrite(t) \/ CheckClosing(t)
    /\ UNCHANGED <<life, answers, refs, delayed, bootstrap, late, careless, ups, fin, conn, wire>>

(* makeWeakCallback() copies its weak_ptr from itself: what it holds is    *)
(* whatever was there, and copying that may already break.                 *)
ScheduleClose ==
    \/ delayed' = delayed + 1 /\ UNCHANGED fault
    \/ fault' = "weakCallback" /\ UNCHANGED delayed

(* The second half of the caller's call: setChannelState, then execute().  *)
Act(t) ==
    /\ Running /\ call[t].op # "idle"
    /\ call' = [call EXCEPT ![t] = Idle]
    /\ \/ /\ call[t].op = "write"
          /\ tasks' = Append(tasks, call[t])
          /\ UNCHANGED <<state, late, delayed, fault>>
       \/ /\ call[t].op # "write"
          /\ state' = "kInactiving"
          /\ late' = (late \/ state = "kInactive")
          /\ \/ /\ call[t].op \in {"close", "shutdown"}
                /\ tasks' = Append(tasks, call[t])
                /\ UNCHANGED <<delayed, fault>>
             \/ /\ call[t].op = "closeWtihDelay"
                /\ ScheduleClose
                /\ UNCHANGED tasks
    /\ UNCHANGED <<wired, enabled, output, promises, held, downs, answers, issued,
                   refs, bootstrap, careless, ups, fin, conn, wire>>

(* User code drops its shared_ptr.                                         *)
Release(t) ==
    /\ Running /\ t \in refs /\ call[t] = Idle
    /\ refs' = refs \ {t}
    /\ careless' = (careless \/ RawQueued)
    /\ UNCHANGED <<life, answers, tasks, call, issued, delayed, bootstrap, late,
                   ups, fin, conn, wire>>

(* Calls made by user code in the loop thread: no gap between the check    *)
(* and the act, and the task runs inside the call.                         *)
LoopCalls ==
    /\ Running /\ Loop \in refs /\ issued[Loop] < MaxCalls
    /\ issued' = [issued EXCEPT ![Loop] = @ + 1]
    /\ UNCHANGED <<tasks, call, refs, bootstrap, late, careless, ups, conn, wire>>

LoopWrite ==
    /\ LoopCalls
    /\ \E kind \in Kinds :
          LET w == NextWrite(Loop, kind) IN
          \/ state = "kActive" /\ WriteInLoop(w)
          \/ /\ state # "kActive"
             /\ no' = IF Refusable(w) THEN no \cup {w} ELSE no
             /\ UNCHANGED <<life, yes, swallowed>>
    /\ UNCHANGED <<fin, delayed>>

LoopClose ==
    /\ LoopCalls /\ Closable
    /\ CloseInLoop
    /\ UNCHANGED <<answers, fin, delayed>>

LoopShutdown ==
    /\ LoopCalls /\ state = "kActive"
    /\ state' = "kInactiving"
    /\ ShutdownInLoop
    /\ UNCHANGED <<wired, enabled, output, promises, held, downs, answers, delayed>>

LoopCloseWithDelay ==
    /\ LoopCalls /\ Closable
    /\ state' = "kInactiving"
    /\ ScheduleClose
    /\ UNCHANGED <<wired, enabled, output, promises, held, downs, answers, fin>>

(* The loop takes the next task of its queue.                              *)
RunTask ==
    /\ Running /\ tasks # <<>>
    /\ tasks' = Tail(tasks)
    /\ LET task == Head(tasks) IN
       \/ /\ RawTask(task) /\ Gone
          /\ fault' = "freed"
          /\ UNCHANGED <<state, wired, enabled, output, promises, held, downs, answers, fin>>
       \/ /\ task.op = "write" /\ ~Gone
          /\ WriteInLoop(task.w)
          /\ UNCHANGED fin
       \/ /\ task.op = "refuse"
          /\ no' = no \cup {task.w}
          /\ UNCHANGED <<life, yes, swallowed, fin>>
       \/ /\ task.op = "close" /\ ~Gone
          /\ CloseInLoop
          /\ UNCHANGED <<answers, fin>>
       \/ /\ task.op = "shutdown" /\ ~Gone
          /\ ShutdownInLoop
          /\ UNCHANGED <<state, wired, enabled, output, promises, held, downs, answers>>
       \/ /\ task.op = "destroyed"
          /\ Destroyed
          /\ UNCHANGED <<held, answers, fin>>
    /\ UNCHANGED <<call, issued, refs, delayed, bootstrap, late, careless, ups, conn, wire>>

(* A closeWtihDelay timer fires: WeakCallback finds the channel or not.    *)
DelayedClose ==
    /\ Running /\ delayed > 0
    /\ delayed' = delayed - 1
    /\ \/ ~Gone /\ CloseInLoop
       \/ UNCHANGED life
    /\ UNCHANGED <<answers, tasks, call, issued, refs, bootstrap, late, careless,
                   ups, fin, conn, wire>>

(* exceptionCaught(): promises are not told, the channel closes itself.    *)
ExceptionCaught == CloseInLoop

(* The socket is readable and reports the end or an error: eventCaught.    *)
(* Of the errors handleError acts on ECONNRESET and EPIPE only.            *)
ReadEvent ==
    /\ Running /\ wired /\ "read" \in enabled
    /\ \/ conn = "eof" /\ HandleClose
       \/ conn = "reset" /\ ExceptionCaught
       \/ /\ conn = "error"
          /\ enabled' = enabled \ {"read"}
          /\ UNCHANGED <<state, wired, output, promises, held, downs, fault>>
    /\ UNCHANGED <<answers, users, ups, fin, conn, wire>>

(* The socket is writable: part or all of the output goes out, or fails.   *)
WriteEvent ==
    /\ Running /\ wired /\ "write" \in enabled /\ output # <<>>
    /\ \/ /\ conn \in {"up", "eof"}
          /\ \E k \in 1..Len(output) :
                /\ wire' = wire \o SubSeq(output, 1, k)
                /\ \/ /\ k < Len(output)
                      /\ output' = SubSeq(output, k + 1, Len(output))
                      /\ UNCHANGED <<state, wired, enabled, promises, held, downs,
                                     fault, yes, swallowed, issued>>
                   \/ k = Len(output) /\ WritePromise
          /\ UNCHANGED no
       \/ /\ conn = "reset"
          /\ ExceptionCaught
          /\ UNCHANGED <<wire, answers, issued>>
       \/ /\ conn = "error"
          /\ enabled' = enabled \ {"write"}
          /\ UNCHANGED <<state, wired, output, promises, held, downs, fault,
                         wire, answers, issued>>
    /\ UNCHANGED <<tasks, call, refs, delayed, bootstrap, late, careless, ups, fin, conn>>

(* Referenced bytes leave the output, written or freed with it, and are    *)
(* cleaned up: the shared_ptr that appendReference copied, for a write     *)
(* with a callback or without, is deleted as if it were a Buffer, which    *)
(* may break at once.  Otherwise nothing is noticed.                       *)
CleanupBreaks ==
    /\ Running
    /\ \E i \in DOMAIN output : Shared(output[i])
    /\ fault' = "cleanup"
    /\ UNCHANGED <<state, wired, enabled, output, promises, held, downs, answers, users,
                   ups, fin, conn, wire>>

(* The peer ends its side, or the connection breaks.                       *)
ConnFails ==
    /\ Running
    /\ \/ conn = "up" /\ conn' \in {"eof", "reset", "error"}
       \/ conn = "eof" /\ conn' = "reset"
    /\ UNCHANGED <<life, answers, users, ups, fin, wire>>

(* ~ServerBootstrap: in the loop thread destroyed() runs at once, in any   *)
(* other thread it is queued, with a shared_ptr.                           *)
BootstrapDestroyed ==
    /\ Running /\ BootstrapDies /\ bootstrap = "alive"
    /\ bootstrap' = "dead"
    /\ held' = FALSE
    /\ \/ /\ held
          /\ Destroyed
          /\ UNCHANGED tasks
       \/ /\ tasks' = IF held THEN Append(tasks, Job("destroyed", NoWrite)) ELSE tasks
          /\ UNCHANGED <<state, wired, enabled, output, promises, downs, fault>>
    /\ UNCHANGED <<answers, call, issued, refs, delayed, late, careless, ups, fin, conn, wire>>

Next ==
    \/ NewChannelLoop
    \/ \E t \in Callers : Check(t) \/ Act(t)
    \/ \E t \in Threads : Release(t)
    \/ LoopWrite \/ LoopClose \/ LoopShutdown \/ LoopCloseWithDelay
    \/ RunTask \/ DelayedClose \/ ReadEvent \/ WriteEvent
    \/ CleanupBreaks \/ ConnFails \/ BootstrapDestroyed

Spec == Init /\ [][Next]_vars

(* The loop thread serves its queue, its timers and its socket, and a      *)
(* thread that has begun a call finishes it.  Nothing is assumed of the    *)
(* user code, the peer or the ServerBootstrap.                             *)
Fairness ==
    /\ WF_vars(NewChannelLoop)
    /\ WF_vars(RunTask)
    /\ WF_vars(DelayedClose)
    /\ WF_vars(ReadEvent)
    /\ WF_vars(WriteEvent)
    /\ \A t \in Callers : WF_vars(Act(t))

FairSpec == Spec /\ Fairness
-----------------------------------------------------------------------------
(* Properties                                                              *)

(* Writes whose promise is still on its way to an answer.                  *)
Unanswered ==
    promises \cup {tasks[i].w : i \in {j \in DOMAIN tasks : tasks[j].op \in {"write", "refuse"}}}
             \cup {call[t].w : t \in {u \in Threads : call[u].op = "write"}}

(* A promise is in exactly one place: a write travels from the caller      *)
(* through the queue into writePromis_ (writeAndFlushInLoop, pushPromise,  *)
(* writePromise) and gets one of its three ends (true, false, forgotten),  *)
(* none of them while it can still get another.  As long as the pipeline   *)
(* lives none is lost on the way: bytes that were accepted have their      *)
(* promise waiting or ended, and only promises of empty writes wait when   *)
(* there is no output left to wake writePromise.                           *)
OnePlace ==
    /\ yes \cap no = {}
    /\ swallowed \cap (yes \cup no) = {}
    /\ Unanswered \cap (yes \cup no \cup swallowed) = {}
    /\ wired =>
          /\ \A i \in DOMAIN (wire \o output) :
                LET w == (wire \o output)[i] IN
                Promised(w) => w \in promises \cup yes \cup swallowed
          /\ output = <<>> => \A w \in promises : ~HasBytes(w)

CallerActed == \E t \in Callers : issued[t] > 0

(* When a writer is told true, everything it wrote before has left the     *)
(* output buffer too: writePromise runs only when the output is drained.   *)
TrueMeansFlushed ==
    \A w \in yes : \A i \in DOMAIN output :
        output[i].by = w.by => output[i].n > w.n

(* The socket sees the writes of a thread in the order it made them,       *)
(* whether they came inline or through the queue.                          *)
WireOrder ==
    \A j \in DOMAIN (wire \o output) : \A i \in 1..(j - 1) :
        LET bytes == wire \o output IN
        bytes[i].by = bytes[j].by => bytes[i].n < bytes[j].n

(* What it takes to break the program, place by place: a null pipeline_ in *)
(* handleClose or a write needs a caller that overwrote kInactive or a     *)
(* destroyed ServerBootstrap; shutdownInLoop needs no more than a caller's *)
(* queued shutdown(); a null promise needs a caller's write without one    *)
(* that met a closed channel; a freed channel needs a user who let go      *)
(* while a raw task was queued; a bad cleanup needs bytes in the output    *)
(* that were given as a shared_ptr, by whichever overload.                 *)
FaultCause ==
    /\ fault \in {"handleClose", "writeInLoop"} => late \/ bootstrap = "dead"
    /\ fault \in {"removeChannel", "newChannelLoop"} => bootstrap = "dead"
    /\ fault = "shutdownInLoop" => "shutdown" \in Calls /\ CallerActed
    /\ fault = "nullPromise" => /\ state = "kInactive" /\ CallerActed
                                /\ Kinds \cap {"plain", "rawcb", "shared"} # {}
    /\ fault = "freed" => careless
    /\ fault = "cleanup" => \E i \in DOMAIN output : Shared(output[i])

(* ~NioSocketChannel asserts kInactive (line 64).  The assertion holds,    *)
(* and the user has been told channelInActive once, unless a caller        *)
(* overwrote kInactive or the ServerBootstrap went away first.             *)
CleanDeath ==
    Gone => \/ state = "kInactive" /\ downs = 1
            \/ late
            \/ bootstrap = "dead"

(* The same assertion as the code writes it, with no way out.              *)
DestructorAssertion == Gone => state = "kInactive"

(* Nothing leaves kInactive but a caller's late setChannelState.           *)
InactiveIsFinal ==
    [][state = "kInactive" => state' = "kInactive" \/ late']_vars

(* shutdown() sends the FIN only when the bufferevent has EV_WRITE off,    *)
(* which only a failed write does: a sound connection is never half-closed.*)
HealthyNeverHalfClosed == fin => conn \notin {"up", "eof"}

(* A peer that ended or reset the connection is noticed: the channel       *)
(* leaves the ServerBootstrap's map (or the program breaks).               *)
PeerGoneRemoved ==
    (ups = 1 /\ conn \in {"eof", "reset"}) ~> (~held \/ fault # "none")

(* A close() begun by a caller closes the channel (or the program breaks). *)
CloseCompletes ==
    \A t \in Callers : (call[t].op = "close") ~> (~wired \/ fault # "none")

(* Promises that wait behind bytes are answered while the connection is up.*)
PromisesAnswered ==
    (promises # {} /\ output # <<>>)
        ~> (promises = {} \/ conn # "up" \/ fault # "none")

(* The channel implements ChannelContract.                                 *)
Phase == IF ups = 0 THEN "opening" ELSE IF downs = 0 THEN "open" ELSE "closed"

Contract == INSTANCE ChannelContract WITH
                Message <- Write,
                Empty <- {w \in Write : ~HasBytes(w)},
                phase <- Phase,
                sent <- wire

ImplementsContract == Contract!Spec
-----------------------------------------------------------------------------
(* The inductive invariant behind FaultCause, CleanDeath and               *)
(* HealthyNeverHalfClosed.                                                 *)

(* Nothing has happened to a channel that is not established.              *)
Fresh ==
    /\ state = "kActiving" /\ wired /\ enabled = {"write"}
    /\ output = <<>> /\ promises = {} /\ ~held /\ downs = 0
    /\ tasks = <<>> /\ refs = {} /\ delayed = 0
    /\ \A t \in Threads : call[t] = Idle

(* state_, pipeline_ and the map agree, and where they part a caller's     *)
(* late setChannelState or the death of the ServerBootstrap is to blame.   *)
StatesAgree ==
    /\ ups = 0 => Fresh
    /\ ups = 1 => state # "kActiving"
    /\ wired => downs = 0 /\ state # "kInactive"
    /\ ~wired => state \in {"kInactive", "kInactiving"}
    /\ ~wired /\ bootstrap = "alive" => downs = 1 /\ (state = "kInactive" \/ late)
    /\ ups = 1 /\ bootstrap = "alive" => (held <=> wired)
    /\ bootstrap = "dead" => ~held

(* Only a failed write turns EV_WRITE off while the pipeline lives.        *)
WriteOffMeansBroken ==
    wired /\ "write" \notin enabled => conn \notin {"up", "eof"}

(* What may be in the queue, and what it says about who put it there.      *)
TaskOK(task) ==
    /\ task.op \in {"write", "refuse"} => /\ task.w \in Write /\ task.w.by \in Callers
                                          /\ issued[task.w.by] > 0
    /\ task.op = "shutdown" => "shutdown" \in Calls /\ CallerActed
    /\ task.op = "destroyed" => bootstrap = "dead"

CallOK(t) ==
    \/ call[t] = Idle
    \/ /\ t \in Callers /\ t \in refs /\ issued[t] > 0
       /\ call[t].op = "write" /\ call[t].w \in Write /\ call[t].w.by = t
    \/ /\ t \in Callers /\ t \in refs /\ issued[t] > 0
       /\ call[t].op \in Calls /\ call[t].w = NoWrite

QueueOK ==
    /\ \A i \in DOMAIN tasks : TaskOK(tasks[i])
    /\ \A t \in Threads : CallOK(t)
    /\ refs = {} /\ RawQueued => careless

LifeInv ==
    /\ StatesAgree
    /\ WriteOffMeansBroken
    /\ QueueOK
    /\ HealthyNeverHalfClosed
    /\ FaultCause
=============================================================================

----------------------------- MODULE NioEventLoop -----------------------------
(***************************************************************************)
(* One NioEventLoop and its timers: scheduleOnce(), schedualAt(),          *)
(* schedualAfter(), schedualEvery(), cancle(), TimerId::cancel(),          *)
(* shutdownGracefully(time), loop() and the destructor, on the timers and  *)
(* the active queue of a libevent base.                                    *)
(*                                                                         *)
(* There is no clock: left[t] is how long the base will still wait for t,  *)
(* and Tick lets time pass for all.  While callbacks run the base reckons  *)
(* with the time it woke up at; lag is how old that time is, so what is    *)
(* made meanwhile is due that much too soon.  Timestamp::now(), which      *)
(* schedualAt() asks, is the real time, and nobody sets the clock.         *)
(* execute() outside the loop is a scheduleOnce() without a delay.         *)
(***************************************************************************)
EXTENDS Integers, Sequences, FiniteSets, SequencesExt, FiniteSetsExt

CONSTANTS
    Timer,        \* one for each call that makes an event
    None,         \* no timer
    Delays,       \* the delays that users ask for, in ticks
    PerSecond,    \* ticks in a second, kMicroSecondsPerSecond
    MaxLag,       \* bound: how long a callback takes
    MaxLate       \* bound: more than this late is as good as this late

ASSUME NoneAssumption == None \notin Timer
ASSUME DelaysAssumption == Delays \subseteq Nat
ASSUME BoundsAssumption == PerSecond \in Nat \ {0} /\ MaxLag \in Nat /\ MaxLate \in Nat

VARIABLES
    loop,       \* where loop() is
    gotterm,    \* whether the base was told to end
    order,      \* the base's active queue
    running,    \* the timer whose callback is on the stack
    lag,        \* how old the base's cached time is
    kind,       \* which call made the event
    place,      \* where the event is
    left,       \* time until the event is due
    period,     \* the interval of a periodic timer, the delay of an exit
    functor,    \* the event's Functor
    handles,    \* the TimerIds of the caller whose event_ is not NULL
    fault,      \* how the program broke
    owed,       \* history: real time that the caller still wants to pass
    backdated,  \* history: how old the base's time was when the event was made
    copied,     \* history: timers whose TimerId was copied
    cancelled   \* history: timers that were cancelled

base == <<loop, gotterm, lag>>
events == <<kind, left, period, functor, owed, backdated>>
vars == <<base, order, running, events, place, handles, fault, copied, cancelled>>

Kinds == {"none", "once", "after", "every", "exit"}

TypeOK ==
    /\ loop \in {"fresh", "waiting", "busy", "left", "freed"}
    /\ gotterm \in BOOLEAN
    /\ order \in Seq(Timer)
    /\ running \in Timer \cup {None}
    /\ lag \in Nat
    /\ kind \in [Timer -> Kinds]
    /\ place \in [Timer -> {"none", "heap", "active", "out", "freed"}]
    /\ left \in [Timer -> Int]
    /\ period \in [Timer -> Int]
    /\ functor \in [Timer -> {"none", "alive", "deleted"}]
    /\ handles \in [Timer -> SUBSET {"own", "copy"}]
    /\ fault \in {"none", "event", "base", "functor"}
    /\ owed \in [Timer -> Int]
    /\ backdated \in [Timer -> Nat]
    /\ copied \subseteq Timer
    /\ cancelled \subseteq Timer

Init ==
    /\ loop = "fresh"
    /\ gotterm = FALSE
    /\ order = <<>>
    /\ running = None
    /\ lag = 0
    /\ kind = [t \in Timer |-> "none"]
    /\ place = [t \in Timer |-> "none"]
    /\ left = [t \in Timer |-> 0]
    /\ period = [t \in Timer |-> 0]
    /\ functor = [t \in Timer |-> "none"]
    /\ handles = [t \in Timer |-> {}]
    /\ fault = "none"
    /\ owed = [t \in Timer |-> 0]
    /\ backdated = [t \in Timer |-> 0]
    /\ copied = {}
    /\ cancelled = {}
-----------------------------------------------------------------------------
(* Faulty variants of the definitions below.                               *)

(* A periodic Functor that is not marked persist_.                         *)
Persists_Never(t) == FALSE

(* A TimerId::cancel() that forgets the event without deleting it.         *)
Deleted_Forgets(t) == UNCHANGED <<place, order, left, owed, backdated>>

(* A valid() that looks at tv_sec only.                                    *)
Valid_Seconds(d) == d >= PerSecond

(* An EV_TIMEOUT that the base loses when its loop is not running.         *)
Arm_WhenRunning(t, k, d, immediate) ==
    /\ place' = [place EXCEPT ![t] = IF immediate THEN "active"
                                     ELSE IF loop = "busy" THEN "out" ELSE "heap"]
    /\ order' = IF immediate THEN Append(order, t) ELSE order
    /\ left' = [left EXCEPT ![t] = IF immediate THEN 0 ELSE d - lag]
-----------------------------------------------------------------------------
(* Helpers                                                                 *)

(* Timestamp::valid() looks at tv_usec only.                               *)
Valid(d) == d % PerSecond > 0

(* Functor::persist_.                                                      *)
Persists(t) == kind[t] = "every"

(* event_add(), event_base_once(): without a delay the event is active at  *)
(* once; else it is due after d, reckoned from the base's cached time.     *)
Arm(t, k, d, immediate) ==
    /\ place' = [place EXCEPT ![t] = IF immediate THEN "active" ELSE "heap"]
    /\ order' = IF immediate THEN Append(order, t) ELSE order
    /\ left' = [left EXCEPT ![t] = IF immediate THEN 0 ELSE d - lag]

(* A new event; the caller wants d to pass from now on.                    *)
Make(t, k, d, immediate) ==
    /\ fault = "none" /\ loop # "freed"
    /\ kind[t] = "none"
    /\ kind' = [kind EXCEPT ![t] = k]
    /\ period' = [period EXCEPT ![t] = IF k \in {"every", "exit"} THEN d ELSE 0]
    /\ functor' = [functor EXCEPT ![t] = IF k = "exit" THEN "none" ELSE "alive"]
    /\ handles' = [handles EXCEPT ![t] = IF k \in {"after", "every"} THEN {"own"} ELSE {}]
    /\ owed' = [owed EXCEPT ![t] = d]
    /\ backdated' = [backdated EXCEPT ![t] = lag]
    /\ Arm(t, k, d, immediate)
    /\ UNCHANGED <<base, running, fault, copied, cancelled>>

(* event_persist_closure(): the next run is a period after the last one    *)
(* was due, or after now when that has passed.                             *)
Rearmed(t) ==
    IF left[t] + period[t] < -lag THEN period[t] - lag ELSE left[t] + period[t]

(* Functor::excute() deletes a Functor that does not persist.              *)
Executed(t) ==
    IF Persists(t) THEN functor ELSE [functor EXCEPT ![t] = "deleted"]

(* An event that waits for nothing any more.                               *)
Settled(t) ==
    /\ left' = [left EXCEPT ![t] = 0]
    /\ owed' = [owed EXCEPT ![t] = 0]
    /\ backdated' = [backdated EXCEPT ![t] = 0]

(* event_del(), which takes the event out of the queue, and event_free().  *)
Deleted(t) ==
    /\ place' = [place EXCEPT ![t] = "freed"]
    /\ order' = RemoveFirst(order, t)
    /\ Settled(t)

(* The orders in which the heap gives the timers of S.                     *)
ByTime(S) ==
    {s \in SetToSeqs(S) : \A i, j \in 1..Len(s) : i < j => left[s[i]] <= left[s[j]]}

Due == {t \in Timer : place[t] = "heap" /\ left[t] <= 0}

(* What is left of a time after a tick.                                    *)
Passed(time) == IF time > -MaxLate THEN time - 1 ELSE time
-----------------------------------------------------------------------------
(* Calls, from any thread: inside a callback or outside                    *)

(* scheduleOnce(), and execute() outside the loop.                         *)
ScheduleOnce(t, d) == Make(t, "once", d, d = 0)

SchedualAfter(t, d) == Make(t, "after", d, FALSE)

(* schedualAt(): time is reckoned from Timestamp::now(), and negative when *)
(* it has passed; the base waits for the difference from its own time on.  *)
SchedualAt(t, time) == Make(t, "after", time, FALSE)

SchedualEvery(t, d) == Make(t, "every", d, FALSE)

(* shutdownGracefully(): a delay that is not valid() is none.              *)
ShutdownGracefully(t, d) == Make(t, "exit", d, ~Valid(d))

(* The caller copies a TimerId, for example into a task that cancels it.   *)
CopyTimerId(t) ==
    /\ fault = "none" /\ handles[t] = {"own"}
    /\ handles' = [handles EXCEPT ![t] = {"own", "copy"}]
    /\ copied' = copied \cup {t}
    /\ UNCHANGED <<base, order, running, events, place, fault, cancelled>>

(* TimerId::cancel() on an event, whatever became of it.                   *)
CancelEvent(t) ==
    \/ /\ place[t] = "freed"
       /\ fault' = "event"
       /\ UNCHANGED <<place, order, left, owed, backdated, cancelled>>
    \/ /\ place[t] # "freed" /\ loop = "freed"
       /\ fault' = "base"
       /\ UNCHANGED <<place, order, left, owed, backdated, cancelled>>
    \/ /\ place[t] # "freed" /\ loop # "freed"
       /\ Deleted(t)
       /\ cancelled' = cancelled \cup {t}
       /\ UNCHANGED fault

(* TimerId::cancel(): that TimerId forgets its event.                      *)
Cancel(h, t) ==
    /\ fault = "none" /\ h \in handles[t]
    /\ CancelEvent(t)
    /\ handles' = [handles EXCEPT ![t] = @ \ {h}]
    /\ UNCHANGED <<base, running, kind, period, functor, copied>>

(* cancle() takes the TimerId by value: the caller's own keeps its event.  *)
Cancle(t) ==
    /\ fault = "none" /\ handles[t] # {}
    /\ CancelEvent(t)
    /\ copied' = copied \cup {t}
    /\ UNCHANGED <<base, running, kind, period, functor, handles>>
-----------------------------------------------------------------------------
(* The loop                                                                *)

Tick ==
    /\ fault = "none" /\ loop # "freed"
    /\ loop = "busy" => lag < MaxLag
    /\ lag' = IF loop = "busy" THEN lag + 1 ELSE lag
    /\ left' = [t \in Timer |-> IF place[t] \in {"heap", "active"} THEN Passed(left[t]) ELSE left[t]]
    /\ owed' = [t \in Timer |-> IF place[t] \in {"heap", "active"} THEN Passed(owed[t]) ELSE owed[t]]
    /\ UNCHANGED <<loop, gotterm, order, running, kind, place, period, functor, handles,
                   backdated, fault, copied, cancelled>>

Loop ==
    /\ fault = "none" /\ loop = "fresh"
    /\ loop' = "waiting"
    /\ UNCHANGED <<gotterm, lag, order, running, events, place, handles, fault, copied, cancelled>>

(* The base wakes up, remembers the time and puts what is due after what   *)
(* is active.                                                              *)
Wake ==
    /\ fault = "none" /\ loop = "waiting" /\ (Due # {} \/ order # <<>>)
    /\ loop' = "busy"
    /\ \E s \in ByTime(Due) : order' = order \o s
    /\ place' = [t \in Timer |-> IF t \in Due THEN "active" ELSE place[t]]
    /\ UNCHANGED <<gotterm, lag, running, events, handles, fault, copied, cancelled>>

(* The callback of the next active event begins.                           *)
Begin ==
    /\ fault = "none" /\ loop = "busy" /\ running = None /\ order # <<>>
    /\ LET t == Head(order) IN
       /\ order' = Tail(order)
       /\ IF kind[t] = "exit"
          THEN /\ gotterm' = TRUE
               /\ place' = [place EXCEPT ![t] = "freed"]
               /\ Settled(t)
               /\ UNCHANGED <<running, fault>>
          ELSE /\ running' = t
               /\ fault' = IF functor[t] = "deleted" THEN "functor" ELSE fault
               /\ IF kind[t] = "every" /\ period[t] > 0
                  THEN /\ place' = [place EXCEPT ![t] = "heap"]
                       /\ left' = [left EXCEPT ![t] = Rearmed(t)]
                       /\ owed' = [owed EXCEPT ![t] = @ + period[t]]
                       /\ UNCHANGED backdated
                  ELSE /\ place' = [place EXCEPT ![t] = "out"]
                       /\ Settled(t)
               /\ UNCHANGED gotterm
    /\ UNCHANGED <<loop, lag, kind, period, functor, handles, copied, cancelled>>

(* The callback returns into excute().                                     *)
Return ==
    /\ fault = "none" /\ running # None
    /\ running' = None
    /\ functor' = Executed(running)
    /\ place' = IF kind[running] = "once" THEN [place EXCEPT ![running] = "freed"] ELSE place
    /\ UNCHANGED <<base, order, kind, left, period, owed, backdated, handles, fault, copied, cancelled>>

(* All that was active has run: the base forgets the time and goes on, or  *)
(* loop() returns.                                                         *)
EndIteration ==
    /\ fault = "none" /\ loop = "busy" /\ running = None /\ order = <<>>
    /\ loop' = IF gotterm THEN "left" ELSE "waiting"
    /\ lag' = 0
    /\ UNCHANGED <<gotterm, order, running, events, place, handles, fault, copied, cancelled>>

(* ~NioEventLoop frees the base; events that users hold stay as they are.  *)
Destroy ==
    /\ fault = "none" /\ loop \in {"fresh", "left"}
    /\ loop' = "freed"
    /\ order' = <<>>
    /\ place' = [t \in Timer |-> IF place[t] \in {"heap", "active"}
                                 THEN IF kind[t] \in {"once", "exit"} THEN "freed" ELSE "out"
                                 ELSE place[t]]
    /\ UNCHANGED <<gotterm, lag, running, events, handles, fault, copied, cancelled>>

Calls ==
    \E t \in Timer :
        \/ \E d \in Delays :
              \/ ScheduleOnce(t, d) \/ SchedualAfter(t, d)
              \/ \E time \in {d, -d} : SchedualAt(t, time)
              \/ SchedualEvery(t, d) \/ ShutdownGracefully(t, d)
        \/ CopyTimerId(t)
        \/ Cancle(t)
        \/ \E h \in handles[t] : Cancel(h, t)

Iteration == Wake \/ Begin \/ Return \/ EndIteration

Next == Calls \/ Tick \/ Loop \/ Iteration \/ Destroy

Spec == Init /\ [][Next]_vars

(* Time passes, and loop() goes on once it was called; callbacks return.   *)
FairSpec == Spec /\ WF_vars(Tick) /\ WF_vars(Iteration)
-----------------------------------------------------------------------------
(* Properties                                                              *)

(* An event is freed twice only when its TimerId was copied, as cancle()   *)
(* itself does; a base is used after ~NioEventLoop only by whoever cancels *)
(* that late; and no callback runs on a deleted Functor.                   *)
FaultCause ==
    /\ fault = "event" => \E t \in copied : place[t] = "freed"
    /\ fault = "base" => loop = "freed"
    /\ fault # "functor"

(* No callback may begin before the time its caller asked for has really   *)
(* passed, the n-th run of a periodic timer not before n intervals, however *)
(* late the runs before it were; a shutdown neither.  Two exceptions: what *)
(* is made while callbacks run is early by what the base's time was old    *)
(* then, whether the caller gave a delay or a moment of the real clock; and *)
(* shutdownGracefully() takes whole seconds for no delay at all.           *)
NeverEarly ==
    \A t \in Timer : place[t] = "active" =>
        \/ owed[t] <= backdated[t]
        \/ kind[t] = "exit" /\ period[t] % PerSecond = 0

(* The books of events and Functors (and the variables have their types):  *)
(* the active queue holds each active event once; a cancelled event is in  *)
(* neither queue nor heap, were it cancelled by its own callback, and so   *)
(* never begins again; and a Functor, with the shared pointers in its      *)
(* task, is kept for ever by a cancelled timer, by an interval of 0 and by *)
(* the end of the loop, and by nothing else.                               *)
EventsAccounted ==
    /\ TypeOK
    /\ \A t \in Timer : place[t] = "active" <=> \E i \in DOMAIN order : order[i] = t
    /\ \A i, j \in DOMAIN order : order[i] = order[j] => i = j
    /\ \A t \in cancelled : place[t] = "freed"
    /\ \A t \in Timer :
          functor[t] = "alive" /\ place[t] \notin {"heap", "active"} /\ running # t =>
              t \in cancelled \/ loop = "freed" \/ (kind[t] = "every" /\ period[t] = 0)

(* Under a running loop every task that was given to the base begins, from *)
(* whatever thread and at whatever point of the iteration it came, unless  *)
(* it is cancelled or the loop ends first.                                 *)
EveryTaskRuns ==
    \A t \in Timer :
        (functor[t] = "alive" /\ loop = "waiting" /\ ~(kind[t] = "every" /\ period[t] = 0)) ~>
            (running = t \/ t \in cancelled \/ loop \in {"left", "freed"} \/ fault # "none")
=============================================================================

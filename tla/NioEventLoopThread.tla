--------------------------- MODULE NioEventLoopThread ---------------------------
(***************************************************************************)
(* One NioEventLoopThread: the owner that starts and stops it, the thread  *)
(* that makes the NioEventLoop, publishes it, runs it and destroys it, and *)
(* users who give the loop tasks or shut it down themselves.               *)
(*                                                                         *)
(* eventLoop_ is published under the mutex, but read and cleared without:  *)
(* each access outside the mutex is a step of its own.                     *)
(***************************************************************************)
EXTENDS Naturals, Sequences, Functions

CONSTANTS
    Task,         \* the tasks that users give to the loop
    Exit,         \* the event of event_base_loopexit()
    UserStops     \* whether a user may call shutdownGracefully() himself

ASSUME ExitAssumption == Exit \notin Task
ASSUME UserStopsAssumption == UserStops \in BOOLEAN

VARIABLES
    owner,       \* where the owner is, from "new" to "joined" or "skipped"
    thread,      \* where the thread is, from "none" to "ended"
    eventLoop,   \* whether eventLoop_ is non-null
    queue,       \* the loop's queue, first come first served
    ran,         \* history: the tasks that ran, in order
    early,       \* history: tasks given before any request to exit
    late,        \* history: tasks given after one
    userStop,    \* history: a user shut the loop down
    fault        \* how the program broke

vars == <<owner, thread, eventLoop, queue, ran, early, late, userStop, fault>>

TypeOK ==
    /\ owner \in {"new", "waiting", "awake", "started", "owning", "tested", "loaded",
                  "joining", "joined", "skipped"}
    /\ thread \in {"none", "init", "ready", "published", "looping", "leaving", "left",
                   "cleared", "ended"}
    /\ eventLoop \in BOOLEAN
    /\ queue \in Seq(Task \cup {Exit})
    /\ ran \in Seq(Task)
    /\ early \in Seq(Task)
    /\ late \subseteq Task
    /\ userStop \in BOOLEAN
    /\ fault \in {"none", "null", "freed"}
    /\ eventLoop <=> thread \in {"published", "looping", "leaving", "left"}

Init ==
    /\ owner = "new"
    /\ thread = "none"
    /\ eventLoop = FALSE
    /\ queue = <<>>
    /\ ran = <<>>
    /\ early = <<>>
    /\ late = {}
    /\ userStop = FALSE
    /\ fault = "none"
-----------------------------------------------------------------------------
(* Faulty variants of the definitions below.                               *)

(* startThread() that tests once and does not wait.                        *)
Published_NotAwaited == TRUE

(* A request to exit that is lost before the loop runs.                    *)
AskToExit_Lost ==
    queue' = IF thread \in {"looping", "leaving"} THEN Append(queue, Exit) ELSE queue

(* A request to exit that overtakes the tasks.                             *)
AskToExit_Jumps == queue' = <<Exit>> \o queue

(* threadFunc() that clears eventLoop_ before it runs the loop.            *)
EnterLoop_Clears ==
    /\ fault = "none" /\ thread = "published" /\ owner # "waiting"
    /\ thread' = "looping"
    /\ eventLoop' = FALSE
    /\ UNCHANGED <<owner, queue, ran, early, late, userStop, fault>>
-----------------------------------------------------------------------------
(* Helpers                                                                 *)

(* What the while loop of startThread() waits for.                         *)
Published == eventLoop

AskToExit == queue' = Append(queue, Exit)

Enqueue(t) == queue' = Append(queue, t)

(* The NioEventLoop lives on the thread's stack.                           *)
Alive == thread \notin {"none", "ended"}

Exiting == Exit \in Range(queue) \/ thread \in {"leaving", "left", "cleared", "ended"}
-----------------------------------------------------------------------------
(* The owner                                                               *)

Owner(from, to) == fault = "none" /\ owner = from /\ owner' = to

Breaks(how) ==
    /\ fault' = how
    /\ UNCHANGED <<owner, thread, eventLoop, queue, ran, early, late, userStop>>

(* startThread() makes the thread and waits under the mutex.               *)
StartThread ==
    /\ Owner("new", "waiting")
    /\ thread' = "init"
    /\ UNCHANGED <<eventLoop, queue, ran, early, late, userStop, fault>>

Awake ==
    /\ Owner("waiting", "awake")
    /\ Published
    /\ UNCHANGED <<thread, eventLoop, queue, ran, early, late, userStop, fault>>

(* It reads eventLoop_ once more, to return it; NioEventLoopGroup::start() *)
(* uses what it gets.                                                      *)
Returned ==
    \/ /\ eventLoop
       /\ Owner("awake", "started")
       /\ UNCHANGED <<thread, eventLoop, queue, ran, early, late, userStop, fault>>
    \/ /\ ~eventLoop
       /\ fault = "none" /\ owner = "awake"
       /\ Breaks("null")

OwnGroup ==
    \/ /\ Alive
       /\ Owner("started", "owning")
       /\ UNCHANGED <<thread, eventLoop, queue, ran, early, late, userStop, fault>>
    \/ /\ ~Alive
       /\ fault = "none" /\ owner = "started"
       /\ Breaks("freed")

(* stopThread(), also from the destructor: eventLoop_ is tested, read      *)
(* again, and used; then the thread is joined.                             *)
StopThread ==
    /\ Owner("owning", IF eventLoop THEN "tested" ELSE "skipped")
    /\ UNCHANGED <<thread, eventLoop, queue, ran, early, late, userStop, fault>>

LoadPointer ==
    \/ /\ eventLoop
       /\ Owner("tested", "loaded")
       /\ UNCHANGED <<thread, eventLoop, queue, ran, early, late, userStop, fault>>
    \/ /\ ~eventLoop
       /\ fault = "none" /\ owner = "tested"
       /\ Breaks("null")

ShutdownGracefully ==
    \/ /\ Alive
       /\ Owner("loaded", "joining")
       /\ AskToExit
       /\ UNCHANGED <<thread, eventLoop, ran, early, late, userStop, fault>>
    \/ /\ ~Alive
       /\ fault = "none" /\ owner = "loaded"
       /\ Breaks("freed")

Join ==
    /\ thread = "ended"
    /\ Owner("joining", "joined")
    /\ UNCHANGED <<thread, eventLoop, queue, ran, early, late, userStop, fault>>
-----------------------------------------------------------------------------
(* The thread: threadFunc()                                                *)

Thread(from, to) ==
    /\ fault = "none" /\ thread = from /\ thread' = to
    /\ UNCHANGED <<owner, ran, early, late, fault>>

(* The callback gets the loop, and may shut it down before it runs.        *)
InitCallback ==
    /\ Thread("init", "ready")
    /\ \/ UNCHANGED <<queue, userStop>>
       \/ UserStops /\ AskToExit /\ userStop' = TRUE
    /\ UNCHANGED eventLoop

Publish ==
    /\ Thread("ready", "published")
    /\ eventLoop' = TRUE
    /\ UNCHANGED <<queue, userStop>>

EnterLoop ==
    /\ Thread("published", "looping")
    /\ UNCHANGED <<eventLoop, queue, userStop>>

(* The loop takes the next event.  When it is the request to exit, events  *)
(* that are active already may run still.                                  *)
RunNext ==
    /\ fault = "none" /\ thread \in {"looping", "leaving"} /\ queue # <<>>
    /\ queue' = Tail(queue)
    /\ \/ /\ Head(queue) = Exit
          /\ thread' = "leaving"
          /\ UNCHANGED ran
       \/ /\ Head(queue) # Exit
          /\ ran' = Append(ran, Head(queue))
          /\ UNCHANGED thread
    /\ UNCHANGED <<owner, eventLoop, early, late, userStop, fault>>

Leave ==
    /\ Thread("leaving", "left")
    /\ UNCHANGED <<eventLoop, queue, userStop>>

Clear ==
    /\ Thread("left", "cleared")
    /\ eventLoop' = FALSE
    /\ UNCHANGED <<queue, userStop>>

(* ~NioEventLoop, and the thread ends.                                     *)
End ==
    /\ Thread("cleared", "ended")
    /\ UNCHANGED <<eventLoop, queue, userStop>>
-----------------------------------------------------------------------------
(* Users                                                                   *)

HasPointer == owner \notin {"new", "waiting", "awake", "started"}

(* execute() from another thread.                                          *)
Execute(t) ==
    /\ fault = "none" /\ HasPointer
    /\ t \notin Range(early) \cup late
    /\ \/ /\ ~Alive
          /\ late' = late \cup {t}
          /\ fault' = "freed"
          /\ UNCHANGED <<queue, early>>
       \/ /\ Alive
          /\ Enqueue(t)
          /\ IF Exiting
             THEN late' = late \cup {t} /\ UNCHANGED early
             ELSE early' = Append(early, t) /\ UNCHANGED late
          /\ UNCHANGED fault
    /\ UNCHANGED <<owner, thread, eventLoop, ran, userStop>>

UserShutdown ==
    /\ fault = "none" /\ UserStops /\ HasPointer /\ ~userStop
    /\ userStop' = TRUE
    /\ \/ Alive /\ AskToExit /\ UNCHANGED fault
       \/ ~Alive /\ fault' = "freed" /\ UNCHANGED queue
    /\ UNCHANGED <<owner, thread, eventLoop, ran, early, late>>

OwnerSteps == Awake \/ Returned \/ OwnGroup \/ LoadPointer \/ ShutdownGracefully \/ Join
ThreadSteps == InitCallback \/ Publish \/ EnterLoop \/ RunNext \/ Leave \/ Clear \/ End

Next ==
    \/ StartThread \/ StopThread \/ OwnerSteps \/ ThreadSteps
    \/ (\E t \in Task : Execute(t)) \/ UserShutdown

Spec == Init /\ [][Next]_vars

(* Both threads are scheduled.  The owner need never stop the loop.        *)
FairSpec == Spec /\ WF_vars(OwnerSteps) /\ WF_vars(ThreadSteps)
-----------------------------------------------------------------------------
(* Properties                                                              *)

(* What was given to the loop before anyone asked it to exit has run, in   *)
(* the order it was given, when the loop is left; the request to exit      *)
(* waits in the same queue.                                                *)
EarlyTasksRan ==
    thread \in {"left", "cleared", "ended"} =>
        /\ Len(ran) >= Len(early)
        /\ SubSeq(ran, 1, Len(early)) = early

(* When stopThread() finds no loop and so does not join, the thread is     *)
(* past its last access to the NioEventLoopThread, which may be freed.     *)
(* (And the variables have their types.)                                   *)
SkipIsSafe == TypeOK /\ (owner = "skipped" => thread \in {"cleared", "ended"})

(* The gaps around eventLoop_ matter only when a user shuts the loop down  *)
(* himself; else a dead loop is used only by those who come after it was   *)
(* asked to stop.                                                          *)
FaultCause ==
    /\ fault = "null" => userStop
    /\ fault = "freed" => userStop \/ owner \in {"joining", "joined"}

(* startThread() returns, and stopThread() ends however early it comes: a  *)
(* request to exit that is made before loop() runs is not lost.  (When a   *)
(* user shuts the loop down at once, the owner may look again only after   *)
(* eventLoop_ was cleared, and waits for ever.)                            *)
CallsReturn ==
    /\ (owner = "waiting") ~> (owner # "waiting" \/ userStop)
    /\ (owner = "tested") ~> (owner = "joined" \/ fault # "none")
=============================================================================

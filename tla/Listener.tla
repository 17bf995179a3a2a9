------------------------------- MODULE Listener -------------------------------
(***************************************************************************)
(* The Listener of a ServerBootstrap: the options that reach it, listen(), *)
(* accept() in the base loop's thread and exceptionCaught(), which gives   *)
(* up a spare descriptor to refuse a connection when the process has no    *)
(* more of them, and does nothing when it is the system that has none,     *)
(* while other threads open and close theirs.                              *)
(***************************************************************************)
EXTENDS ChannelConfig

CONSTANTS
    Client,          \* the clients that connect, once each
    Fd,              \* the descriptors of the process
    None,            \* no descriptor: -1
    DefaultBackLog   \* kDefaultBackLog

ASSUME NoneAssumption == None \notin Fd
ASSUME BackLogAssumption == DefaultBackLog \in Nat \ {0}

VARIABLES
    stage,       \* where the Listener is, or exceptionCaught() within it
    table,       \* who owns each descriptor
    devnull,     \* devnull_
    listenFd,    \* the listening socket
    reuseable,   \* reuseable_
    backlog,     \* backlog_
    address,     \* what bind() found: who else has the address, or that it is denied
    shortage,    \* the system has no more files or memory for sockets
    waiting,     \* connections that wait to be accepted
    got,         \* what became of each client
    fault,       \* how the program broke
    stolen       \* history: while the spare descriptor was out another one was
                 \* opened, or the system was short of files

vars == <<config, stage, table, devnull, listenFd, reuseable, backlog, address, shortage, waiting, got,
          fault, stolen>>

TypeOK ==
    /\ ConfigTypeOK
    /\ stage \in {"new", "created", "started", "listening", "caught", "holding", "reopening", "freed"}
    /\ table \in [Fd -> {"free", "spare", "listen", "channel", "other"}]
    /\ devnull \in Fd \cup {None}
    /\ listenFd \in Fd \cup {None}
    /\ reuseable \in Int
    /\ backlog \in Int
    /\ address \in {"free", "lingers", "listened", "denied"}
    /\ shortage \in BOOLEAN
    /\ waiting \in Seq(Client)
    /\ got \in [Client -> {"none", "waiting", "accepted", "dropped", "refused"}]
    /\ fault \in {"none", "devnull", "bind", "alien"}
    /\ stolen \in BOOLEAN

Init ==
    /\ ConfigInit
    /\ stage = "new"
    /\ table \in [Fd -> {"free", "other"}]
    /\ devnull = None
    /\ listenFd = None
    /\ reuseable = 0
    /\ backlog = DefaultBackLog
    /\ address = "free"
    /\ shortage = FALSE
    /\ waiting = <<>>
    /\ got = [c \in Client |-> "none"]
    /\ fault = "none"
    /\ stolen = FALSE
-----------------------------------------------------------------------------
(* Faulty variants of the definitions below.                               *)

(* exceptionCaught() that keeps the old number when accept() fails.        *)
AcceptSpare_KeepsNumber ==
    /\ stage = "caught" /\ fault = "none"
    /\ stage' = "holding"
    /\ \/ \E f \in Fd :
             /\ table[f] = "free" /\ waiting # <<>>
             /\ table' = [table EXCEPT ![f] = "spare"]
             /\ devnull' = f
             /\ waiting' = Tail(waiting)
             /\ got' = [got EXCEPT ![Head(waiting)] = "dropped"]
       \/ /\ \A f \in Fd : table[f] # "free"
          /\ UNCHANGED <<table, devnull, waiting, got>>
    /\ UNCHANGED <<config, listenFd, reuseable, backlog, address, shortage, fault, stolen>>

(* exceptionCaught() that only closes and opens the spare descriptor.      *)
AcceptSpare_Skips ==
    /\ stage = "caught" /\ fault = "none"
    /\ stage' = "reopening"
    /\ UNCHANGED <<config, table, devnull, waiting, got, listenFd, reuseable, backlog, address, shortage, fault, stolen>>

(* exceptionCaught() that does not close what it accepted.                 *)
CloseSpare_Forgets ==
    /\ stage = "holding" /\ fault = "none"
    /\ stage' = "reopening"
    /\ UNCHANGED <<config, table, devnull, listenFd, reuseable, backlog, address, shortage, waiting, got, fault, stolen>>
-----------------------------------------------------------------------------
(* Helpers                                                                 *)

(* open(), socket() or accept() finds a descriptor.                        *)
IsFree(f) == table[f] = "free"

Full == \A f \in Fd : ~IsFree(f)

(* Why accept() fails: there is nobody, the process has no descriptor left *)
(* (which Linux looks at first), or the system has no file or memory left, *)
(* as ENFILE, ENOBUFS and ENOMEM say.                                      *)
Errno ==
    IF waiting = <<>> THEN "EAGAIN"
    ELSE IF Full THEN "EMFILE"
    ELSE IF shortage THEN "ENFILE" ELSE "none"

(* Listener::option(): the last value told under that number.              *)
Told(opt, default) ==
    LET told == {i \in DOMAIN listenerOps : listenerOps[i][1] = opt}
    IN  IF told = {} THEN default ELSE listenerOps[Max(told)][2]

(* close() of the spare descriptor, or of -1.                              *)
CloseDevnull ==
    IF devnull = None
    THEN UNCHANGED <<table, fault>>
    ELSE /\ table' = [table EXCEPT ![devnull] = "free"]
         /\ fault' = IF table[devnull] = "spare" THEN fault ELSE "alien"
-----------------------------------------------------------------------------
(* Actions                                                                 *)

Option ==
    /\ fault = "none" /\ stage \in {"new", "created"}
    /\ Options
    /\ UNCHANGED <<stage, table, devnull, listenFd, reuseable, backlog, address, shortage, waiting, got, fault, stolen>>

(* The constructor opens /dev/null to have a descriptor in reserve.        *)
Create ==
    /\ stage = "new" /\ bootstrap = "server" /\ fault = "none"
    /\ \/ \E f \in Fd :
             /\ IsFree(f)
             /\ stage' = "created"
             /\ devnull' = f
             /\ table' = [table EXCEPT ![f] = "spare"]
             /\ UNCHANGED fault
       \/ /\ Full \/ shortage
          /\ fault' = "devnull"
          /\ UNCHANGED <<stage, devnull, table>>
    /\ UNCHANGED <<config, listenFd, reuseable, backlog, address, shortage, waiting, got, stolen>>

(* ServerBootstrap::start() reads the timeouts, binds the Listener and has *)
(* listen() executed; ClientBootstrap::connect() has no Listener.          *)
Start ==
    /\ fault = "none"
    /\ stage = "created" \/ bootstrap = "client"
    /\ ReadConfig
    /\ IF bootstrap = "server"
       THEN /\ stage' = "started"
            /\ reuseable' = Told(OPT_REUSEPORT, 0)
            /\ backlog' = Told(OPT_BACKlOG, DefaultBackLog)
       ELSE UNCHANGED <<stage, reuseable, backlog>>
    /\ UNCHANGED <<table, devnull, listenFd, address, shortage, waiting, got, fault, stolen>>

(* listen() asserts that there is a listener: that there was a descriptor, *)
(* and that the address could be bound, whatever bind() finds there.       *)
Listen ==
    /\ stage = "started" /\ fault = "none"
    /\ address' \in {"free", "lingers", "listened", "denied"}
    /\ \/ \E f \in Fd :
             /\ IsFree(f)
             /\ address' = "free" \/ (address' = "lingers" /\ reuseable # 0)
             /\ stage' = "listening"
             /\ listenFd' = f
             /\ table' = [table EXCEPT ![f] = "listen"]
             /\ UNCHANGED fault
       \/ /\ \/ Full \/ shortage
             \/ address' \in {"listened", "denied"}
             \/ address' = "lingers" /\ reuseable = 0
          /\ fault' = "bind"
          /\ UNCHANGED <<stage, listenFd, table>>
    /\ UNCHANGED <<config, devnull, reuseable, backlog, shortage, waiting, got, stolen>>

(* A client connects.                                                      *)
Arrive(c) ==
    /\ stage \in {"listening", "caught", "holding", "reopening"} /\ fault = "none"
    /\ got[c] = "none"
    /\ IF Len(waiting) < backlog
       THEN /\ waiting' = Append(waiting, c)
            /\ got' = [got EXCEPT ![c] = "waiting"]
       ELSE /\ got' = [got EXCEPT ![c] = "refused"]
            /\ UNCHANGED waiting
    /\ UNCHANGED <<config, stage, table, devnull, listenFd, reuseable, backlog, address, shortage, fault, stolen>>

(* newChannel(): an accepted descriptor goes to a channel ...              *)
NewChannel ==
    /\ stage = "listening" /\ fault = "none" /\ Errno = "none"
    /\ \E f \in Fd : IsFree(f) /\ table' = [table EXCEPT ![f] = "channel"]
    /\ waiting' = Tail(waiting)
    /\ got' = [got EXCEPT ![Head(waiting)] = "accepted"]
    /\ UNCHANGED <<config, stage, devnull, listenFd, reuseable, backlog, address, shortage, fault, stolen>>

(* ... or accept() fails.  exceptionCaught() looks for EMFILE only: it     *)
(* closes the spare descriptor, or does nothing, and is called again,      *)
ExceptionCaught ==
    /\ stage = "listening" /\ fault = "none" /\ Errno \in {"EMFILE", "ENFILE"}
    /\ IF Errno = "EMFILE"
       THEN /\ CloseDevnull
            /\ stage' = "caught"
            /\ stolen' = (stolen \/ shortage)
       ELSE UNCHANGED <<table, fault, stage, stolen>>
    /\ UNCHANGED <<config, devnull, listenFd, reuseable, backlog, address, shortage, waiting, got>>

(* accepts the connection with it,                                         *)
AcceptSpare ==
    /\ stage = "caught" /\ fault = "none"
    /\ stage' = "holding"
    /\ \/ \E f \in Fd :
             /\ IsFree(f) /\ Errno = "none"
             /\ table' = [table EXCEPT ![f] = "spare"]
             /\ devnull' = f
             /\ waiting' = Tail(waiting)
             /\ got' = [got EXCEPT ![Head(waiting)] = "dropped"]
       \/ /\ Errno # "none"
          /\ devnull' = None
          /\ UNCHANGED <<table, waiting, got>>
    /\ UNCHANGED <<config, listenFd, reuseable, backlog, address, shortage, fault, stolen>>

(* closes that connection                                                  *)
CloseSpare ==
    /\ stage = "holding" /\ fault = "none"
    /\ CloseDevnull
    /\ stage' = "reopening"
    /\ UNCHANGED <<config, devnull, listenFd, reuseable, backlog, address, shortage, waiting, got, stolen>>

(* and opens /dev/null again.                                              *)
Reopen ==
    /\ stage = "reopening" /\ fault = "none"
    /\ stage' = "listening"
    /\ \/ \E f \in Fd : IsFree(f) /\ devnull' = f /\ table' = [table EXCEPT ![f] = "spare"]
       \/ (Full \/ shortage) /\ devnull' = None /\ UNCHANGED table
    /\ UNCHANGED <<config, listenFd, reuseable, backlog, address, shortage, waiting, got, fault, stolen>>

(* ~Listener, between two callbacks of the base loop.                      *)
Destroy ==
    /\ stage \in {"created", "listening"} /\ fault = "none"
    /\ stage' = "freed"
    /\ table' = [f \in Fd |-> IF f \in {devnull, listenFd} THEN "free" ELSE table[f]]
    /\ devnull' = None
    /\ listenFd' = None
    /\ waiting' = <<>>
    /\ got' = [c \in Client |-> IF got[c] = "waiting" THEN "dropped" ELSE got[c]]
    /\ UNCHANGED <<config, reuseable, backlog, address, shortage, fault, stolen>>

(* Other threads open descriptors, and close theirs or a channel's.        *)
OtherOpens(f) ==
    /\ fault = "none" /\ stage # "freed" /\ bootstrap = "server" /\ IsFree(f)
    /\ table' = [table EXCEPT ![f] = "other"]
    /\ stolen' = (stolen \/ stage \in {"caught", "reopening"})
    /\ UNCHANGED <<config, stage, devnull, listenFd, reuseable, backlog, address, shortage, waiting, got, fault>>

OtherCloses(f) ==
    /\ fault = "none" /\ stage # "freed" /\ bootstrap = "server" /\ table[f] \in {"other", "channel"}
    /\ table' = [table EXCEPT ![f] = "free"]
    /\ UNCHANGED <<config, stage, devnull, listenFd, reuseable, backlog, address, shortage, waiting, got, fault, stolen>>

(* The system runs short of files and memory, or has some again.           *)
Scarce ==
    /\ fault = "none" /\ stage # "freed" /\ bootstrap = "server"
    /\ shortage' = ~shortage
    /\ stolen' = (stolen \/ stage \in {"caught", "holding", "reopening"})
    /\ UNCHANGED <<config, stage, table, devnull, listenFd, reuseable, backlog, address, waiting, got, fault>>

Serve == NewChannel \/ ExceptionCaught \/ AcceptSpare \/ CloseSpare \/ Reopen

Next ==
    \/ Option \/ Create \/ Start \/ Listen \/ Serve \/ Destroy \/ Scarce
    \/ \E c \in Client : Arrive(c)
    \/ \E f \in Fd : OtherOpens(f) \/ OtherCloses(f)

Spec == Init /\ [][Next]_vars

(* The base loop goes on.                                                  *)
FairSpec == Spec /\ WF_vars(Serve)
-----------------------------------------------------------------------------
(* Properties                                                              *)

(* The calls that set an option to a positive number, and those that       *)
(* switched it on.                                                         *)
Set(opt) == {i \in DOMAIN asked : asked[i].opt = opt /\ asked[i].call = "int" /\ asked[i].optval > 0}

SwitchedOn(opt) == {i \in DOMAIN asked : asked[i].opt = opt /\ asked[i].call = "bool" /\ asked[i].optval > 0}

(* What becomes of an application's options: a timeout's first positive    *)
(* value makes the wheel, the backlog's last one counts, and the address   *)
(* may be reused when OPT_REUSEPORT was switched on or, because TCP_MAXSEG *)
(* has the number of OPT_REUSEPORT, when a segment size was set; the       *)
(* number 1 does not switch OPT_REUSEPORT on.  For a client                *)
(* OPT_ALLIDELRTIMEOUT makes no wheel.                                     *)
OptionsReach ==
    started =>
        /\ wheel # 0 => \E opt \in Timeouts : \E i \in Set(opt) :
              asked[i].optval = wheel /\ \A j \in Set(opt) : i <= j
        /\ wheel = 0 => \A opt \in Timeouts : Set(opt) = {} \/ (bootstrap = "client" /\ opt = OPT_ALLIDELRTIMEOUT)
        /\ \A i \in Set(OPT_BACKlOG) :
              bootstrap = "server" /\ (\A j \in Set(OPT_BACKlOG) : j <= i) => backlog = asked[i].optval
        /\ reuseable # 0 <=> bootstrap = "server" /\ SwitchedOn(OPT_REUSEPORT) \cup Set(OPT_TCPMAXSEG) # {}

(* The spare descriptor is lost only when, between exceptionCaught()'s      *)
(* close() and its open(), another thread opens a descriptor or the system *)
(* has no file to give; otherwise it is there whenever the loop comes back *)
(* to accept().  (And the variables have their types.)                     *)
ReserveKept ==
    /\ TypeOK
    /\ stage = "listening" /\ ~stolen => devnull # None /\ table[devnull] = "spare"

(* The program stops at an assertion only for want of a descriptor, of the *)
(* process or of the system, when the address is not to be had, or when    *)
(* connections linger there and OPT_REUSEPORT was not switched on; and     *)
(* whatever other threads do between its calls, the Listener closes no     *)
(* descriptor but its own.                                                 *)
FaultCause ==
    /\ fault \in {"devnull", "bind"} /\ ~Full /\ ~shortage =>
          /\ fault = "bind" /\ address # "free"
          /\ address = "lingers" => SwitchedOn(OPT_REUSEPORT) = {}
    /\ fault # "alien"

(* A connection is accepted or dropped in the end, as long as there is a   *)
(* spare descriptor: the loop does not spin for ever over one that the     *)
(* process cannot take.  While the system is short of files or memory it   *)
(* does, for exceptionCaught() knows EMFILE only; so this is promised when *)
(* the system has some again for good.                                     *)
PendingServed ==
    <>[]~shortage =>
        \A c \in Client : (got[c] = "waiting") ~> (got[c] # "waiting" \/ devnull = None \/ fault # "none")
=============================================================================

---------------------------- MODULE IdlChanelInspector ----------------------------
(***************************************************************************)
(* The idle inspector of a loop and the channels it watches.  Its only     *)
(* wheel that ever exists is that of READ_IDLE: the constructor puts the   *)
(* timeouts for writing and for all traffic there too.  A bucket holds     *)
(* shared_ptrs to channel entries; each second the oldest bucket goes, and *)
(* an entry that was in no other bucket dies and tells its channel.        *)
(*                                                                         *)
(* entry.position_ and elem.position_ are only compared for equality, and  *)
(* elem.position_ grows with every tick: current is the set of channels    *)
(* whose entry has the wheel's position.                                   *)
(*                                                                         *)
(* A channel keeps a raw pointer to the inspector it was built with.       *)
(* ClientBootstrap::connect() replaces the inspector in the thread that    *)
(* calls it: in the loop's own, that is one step of the loop; in another,  *)
(* the old one is freed while the loop goes on.                            *)
(***************************************************************************)
EXTENDS Naturals, Sequences, SequencesExt, FiniteSets

CONSTANTS
    Channel,          \* the channels of one loop
    ReaderSeconds,    \* OPT_READIDLEKETIMEOUT
    WriterSeconds,    \* OPT_WRITEIDELETIMEOUT
    AllSeconds,       \* OPT_ALLIDELRTIMEOUT
    Values,           \* the values that option() of a channel is called with
    MayReplace        \* whether the owner may call connect() again

ASSUME SecondsAssumption ==
    /\ ReaderSeconds \in Nat
    /\ WriterSeconds \in Nat
    /\ AllSeconds \in Nat
ASSUME ValuesAssumption == Values \subseteq Nat
ASSUME MayReplaceAssumption == MayReplace \in BOOLEAN

VARIABLES
    buckets,    \* the wheel of READ_IDLE, oldest bucket first
    atZero,     \* whether elem.position_ is 0
    current,    \* the channels whose entry has the position of the wheel
    phase,      \* per channel: "new", "built", "open" or "closed"
    interest,   \* per channel: the idle states in interestIdles_
    told,       \* per channel: the idle states it was told
    stale,      \* channels built with an inspector that was replaced since
    dying,      \* channels whose entries another thread is freeing
    fault,      \* how the program broke
    quiet,      \* history: ticks without reading until the channel is told
    spurious    \* history: channels told because the inspector went away

wheel == <<buckets, atZero, current>>
vars  == <<wheel, phase, interest, told, stale, dying, fault, quiet, spurious>>

(* The size of the wheel: the last of the three timeouts that is set.      *)
Size == IF AllSeconds > 0 THEN AllSeconds
        ELSE IF WriterSeconds > 0 THEN WriterSeconds ELSE ReaderSeconds

Watched == UNION {buckets[i] : i \in DOMAIN buckets}

Open == {c \in Channel : phase[c] = "open"}

IdleState == {"read", "write", "all"}

(* What option() calls leave in interestIdles_.  NioSocketChannel::option  *)
(* tests its second argument, the seconds, where it means the first: only  *)
(* calls whose value is by chance the number of an option of a pipeline    *)
(* (10..14) get there.                                                     *)
Recorded(calls) == {call[1] : call \in {k \in calls : k[2] \in 10..14}}

(* tie() walks a std::map, in the order of the enumeration.                *)
Before(t, u) == <<t, u>> \in {<<"read", "write">>, <<"read", "all">>, <<"write", "all">>}

TypeOK ==
    /\ buckets \in [1..Size -> SUBSET Channel]
    /\ atZero \in BOOLEAN
    /\ current \subseteq Watched
    /\ phase \in [Channel -> {"new", "built", "open", "closed"}]
    /\ interest \in [Channel -> SUBSET IdleState]
    /\ told \in [Channel -> SUBSET IdleState]
    /\ stale \subseteq Channel
    /\ dying \subseteq Channel
    /\ fault \in {"none", "tie", "inspector"}
    /\ quiet \in [Channel -> 0..(Size + 1)]
    /\ spurious \subseteq Channel

Empty == [i \in 1..Size |-> {}]

(* The wheel starts full of empty buckets, at position Size - 1.           *)
Init ==
    /\ buckets = Empty
    /\ atZero = (Size <= 1)
    /\ current = {}
    /\ phase = [c \in Channel |-> "new"]
    /\ interest = [c \in Channel |-> {}]
    /\ told = [c \in Channel |-> {}]
    /\ stale = {}
    /\ dying = {}
    /\ fault = "none"
    /\ quiet = [c \in Channel |-> 0]
    /\ spurious = {}
-----------------------------------------------------------------------------
(* Faulty variants of the operators below.                                 *)

(* messageReceived() that does not move the entry.                         *)
MessageReceived_Ignored(c) ==
    /\ fault = "none" /\ phase[c] = "open"
    /\ quiet' = [quiet EXCEPT ![c] = IF "read" \in told[c] THEN @ ELSE 0]
    /\ UNCHANGED <<wheel, phase, interest, told, stale, dying, fault, spurious>>

(* messageReceived() that makes a new entry when the old one has died.     *)
MessageReceived_Rearms(c) ==
    /\ fault = "none" /\ phase[c] = "open"
    /\ buckets' = [buckets EXCEPT ![Size] = @ \cup {c}]
    /\ current' = current \cup {c}
    /\ UNCHANGED <<atZero, phase, interest, told, stale, dying, fault, quiet, spurious>>

(* backInsert() that looks into the wheel of another idle state.           *)
Inserted_OtherWheel(t) == t = "write" /\ Size > 0 /\ ~atZero
-----------------------------------------------------------------------------
(* Operators                                                               *)

(* backInsert().                                                           *)
BackInsert(c) ==
    /\ current' = current \cup {c}
    /\ buckets' = IF c \in current THEN buckets
                  ELSE [buckets EXCEPT ![Size] = @ \cup {c}]

(* Whether backInsert() takes a new entry: its wheel exists and is not at  *)
(* position 0, where a new entry says it is.                               *)
Inserted(t) == t = "read" /\ Size > 0 /\ ~atZero

(* inspect(): the oldest bucket goes, a new one comes.                     *)
Turn ==
    /\ buckets' = [i \in 1..Size |-> IF i < Size THEN buckets[i + 1] ELSE {}]
    /\ current' = {}
    /\ atZero' = FALSE

(* Some entries die in the loop: open channels are told, and their idle    *)
(* callback may close them.                                                *)
Tell(C) ==
    /\ told' = [c \in Channel |-> IF c \in C THEN told[c] \cup {"read"} ELSE told[c]]
    /\ \E D \in SUBSET C :
          phase' = [c \in Channel |-> IF c \in D THEN "closed" ELSE phase[c]]
-----------------------------------------------------------------------------
(* Actions                                                                 *)

(* newChannel() builds a channel with the inspector of the day, and the    *)
(* user's initializer calls option() of it.                                *)
NewChannel(c) ==
    /\ fault = "none" /\ phase[c] = "new"
    /\ phase' = [phase EXCEPT ![c] = "built"]
    /\ \E calls \in SUBSET (IdleState \X Values) :
          interest' = [interest EXCEPT ![c] = Recorded(calls)]
    /\ UNCHANGED <<wheel, told, stale, dying, fault, quiet, spurious>>

(* established(): tie() makes an entry for each recorded idle state.  One  *)
(* that is not inserted dies at once, inside tie(): if the idle callback   *)
(* then closes the channel, tie() goes on with a freed pipeline; if it     *)
(* calls connect(), the next entry goes to a freed inspector.  So does     *)
(* every entry of a channel whose inspector was replaced since newChannel. *)
Established(c) ==
    LET now == {t \in interest[c] : ~Inserted(t)} IN
    /\ fault = "none" /\ phase[c] = "built"
    /\ \/ /\ c \notin stale \/ interest[c] = {}
          /\ phase' = [phase EXCEPT ![c] = "open"]
          /\ told' = [told EXCEPT ![c] = now]
          /\ IF "read" \in interest[c] \ now THEN BackInsert(c) ELSE UNCHANGED <<buckets, current>>
          /\ UNCHANGED fault
       \/ /\ c \notin stale /\ now # {}
          /\ fault' \in {"tie"} \cup
                IF MayReplace /\ \E t \in now : \E u \in interest[c] : Before(t, u)
                THEN {"inspector"} ELSE {}
          /\ UNCHANGED <<phase, told, buckets, current>>
       \/ /\ c \in stale /\ interest[c] # {}
          /\ fault' = "inspector"
          /\ UNCHANGED <<phase, told, buckets, current>>
    /\ UNCHANGED <<atZero, interest, stale, dying, quiet, spurious>>

(* messageReceived() of an open channel; the callback may close it first,  *)
(* and the entry is moved nevertheless: when another thread is just        *)
(* freeing it, it may still be found, and goes to a freed inspector.       *)
MessageReceived(c) ==
    /\ fault = "none" /\ phase[c] = "open"
    /\ quiet' = [quiet EXCEPT ![c] = IF "read" \in told[c] THEN @ ELSE 0]
    /\ phase' \in {phase, [phase EXCEPT ![c] = "closed"]}
    /\ IF c \in Watched THEN BackInsert(c) ELSE UNCHANGED <<buckets, current>>
    /\ fault' \in {"none"} \cup (IF c \in dying THEN {"inspector"} ELSE {})
    /\ UNCHANGED <<atZero, interest, told, stale, dying, spurious>>

(* The timer of one second fires: inspect().  An idle callback that calls  *)
(* connect() frees the wheel that is being turned.                         *)
Inspect ==
    LET idle == {c \in Open : Size > 0 /\ c \in buckets[1]
                                /\ \A i \in 2..Size : c \notin buckets[i]}
    IN  /\ fault = "none"
        /\ Turn
        /\ Tell(idle)
        /\ fault' \in {"none"} \cup (IF MayReplace /\ idle # {} THEN {"inspector"} ELSE {})
        /\ quiet' = [c \in Channel |->
                        IF c \in Open /\ quiet[c] <= Size /\ "read" \notin told[c]
                        THEN quiet[c] + 1 ELSE quiet[c]]
        /\ UNCHANGED <<interest, stale, dying, spurious>>

(* A channel closes.  Its entry stays in the wheel and tells nobody; one   *)
(* that another thread is freeing copies the shared_ptr to the pipeline    *)
(* while it is reset.                                                      *)
Close(c) ==
    /\ fault = "none" /\ phase[c] = "open"
    /\ phase' = [phase EXCEPT ![c] = "closed"]
    /\ fault' \in {"none"} \cup (IF c \in dying THEN {"inspector"} ELSE {})
    /\ UNCHANGED <<wheel, interest, told, stale, dying, quiet, spurious>>

(* connect() makes a new inspector; the entries die with the old wheel and *)
(* tell every open channel that was watched.                               *)
NewInspector ==
    /\ fault = "none" /\ MayReplace
    /\ buckets' = Empty
    /\ current' = {}
    /\ atZero' = (Size <= 1)
    /\ stale' = stale \cup {c \in Channel : phase[c] = "built"}
    /\ spurious' = spurious \cup (Watched \cap Open)
    /\ UNCHANGED <<interest, fault, quiet>>

(* In a callback of the loop.                                              *)
Replace ==
    /\ NewInspector
    /\ Tell(Watched \cap Open)
    /\ UNCHANGED dying

(* In another thread: from the exchange of inspector_ on the old wheel is  *)
(* being freed.  (Whatever the loop does with it before the first entry    *)
(* dies, it might have done before; ~IdlChanelInspector waits for a        *)
(* running inspect().  One thread at a time calls connect().)  A callback  *)
(* that closes its channel there has close() executed in the loop.         *)
ReplaceStarts ==
    /\ dying = {}
    /\ NewInspector
    /\ dying' = Watched \cap Open
    /\ told' = [c \in Channel |-> IF c \in dying' THEN told[c] \cup {"read"} ELSE told[c]]
    /\ UNCHANGED phase

ReplaceEnds ==
    /\ fault = "none" /\ dying # {}
    /\ dying' = {}
    /\ UNCHANGED <<wheel, phase, interest, told, stale, fault, quiet, spurious>>

Next ==
    \/ \E c \in Channel : NewChannel(c) \/ Established(c) \/ MessageReceived(c) \/ Close(c)
    \/ Inspect
    \/ Replace \/ ReplaceStarts \/ ReplaceEnds

Spec == Init /\ [][Next]_vars
-----------------------------------------------------------------------------
(* Properties                                                              *)

(* An entry has the position of the wheel exactly when it is in the newest *)
(* bucket, so that a message puts it there and no second message need.     *)
WheelOK == TypeOK /\ (Size > 0 => current = buckets[Size])

(* An open channel that asked for read idleness is told when it has been   *)
(* silent for Size ticks, neither late nor early, through any sequence of  *)
(* insertions into several buckets, or because the inspector was replaced; *)
(* until then it is watched, and no longer.  (With a wheel of one second   *)
(* the first tick may find the wheel at position 0.)                       *)
TellsInTime ==
    /\ WheelOK
    /\ Size > 1 => \A c \in Open :
          "read" \in interest[c] =>
              /\ "read" \in told[c] <=> quiet[c] >= Size \/ c \in spurious
              /\ c \in Watched <=> "read" \notin told[c]

(* tie() of c finds a recorded idle state without a wheel, or a wheel of   *)
(* at most one second.                                                     *)
NoWheel(c) ==
    /\ phase[c] = "built"
    /\ interest[c] \cap {"write", "all"} # {} \/ (Size <= 1 /\ interest[c] # {})

(* The program breaks in tie() only for an idle state that has no wheel.   *)
(* A freed inspector is used only where connect() is called again: between *)
(* the making of a channel and its tie(), beside the loop while entries    *)
(* die, or from the idle callback of an entry.                             *)
FaultCause ==
    /\ fault = "tie" => \E c \in Channel : NoWheel(c)
    /\ fault = "inspector" =>
          /\ MayReplace
          /\ \/ \E c \in stale : phase[c] = "built" /\ interest[c] # {}
             \/ dying # {}
             \/ \E c \in Channel : NoWheel(c) \/ "read" \in told[c]

(* The wheel is an idle detector, which is reset when the inspector is     *)
(* replaced: the ticks left are the index of the newest bucket that holds  *)
(* the entry.                                                              *)
Left == [c \in Channel |->
            IF c \in Watched
            THEN CHOOSE i \in 1..Size : c \in buckets[i] /\ \A j \in (i + 1)..Size : c \notin buckets[j]
            ELSE 0]

Detector == INSTANCE IdleDetector WITH
                Limit <- Size,
                left <- Left,
                told <- {c \in Channel : "read" \in told[c]}

ImplementsDetector == Detector!Spec
=============================================================================

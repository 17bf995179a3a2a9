---------------------------- MODULE ChannelContract ----------------------------
(***************************************************************************)
(* What a NioSocketChannel promises to the code that uses it, without      *)
(* threads, tasks or sockets: a channel opens once and closes at most      *)
(* once; bytes reach the socket only while it is open; a write promise is  *)
(* answered at most once, and it is answered true only while the channel   *)
(* is open and only once the bytes that went before it are out.            *)
(***************************************************************************)
EXTENDS Naturals, SequencesExt, Functions

CONSTANTS
    Message,    \* everything that may be written
    Empty       \* those of them that have no bytes

VARIABLES
    phase,      \* "opening", "open" or "closed"
    sent,       \* the messages handed to the socket, in order
    yes,        \* the messages whose promise was answered true
    no          \* the messages whose promise was answered false

vars == <<phase, sent, yes, no>>

TypeOK ==
    /\ phase \in {"opening", "open", "closed"}
    /\ sent \in Seq(Message)
    /\ yes \subseteq Message
    /\ no \subseteq Message

Init ==
    /\ phase = "opening"
    /\ sent = <<>>
    /\ yes = {}
    /\ no = {}

Open ==
    /\ phase = "opening"
    /\ phase' = "open"
    /\ UNCHANGED <<sent, yes, no>>

(* Bytes go out, the promises they complete are answered, and a callback   *)
(* of one of those promises may close the channel in the same step.        *)
Deliver ==
    /\ phase = "open"
    /\ phase' \in {"open", "closed"}
    /\ sent' \in Seq(Message)
    /\ IsPrefix(sent, sent')
    /\ yes \subseteq yes'
    /\ yes' \ yes \subseteq ((Range(sent') \cup Empty) \cap Message) \ no
    /\ UNCHANGED no

(* A write is turned down.  It may be turned down at any time.             *)
Refuse ==
    /\ \E w \in Message \ yes : no' = no \cup {w}
    /\ UNCHANGED <<phase, sent, yes>>

Close ==
    /\ phase = "open"
    /\ phase' = "closed"
    /\ UNCHANGED <<sent, yes, no>>

Next == Open \/ Deliver \/ Refuse \/ Close

Spec == Init /\ [][Next]_vars

-----------------------------------------------------------------------------

(* No write is told both that it was sent and that it was not.             *)
OneAnswer == yes \cap no = {}

(* A true answer is given only for bytes that reached the socket.          *)
TrueIsSent == yes \subseteq Range(sent) \cup Empty

(* After channelInActive nothing is sent and nobody is told true.          *)
ClosedIsFinal ==
    [][phase = "closed" => /\ phase' = "closed"
                           /\ sent' = sent
                           /\ yes' = yes]_vars
=============================================================================

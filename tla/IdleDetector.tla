------------------------------ MODULE IdleDetector ------------------------------
(***************************************************************************)
(* What an idle inspector is for, without buckets: a watched channel has   *)
(* some ticks left; traffic winds it up again; when a tick leaves it none, *)
(* the channel is told that it is idle, once, and is watched no more.      *)
(***************************************************************************)
EXTENDS Naturals

CONSTANTS
    Channel,    \* the channels
    Limit       \* the ticks of silence after which a channel is told

VARIABLES
    left,       \* per channel: ticks left, 0 when it is not watched
    told        \* the channels that were told

vars == <<left, told>>

Init ==
    /\ left = [c \in Channel |-> 0]
    /\ told = {}

(* A channel that was not told before is watched from now on.              *)
Watch(c) ==
    /\ left[c] = 0 /\ c \notin told
    /\ left' = [left EXCEPT ![c] = Limit]
    /\ UNCHANGED told

Traffic(c) ==
    /\ left[c] > 0
    /\ left' = [left EXCEPT ![c] = Limit]
    /\ UNCHANGED told

(* A second passes.  Channels closed meanwhile need not be told.           *)
Tick ==
    /\ left' = [c \in Channel |-> IF left[c] > 0 THEN left[c] - 1 ELSE 0]
    /\ \E C \in SUBSET {c \in Channel : left[c] = 1} : told' = told \cup C

(* The detector is replaced: what was watched is watched no more, and told *)
(* so as if it had been idle.                                              *)
Reset ==
    /\ left' = [c \in Channel |-> 0]
    /\ \E C \in SUBSET {c \in Channel : left[c] > 0} : told' = told \cup C

Next ==
    \/ \E c \in Channel : Watch(c) \/ Traffic(c)
    \/ Tick
    \/ Reset

Spec == Init /\ [][Next]_vars
=============================================================================

----------------------- MODULE IdlChanelInspector_proofs -----------------------
(***************************************************************************)
(* Theorems about the idle wheel for every number of channels and seconds. *)
(*                                                                         *)
(* The newest bucket that holds an entry is what matters: the entry of a   *)
(* channel that has been silent for q ticks is in bucket Size - q, and in  *)
(* none after it.                                                          *)
(***************************************************************************)
EXTENDS IdlChanelInspector, TLAPS

(* Bucket i is the newest that holds the entry of c.                       *)
Newest(c, i) ==
    /\ i \in 1..Size
    /\ c \in buckets[i]
    /\ \A j \in (i + 1)..Size : c \notin buckets[j]

(* A channel that was not established yet.                                 *)
NewInv ==
    \A c \in Channel : phase[c] \in {"new", "built"} =>
        /\ c \notin Watched
        /\ quiet[c] = 0
        /\ told[c] = {}
        /\ c \notin spurious

NewestInv == \A c \in Watched : \E i \in 1..Size : Newest(c, i)

(* A channel that waits for read idleness, and one that was told of it.    *)
Waiting(c) == "read" \notin told[c] /\ c \notin spurious /\ Newest(c, Size - quiet[c])

Done(c) == "read" \in told[c] /\ (quiet[c] >= Size \/ c \in spurious)

ReaderInv ==
    \A c \in Channel : phase[c] = "open" /\ "read" \in interest[c] =>
        /\ c \in Watched => Waiting(c)
        /\ c \notin Watched => Done(c)

(* Only connect() makes an inspector go.                                   *)
StaleInv == stale # {} \/ dying # {} => MayReplace

IInv ==
    /\ WheelOK
    /\ atZero => Size <= 1
    /\ NewInv
    /\ StaleInv
    /\ FaultCause
    /\ Size > 1 => NewestInv /\ ReaderInv
-----------------------------------------------------------------------------
(* Facts about the wheel.                                                  *)

LEMMA SizeType == Size \in Nat
BY SecondsAssumption DEF Size

LEMMA WatchedDef ==
  ASSUME buckets \in [1..Size -> SUBSET Channel], NEW c
  PROVE  c \in Watched <=> \E i \in 1..Size : c \in buckets[i]
BY DEF Watched

LEMMA WatchedDefPrime ==
  ASSUME buckets' \in [1..Size -> SUBSET Channel], NEW c
  PROVE  c \in Watched' <=> \E i \in 1..Size : c \in buckets'[i]
BY DEF Watched

LEMMA NewestUnique ==
  ASSUME NEW c, NEW i, NEW k, Newest(c, i), Newest(c, k)
  PROVE  i = k
BY SizeType DEF Newest

LEMMA EmptyWatched ==
  ASSUME buckets' = Empty
  PROVE  buckets' \in [1..Size -> SUBSET Channel] /\ Watched' = {}
BY SizeType DEF Empty, Watched

(* What backInsert() does to the buckets.                                  *)
LEMMA BackInsertWheel ==
  ASSUME WheelOK, Size > 0, NEW c \in Channel, BackInsert(c)
  PROVE  /\ buckets' \in [1..Size -> SUBSET Channel]
         /\ buckets'[Size] = buckets[Size] \cup {c}
         /\ \A i \in 1..(Size - 1) : buckets'[i] = buckets[i]
         /\ current' = buckets'[Size]
         /\ Watched' = Watched \cup {c}
<1>1. buckets \in [1..Size -> SUBSET Channel] /\ Size \in 1..Size /\ current = buckets[Size]
  BY SizeType DEF WheelOK, TypeOK
<1>2. /\ buckets' \in [1..Size -> SUBSET Channel]
      /\ buckets'[Size] = buckets[Size] \cup {c}
      /\ \A i \in 1..(Size - 1) : buckets'[i] = buckets[i]
  <2>1. CASE c \in current
    BY <1>1, <2>1 DEF BackInsert
  <2>2. CASE c \notin current
    BY <1>1, <2>2, SizeType DEF BackInsert
  <2> QED BY <2>1, <2>2
<1>3. current' = buckets'[Size]
  BY <1>1, <1>2 DEF BackInsert
<1>4. ASSUME NEW x PROVE x \in Watched' <=> x \in Watched \/ x = c
  <2>1. ASSUME NEW i \in 1..Size, x \in buckets[i] PROVE x \in buckets'[i]
    BY <1>2, <2>1, SizeType
  <2>2. ASSUME NEW i \in 1..Size, x \in buckets'[i] PROVE x \in buckets[i] \/ x = c
    BY <1>2, <2>2, SizeType
  <2>3. c \in buckets'[Size]
    BY <1>2
  <2> QED BY <1>1, <1>2, <2>1, <2>2, <2>3, WatchedDef, WatchedDefPrime
<1> QED BY <1>2, <1>3, <1>4

(* After backInsert() the entry is in the newest bucket of all, and where  *)
(* another entry was newest it still is.                                   *)
LEMMA BackInsertNewest ==
  ASSUME WheelOK, Size > 0, NEW c \in Channel, BackInsert(c)
  PROVE  /\ Newest(c, Size)'
         /\ \A d, i : d # c /\ Newest(d, i) => Newest(d, i)'
         /\ NewestInv => NewestInv'
<1>1. Newest(c, Size)'
  BY BackInsertWheel, SizeType DEF Newest
<1>2. ASSUME NEW d, NEW i, d # c, Newest(d, i)
      PROVE  Newest(d, i)'
  <2>1. \A k \in 1..Size : d \in buckets'[k] <=> d \in buckets[k]
    BY <1>2, BackInsertWheel, SizeType
  <2>2. \A j \in (i + 1)..Size : j \in 1..Size
    BY <1>2, SizeType DEF Newest
  <2> QED BY <1>2, <2>1, <2>2 DEF Newest
<1>3. ASSUME NewestInv PROVE NewestInv'
  <2>1. SUFFICES ASSUME NEW d \in Watched' PROVE \E i \in 1..Size : Newest(d, i)'
    BY DEF NewestInv
  <2>2. CASE d = c
    BY <1>1, <2>2, SizeType
  <2>3. CASE d # c
    <3>1. d \in Watched
      BY <2>3, BackInsertWheel
    <3> QED BY <1>2, <1>3, <2>3, <3>1 DEF NewestInv
  <2> QED BY <2>2, <2>3
<1> QED BY <1>1, <1>2, <1>3

(* What inspect() does to the buckets.                                     *)
LEMMA TurnWheel ==
  ASSUME WheelOK, Turn
  PROVE  /\ buckets' \in [1..Size -> SUBSET Channel]
         /\ \A i \in 1..(Size - 1) : buckets'[i] = buckets[i + 1]
         /\ Size > 0 => buckets'[Size] = {}
         /\ Watched' \subseteq Watched
<1>1. /\ buckets' \in [1..Size -> SUBSET Channel]
      /\ \A i \in 1..(Size - 1) : buckets'[i] = buckets[i + 1]
      /\ Size > 0 => buckets'[Size] = {}
  BY SizeType DEF WheelOK, TypeOK, Turn
<1>2. ASSUME NEW x \in Watched' PROVE x \in Watched
  <2>1. PICK i \in 1..Size : x \in buckets'[i]
    BY <1>1, WatchedDefPrime
  <2>2. i \in 1..(Size - 1) /\ i + 1 \in 1..Size
    BY <1>1, <2>1, SizeType
  <2> QED BY <1>1, <2>1, <2>2, WatchedDef DEF WheelOK, TypeOK
<1> QED BY <1>1, <1>2

(* An entry moves one bucket on, or leaves with the oldest.                *)
LEMMA TurnNewest ==
  ASSUME WheelOK, Turn, NEW c, NEW i, Newest(c, i)
  PROVE  /\ i > 1 => Newest(c, i - 1)'
         /\ i = 1 => c \notin Watched'
<1>1. i \in 1..Size /\ Size \in Nat /\ Size > 0
  BY SizeType DEF Newest
<1>2. ASSUME i > 1 PROVE Newest(c, i - 1)'
  <2>1. i - 1 \in 1..(Size - 1) /\ i - 1 \in 1..Size
    BY <1>1, <1>2
  <2>2. c \in buckets'[i - 1]
    <3>1. buckets'[i - 1] = buckets[(i - 1) + 1]
      BY <2>1, TurnWheel
    <3> QED BY <1>1, <3>1 DEF Newest
  <2>3. ASSUME NEW j \in ((i - 1) + 1)..Size PROVE c \notin buckets'[j]
    <3>1. CASE j = Size
      BY <1>1, <3>1, TurnWheel
    <3>2. CASE j \in 1..(Size - 1)
      <4>1. j + 1 \in (i + 1)..Size
        BY <1>1, <2>3, <3>2
      <4> QED BY <3>2, <4>1, TurnWheel DEF Newest
    <3> QED BY <1>1, <2>3, <3>1, <3>2
  <2> QED BY <2>1, <2>2, <2>3 DEF Newest
<1>3. ASSUME i = 1 PROVE c \notin Watched'
  <2>1. ASSUME NEW j \in 1..Size PROVE c \notin buckets'[j]
    <3>1. CASE j = Size
      BY <1>1, <3>1, TurnWheel
    <3>2. CASE j \in 1..(Size - 1)
      <4>1. j + 1 \in 2..Size
        BY <1>1, <3>2
      <4> QED BY <1>3, <3>2, <4>1, TurnWheel DEF Newest
    <3> QED BY <1>1, <3>1, <3>2
  <2> QED BY <2>1, TurnWheel, WatchedDefPrime
<1> QED BY <1>2, <1>3
-----------------------------------------------------------------------------
(* The invariant is kept by every action.                                  *)

LEMMA InitInv == Init => IInv
<1> SUFFICES ASSUME Init PROVE IInv
  OBVIOUS
<1>1. buckets \in [1..Size -> SUBSET Channel] /\ Watched = {}
  BY SizeType DEF Init, Empty, Watched
<1>2. WheelOK
  <2>1. TypeOK
    <3>1. atZero \in BOOLEAN
      BY DEF Init
    <3>2. quiet \in [Channel -> 0..(Size + 1)]
      BY SizeType DEF Init
    <3>3. /\ current \subseteq Watched /\ fault \in {"none", "tie", "inspector"}
          /\ phase \in [Channel -> {"new", "built", "open", "closed"}]
          /\ interest \in [Channel -> SUBSET IdleState]
          /\ told \in [Channel -> SUBSET IdleState]
          /\ spurious \subseteq Channel /\ stale \subseteq Channel /\ dying \subseteq Channel
      BY DEF Init
    <3> QED BY <1>1, <3>1, <3>2, <3>3 DEF TypeOK
  <2>2. Size > 0 => current = buckets[Size]
    BY SizeType DEF Init, Empty
  <2> QED BY <2>1, <2>2 DEF WheelOK
<1>3. (atZero => Size <= 1) /\ NewInv /\ StaleInv /\ FaultCause
  BY <1>1 DEF Init, NewInv, StaleInv, FaultCause
<1>4. NewestInv /\ ReaderInv
  BY <1>1 DEF Init, NewestInv, ReaderInv
<1> QED BY <1>2, <1>3, <1>4 DEF IInv

LEMMA NewChannelInv ==
  ASSUME IInv, NEW c \in Channel, NewChannel(c)
  PROVE  IInv'
<1>1. PICK calls \in SUBSET (IdleState \X Values) :
        interest' = [interest EXCEPT ![c] = Recorded(calls)]
  BY DEF NewChannel
<1>2. /\ fault = "none" /\ phase[c] = "new"
      /\ phase' = [phase EXCEPT ![c] = "built"]
      /\ UNCHANGED <<buckets, atZero, current, told, stale, dying, fault, quiet, spurious>>
      /\ Watched' = Watched
  BY DEF NewChannel, wheel, Watched
<1>3. TypeOK /\ WheelOK /\ NewInv
  BY DEF IInv, WheelOK
<1>4. Recorded(calls) \subseteq IdleState
  BY DEF Recorded
<1>5. /\ phase' \in [Channel -> {"new", "built", "open", "closed"}]
      /\ \A d \in Channel : phase'[d] = "open" => phase[d] = "open" /\ d # c
      /\ \A d \in Channel : phase'[d] \in {"new", "built"} => phase[d] \in {"new", "built"}
  BY <1>2, <1>3 DEF TypeOK
<1>6. /\ interest' \in [Channel -> SUBSET IdleState]
      /\ \A d \in Channel : d # c => interest'[d] = interest[d]
  BY <1>1, <1>3, <1>4 DEF TypeOK
<1>7. WheelOK'
  <2>1. TypeOK'
    BY <1>2, <1>3, <1>5, <1>6 DEF TypeOK
  <2> QED BY <1>2, <1>3, <2>1 DEF WheelOK
<1>8. NewInv' /\ StaleInv' /\ FaultCause'
  BY <1>2, <1>3, <1>5 DEF IInv, NewInv, StaleInv, FaultCause
<1>9. (NewestInv => NewestInv') /\ (ReaderInv => ReaderInv')
  BY <1>2, <1>5, <1>6 DEF NewestInv, ReaderInv, Newest, Waiting, Done
<1> QED BY <1>2, <1>7, <1>8, <1>9 DEF IInv

LEMMA EstablishedInv ==
  ASSUME IInv, NEW c \in Channel, Established(c)
  PROVE  IInv'
<1> DEFINE I == interest[c]
           now == {t \in I : ~Inserted(t)}
<1>1. /\ UNCHANGED <<atZero, interest, stale, dying, quiet, spurious>>
      /\ fault = "none" /\ phase[c] = "built"
  BY DEF Established
<1>2. TypeOK /\ WheelOK /\ NewInv /\ Size \in Nat
  BY SizeType DEF IInv, WheelOK
<1>3. I \subseteq IdleState /\ now \subseteq I
  BY <1>2 DEF TypeOK
<1>4. CASE UNCHANGED <<phase, told, buckets, current>> /\ fault' # "none"
  <2>1. fault' \in {"tie", "inspector"}
    BY <1>4 DEF Established
  <2>2. WheelOK' /\ (atZero' => Size <= 1)
    <3>1. TypeOK'
      BY <1>1, <1>2, <1>4, <2>1 DEF TypeOK, Watched
    <3> QED BY <1>1, <1>2, <1>4, <3>1 DEF IInv, WheelOK
  <2>3. NewInv'
    BY <1>1, <1>2, <1>4 DEF NewInv, Watched
  <2>4. ASSUME now # {} PROVE NoWheel(c)
    <3>1. PICK t \in I : ~Inserted(t)
      BY <2>4
    <3>2. t \in {"write", "all"} \/ (t = "read" /\ (Size = 0 \/ atZero))
      BY <1>2, <1>3, <3>1 DEF Inserted, IdleState
    <3>3. t \in {"write", "all"} \/ Size <= 1
      BY <1>2, <3>2 DEF IInv
    <3> QED BY <1>1, <3>1, <3>3 DEF NoWheel
  <2>5. \/ now # {} /\ (fault' = "inspector" => MayReplace)
        \/ c \in stale /\ I # {} /\ fault' = "inspector"
    <3> HIDE DEF now
    <3>1. \/ /\ now # {}
             /\ fault' \in {"tie"} \cup
                   IF MayReplace /\ \E t \in now : \E u \in interest[c] : Before(t, u)
                   THEN {"inspector"} ELSE {}
          \/ c \in stale /\ interest[c] # {} /\ fault' = "inspector"
      BY <1>1, <1>4 DEF Established, now
    <3> QED BY <3>1
  <2>6. FaultCause'
    <3> HIDE DEF now
    <3>1. NoWheel(c) => NoWheel(c)'
      BY <1>1, <1>4 DEF NoWheel
    <3>2. stale # {} => MayReplace
      BY DEF IInv, StaleInv
    <3> QED BY <1>1, <1>4, <2>1, <2>4, <2>5, <3>1, <3>2 DEF FaultCause
  <2>7. Size > 1 => NewestInv' /\ ReaderInv'
    BY <1>1, <1>4 DEF IInv, NewestInv, ReaderInv, Newest, Watched, Waiting, Done
  <2>8. StaleInv'
    BY <1>1 DEF IInv, StaleInv
  <2> QED BY <2>2, <2>3, <2>6, <2>7, <2>8 DEF IInv
<1>5. CASE /\ phase' = [phase EXCEPT ![c] = "open"]
           /\ told' = [told EXCEPT ![c] = now]
           /\ IF "read" \in I \ now THEN BackInsert(c) ELSE UNCHANGED <<buckets, current>>
           /\ UNCHANGED fault
  <2>1. /\ phase' \in [Channel -> {"new", "built", "open", "closed"}]
        /\ \A d \in Channel : d # c => phase'[d] = phase[d]
        /\ phase'[c] = "open"
    BY <1>2, <1>5 DEF TypeOK
  <2>2. /\ told' \in [Channel -> SUBSET IdleState]
        /\ \A d \in Channel : d # c => told'[d] = told[d]
        /\ told'[c] = now
    <3> HIDE DEF now
    <3> QED BY <1>2, <1>3, <1>5 DEF TypeOK
  <2>3. StaleInv' /\ FaultCause'
    BY <1>1, <1>5 DEF IInv, StaleInv, FaultCause
  <2>4. CASE "read" \in I \ now
    <3>1. Size > 0 /\ BackInsert(c)
      BY <1>5, <2>4 DEF Inserted
    <3>2. WheelOK'
      <4>1. TypeOK'
        <5>1. buckets' \in [1..Size -> SUBSET Channel] /\ current' \subseteq Watched'
          BY <1>2, <3>1, BackInsertWheel, WatchedDefPrime
        <5> HIDE DEF now
        <5> QED BY <1>1, <1>2, <1>5, <2>1, <2>2, <5>1 DEF TypeOK
      <4> QED BY <3>1, <4>1, <1>2, BackInsertWheel DEF WheelOK
    <3>3. NewInv'
      BY <1>1, <1>2, <2>1, <2>2, <3>1, BackInsertWheel DEF NewInv
    <3>4. NewestInv => NewestInv'
      BY <1>2, <3>1, BackInsertNewest
    <3>5. ASSUME Size > 1, ReaderInv PROVE ReaderInv'
      <4> SUFFICES ASSUME NEW d \in Channel, phase'[d] = "open", "read" \in interest'[d]
                   PROVE  (d \in Watched' => Waiting(d)') /\ (d \notin Watched' => Done(d)')
        BY DEF ReaderInv
      <4>1. CASE d = c
        <5>1. quiet'[d] = 0 /\ Size - quiet'[d] = Size /\ d \notin spurious'
          BY <1>1, <1>2, <4>1 DEF NewInv
        <5>2. Newest(d, Size)' /\ d \in Watched'
          BY <1>2, <3>1, <4>1, BackInsertNewest, BackInsertWheel
        <5>3. "read" \notin told'[d]
          BY <2>2, <2>4, <4>1
        <5> QED BY <5>1, <5>2, <5>3 DEF Waiting
      <4>2. CASE d # c
        <5>1. phase[d] = "open" /\ "read" \in interest[d] /\ quiet'[d] = quiet[d]
          BY <1>1, <2>1, <4>2
        <5>2. d \in Watched' <=> d \in Watched
          BY <1>2, <3>1, <4>2, BackInsertWheel
        <5>3. Newest(d, Size - quiet[d]) => Newest(d, Size - quiet[d])'
          BY <1>1, <1>2, <3>1, <4>2, BackInsertNewest
        <5> QED BY <1>1, <2>2, <3>5, <4>2, <5>1, <5>2, <5>3 DEF ReaderInv, Waiting, Done
      <4> QED BY <4>1, <4>2
    <3> QED BY <1>1, <2>3, <3>2, <3>3, <3>4, <3>5 DEF IInv
  <2>5. CASE "read" \notin I \ now
    <3>1. UNCHANGED <<buckets, current>> /\ Watched' = Watched
      BY <1>5, <2>5 DEF Watched
    <3>2. WheelOK'
      <4>1. TypeOK'
        BY <1>1, <1>2, <1>5, <2>1, <2>2, <3>1 DEF TypeOK
      <4> QED BY <3>1, <4>1, <1>2 DEF WheelOK
    <3>3. NewInv'
      BY <1>1, <1>2, <2>1, <2>2, <3>1 DEF NewInv
    <3>4. NewestInv => NewestInv'
      BY <3>1 DEF NewestInv, Newest
    <3>5. ASSUME Size > 1, ReaderInv PROVE ReaderInv'
      <4>1. "read" \notin I
        BY <1>2, <2>5, <3>5 DEF IInv, Inserted
      <4> QED BY <1>1, <2>1, <2>2, <3>1, <3>5, <4>1 DEF ReaderInv, Newest, Waiting, Done
    <3> QED BY <1>1, <2>3, <3>2, <3>3, <3>4, <3>5 DEF IInv
  <2> QED BY <2>4, <2>5
<1>6. \/ UNCHANGED <<phase, told, buckets, current>> /\ fault' # "none"
      \/ /\ phase' = [phase EXCEPT ![c] = "open"]
         /\ told' = [told EXCEPT ![c] = now]
         /\ IF "read" \in I \ now THEN BackInsert(c) ELSE UNCHANGED <<buckets, current>>
         /\ UNCHANGED fault
  BY DEF Established
<1> QED BY <1>4, <1>5, <1>6

LEMMA MessageReceivedInv ==
  ASSUME IInv, NEW c \in Channel, MessageReceived(c)
  PROVE  IInv'
<1>1. TypeOK /\ WheelOK /\ NewInv /\ Size \in Nat
  BY SizeType DEF IInv, WheelOK
<1>2. /\ fault = "none" /\ phase[c] = "open"
      /\ UNCHANGED <<atZero, interest, told, stale, dying, spurious>>
      /\ fault' \in {"none", "inspector"} /\ (fault' = "inspector" => dying # {})
      /\ IF c \in Watched THEN BackInsert(c) ELSE UNCHANGED <<buckets, current>>
  BY DEF MessageReceived
<1>3. /\ quiet' \in [Channel -> 0..(Size + 1)]
      /\ quiet'[c] = IF "read" \in told[c] THEN quiet[c] ELSE 0
      /\ \A d \in Channel : d # c => quiet'[d] = quiet[d]
  <2>1. quiet' = [quiet EXCEPT ![c] = IF "read" \in told[c] THEN @ ELSE 0] /\ quiet \in [Channel -> 0..(Size + 1)]
    BY <1>1 DEF MessageReceived, TypeOK
  <2> QED BY <1>1, <2>1
<1>4. /\ phase' \in [Channel -> {"new", "built", "open", "closed"}]
      /\ \A d \in Channel : phase'[d] = "open" => phase[d] = "open"
      /\ \A d \in Channel : phase'[d] \in {"new", "built"} => phase[d] \in {"new", "built"} /\ d # c
  <2>1. CASE phase' = phase
    BY <1>1, <1>2, <2>1 DEF TypeOK
  <2>2. CASE phase' = [phase EXCEPT ![c] = "closed"]
    BY <1>1, <1>2, <2>2 DEF TypeOK
  <2> QED BY <2>1, <2>2 DEF MessageReceived
<1>5. (atZero' => Size <= 1) /\ StaleInv' /\ FaultCause'
  BY <1>2 DEF IInv, StaleInv, FaultCause
<1>6. CASE c \in Watched
  <2>1. Size > 0 /\ BackInsert(c)
    BY <1>1, <1>2, <1>6, WatchedDef DEF TypeOK
  <2>2. WheelOK'
    <3>1. /\ buckets' \in [1..Size -> SUBSET Channel] /\ current' \subseteq Watched'
          /\ current' = buckets'[Size]
      BY <1>1, <2>1, BackInsertWheel, WatchedDefPrime
    <3>2. TypeOK'
      BY <1>1, <1>2, <1>3, <1>4, <3>1 DEF TypeOK
    <3> QED BY <3>1, <3>2 DEF WheelOK
  <2>3. NewInv'
    BY <1>1, <1>2, <1>3, <1>4, <2>1, BackInsertWheel DEF NewInv
  <2>4. NewestInv => NewestInv'
    BY <1>1, <2>1, BackInsertNewest
  <2>5. ASSUME ReaderInv PROVE ReaderInv'
    <3> SUFFICES ASSUME NEW d \in Channel, phase'[d] = "open", "read" \in interest'[d]
                 PROVE  (d \in Watched' => Waiting(d)') /\ (d \notin Watched' => Done(d)')
      BY DEF ReaderInv
    <3>1. phase[d] = "open" /\ "read" \in interest[d] /\ told'[d] = told[d]
      BY <1>2, <1>4
    <3>2. d \in Watched' <=> d \in Watched
      BY <1>1, <1>6, <2>1, BackInsertWheel
    <3>3. CASE d = c
      <4>1. Waiting(d)
        BY <1>6, <2>5, <3>1, <3>3 DEF ReaderInv
      <4>2. Newest(d, Size)' /\ Size - quiet'[d] = Size
        BY <1>1, <1>3, <2>1, <3>3, <4>1, BackInsertNewest DEF Waiting
      <4> QED BY <1>2, <1>6, <3>1, <3>2, <3>3, <4>1, <4>2 DEF Waiting
    <3>4. CASE d # c
      <4>1. Newest(d, Size - quiet[d]) => Newest(d, Size - quiet[d])'
        BY <1>1, <1>3, <2>1, <3>4, BackInsertNewest
      <4> QED BY <1>2, <1>3, <2>5, <3>1, <3>2, <3>4, <4>1 DEF ReaderInv, Waiting, Done
    <3> QED BY <3>3, <3>4
  <2> QED BY <1>5, <2>2, <2>3, <2>4, <2>5 DEF IInv
<1>7. CASE c \notin Watched
  <2>1. UNCHANGED <<buckets, current>> /\ Watched' = Watched
    BY <1>2, <1>7 DEF Watched
  <2>2. WheelOK'
    <3>1. TypeOK'
      BY <1>1, <1>2, <1>3, <1>4, <2>1 DEF TypeOK
    <3> QED BY <1>1, <2>1, <3>1 DEF WheelOK
  <2>3. NewInv'
    BY <1>1, <1>2, <1>3, <1>4, <2>1 DEF NewInv
  <2>4. NewestInv => NewestInv'
    BY <2>1 DEF NewestInv, Newest
  <2>5. ASSUME ReaderInv PROVE ReaderInv'
    <3> SUFFICES ASSUME NEW d \in Channel, phase'[d] = "open", "read" \in interest'[d]
                 PROVE  (d \in Watched' => Waiting(d)') /\ (d \notin Watched' => Done(d)')
      BY DEF ReaderInv
    <3>1. phase[d] = "open" /\ "read" \in interest[d] /\ told'[d] = told[d]
      BY <1>2, <1>4
    <3>2. CASE d = c
      BY <1>2, <1>3, <1>7, <2>1, <2>5, <3>1, <3>2 DEF ReaderInv, Done
    <3>3. CASE d # c
      BY <1>2, <1>3, <2>1, <2>5, <3>1, <3>3 DEF ReaderInv, Newest, Waiting, Done
    <3> QED BY <3>2, <3>3
  <2> QED BY <1>5, <2>2, <2>3, <2>4, <2>5 DEF IInv
<1> QED BY <1>6, <1>7

(* What Tell() does: the channels of C are told, and some of them close.   *)
LEMMA TellFacts ==
  ASSUME TypeOK, NEW C \in SUBSET Open, Tell(C)
  PROVE  /\ told' \in [Channel -> SUBSET IdleState]
         /\ \A c \in C : told'[c] = told[c] \cup {"read"}
         /\ \A c \in Channel \ C : told'[c] = told[c]
         /\ phase' \in [Channel -> {"new", "built", "open", "closed"}]
         /\ \A c \in Channel : phase'[c] = "open" => phase[c] = "open"
         /\ \A c \in Channel : phase'[c] \in {"new", "built"} => phase[c] \in {"new", "built"} /\ c \notin C
<1>1. C \subseteq Channel /\ \A c \in C : phase[c] = "open"
  BY DEF Open
<1>2. /\ told' \in [Channel -> SUBSET IdleState]
      /\ \A c \in C : told'[c] = told[c] \cup {"read"}
      /\ \A c \in Channel \ C : told'[c] = told[c]
  BY <1>1 DEF Tell, TypeOK, IdleState
<1>3. PICK D \in SUBSET C : phase' = [c \in Channel |-> IF c \in D THEN "closed" ELSE phase[c]]
  BY DEF Tell
<1>4. /\ phase' \in [Channel -> {"new", "built", "open", "closed"}]
      /\ \A c \in Channel : phase'[c] = "open" => phase[c] = "open"
      /\ \A c \in Channel : phase'[c] \in {"new", "built"} => phase[c] \in {"new", "built"} /\ c \notin C
  BY <1>1, <1>3 DEF TypeOK
<1> QED BY <1>2, <1>4

(* Which channels inspect() tells: those whose newest bucket is the oldest.*)
Idling == {c \in Open : Size > 0 /\ c \in buckets[1]
                         /\ \A i \in 2..Size : c \notin buckets[i]}

LEMMA IdlingDef ==
  ASSUME WheelOK, NEW c \in Open, NEW i, Newest(c, i)
  PROVE  c \in Idling <=> i = 1
<1>1. i \in 1..Size /\ Size \in Nat
  BY SizeType DEF Newest
<1>2. ASSUME i = 1 PROVE c \in Idling
  BY <1>1, <1>2 DEF Idling, Newest
<1>3. ASSUME i # 1 PROVE c \notin Idling
  <2>1. i \in 2..Size /\ c \in buckets[i]
    BY <1>1, <1>3 DEF Newest
  <2> QED BY <2>1 DEF Idling
<1> QED BY <1>2, <1>3

LEMMA InspectInv ==
  ASSUME IInv, Inspect
  PROVE  IInv'
<1>1. TypeOK /\ WheelOK /\ NewInv /\ Size \in Nat
  BY SizeType DEF IInv, WheelOK
<1>2. /\ Turn /\ Tell(Idling) /\ Idling \in SUBSET Open
      /\ UNCHANGED <<interest, stale, dying, spurious>> /\ fault = "none"
      /\ fault' \in {"none", "inspector"}
      /\ fault' = "inspector" => MayReplace /\ Idling # {}
  BY DEF Inspect, Idling
<1>3. /\ told' \in [Channel -> SUBSET IdleState]
      /\ \A c \in Idling : told'[c] = told[c] \cup {"read"}
      /\ \A c \in Channel \ Idling : told'[c] = told[c]
      /\ phase' \in [Channel -> {"new", "built", "open", "closed"}]
      /\ \A c \in Channel : phase'[c] = "open" => phase[c] = "open"
      /\ \A c \in Channel : phase'[c] \in {"new", "built"} => phase[c] \in {"new", "built"} /\ c \notin Idling
  BY <1>1, <1>2, TellFacts
<1>4. quiet' = [c \in Channel |->
                  IF c \in Open /\ quiet[c] <= Size /\ "read" \notin told[c]
                  THEN quiet[c] + 1 ELSE quiet[c]]
  BY DEF Inspect
<1>5. quiet' \in [Channel -> 0..(Size + 1)]
  BY <1>1, <1>4 DEF TypeOK
<1>6. WheelOK'
  <2>1. /\ buckets' \in [1..Size -> SUBSET Channel]
        /\ current' = {} /\ atZero' = FALSE
        /\ Size > 0 => buckets'[Size] = {}
    BY <1>1, <1>2, TurnWheel DEF Turn
  <2>2. TypeOK'
    BY <1>1, <1>2, <1>3, <1>5, <2>1 DEF TypeOK
  <2> QED BY <2>1, <2>2 DEF WheelOK
<1>7. NewInv'
  <2> SUFFICES ASSUME NEW c \in Channel, phase'[c] \in {"new", "built"}
               PROVE  c \notin Watched' /\ quiet'[c] = 0 /\ told'[c] = {} /\ c \notin spurious'
    BY DEF NewInv
  <2>1. phase[c] \in {"new", "built"} /\ c \notin Idling /\ c \notin Open
    BY <1>3 DEF Open
  <2>2. c \notin Watched'
    BY <1>1, <1>2, <2>1, TurnWheel DEF NewInv
  <2>3. quiet'[c] = 0
    BY <1>1, <1>4, <2>1 DEF NewInv
  <2> QED BY <1>1, <1>2, <1>3, <2>1, <2>2, <2>3 DEF NewInv
<1>8. (atZero' => Size <= 1) /\ StaleInv' /\ FaultCause'
  BY <1>2, <1>3 DEF Turn, IInv, StaleInv, FaultCause, Idling, Open
<1>9. ASSUME NewestInv PROVE NewestInv'
  <2> SUFFICES ASSUME NEW c \in Watched' PROVE \E i \in 1..Size : Newest(c, i)'
    BY DEF NewestInv
  <2>1. PICK i \in 1..Size : Newest(c, i)
    BY <1>1, <1>2, <1>9, TurnWheel DEF NewestInv
  <2>2. i > 1
    BY <1>1, <1>2, <2>1, TurnNewest
  <2>3. Newest(c, i - 1)' /\ i - 1 \in 1..Size
    BY <1>1, <1>2, <2>1, <2>2, TurnNewest
  <2> QED BY <2>3
<1>10. ASSUME ReaderInv PROVE ReaderInv'
  <2> SUFFICES ASSUME NEW c \in Channel, phase'[c] = "open", "read" \in interest'[c]
               PROVE  (c \in Watched' => Waiting(c)') /\ (c \notin Watched' => Done(c)')
    BY DEF ReaderInv
  <2>1. c \in Open /\ phase[c] = "open" /\ "read" \in interest[c]
    BY <1>2, <1>3 DEF Open
  <2>2. CASE c \notin Watched
    <3>1. Done(c) /\ c \notin Watched' /\ c \in Channel
      BY <1>1, <1>2, <1>10, <2>1, <2>2, TurnWheel DEF ReaderInv
    <3>2. "read" \in told'[c]
      BY <1>3, <3>1 DEF Done
    <3>3. quiet'[c] = quiet[c]
      BY <1>4, <3>1 DEF Done
    <3> QED BY <1>2, <3>1, <3>2, <3>3 DEF Done
  <2>3. CASE c \in Watched
    <3>1. "read" \notin told[c] /\ c \notin spurious /\ Newest(c, Size - quiet[c])
      BY <1>10, <2>1, <2>3 DEF ReaderInv, Waiting
    <3>2. quiet[c] \in 0..(Size - 1) /\ Size - quiet[c] \in 1..Size
      BY <1>1, <3>1 DEF Newest, TypeOK
    <3>3. quiet'[c] = quiet[c] + 1
      BY <1>1, <1>4, <2>1, <3>1, <3>2
    <3>4. CASE Size - quiet[c] = 1
      <4>1. c \notin Watched' /\ c \in Idling
        BY <1>1, <1>2, <2>1, <3>1, <3>4, TurnNewest, IdlingDef
      <4>2. quiet'[c] >= Size
        BY <1>1, <3>2, <3>3, <3>4
      <4> QED BY <1>3, <4>1, <4>2 DEF Done
    <3>5. CASE Size - quiet[c] > 1
      <4>1. PICK k : k = Size - quiet[c]
        OBVIOUS
      <4>2. Newest(c, k - 1)' /\ k - 1 = Size - quiet'[c]
        BY <1>1, <1>2, <3>1, <3>2, <3>3, <3>5, <4>1, TurnNewest
      <4>3. \A n : n = Size - quiet'[c] => Newest(c, n)'
        BY <4>2
      <4>4. c \in Watched'
        BY <1>6, <4>2, WatchedDefPrime DEF WheelOK, TypeOK, Newest
      <4>5. c \notin Idling
        BY <1>1, <2>1, <3>1, <3>5, IdlingDef
      <4> QED BY <1>2, <1>3, <3>1, <4>3, <4>4, <4>5 DEF Waiting
    <3> QED BY <1>1, <3>2, <3>4, <3>5
  <2> QED BY <2>2, <2>3
<1> QED BY <1>6, <1>7, <1>8, <1>9, <1>10 DEF IInv

LEMMA CloseInv ==
  ASSUME IInv, NEW c \in Channel, Close(c)
  PROVE  IInv'
<1>1. TypeOK /\ WheelOK /\ NewInv
  BY DEF IInv, WheelOK
<1>2. /\ fault = "none"
      /\ fault' \in {"none", "inspector"} /\ (fault' = "inspector" => dying # {})
      /\ UNCHANGED <<buckets, atZero, current, interest, told, stale, dying, quiet, spurious>>
      /\ Watched' = Watched
  BY DEF Close, wheel, Watched
<1>3. /\ phase' \in [Channel -> {"new", "built", "open", "closed"}]
      /\ \A d \in Channel : phase'[d] = "open" => phase[d] = "open"
      /\ \A d \in Channel : phase'[d] \in {"new", "built"} => phase[d] \in {"new", "built"}
  BY <1>1 DEF Close, TypeOK
<1>4. WheelOK'
  <2>1. TypeOK'
    BY <1>1, <1>2, <1>3 DEF TypeOK
  <2> QED BY <1>1, <1>2, <2>1 DEF WheelOK
<1>5. NewInv' /\ StaleInv' /\ FaultCause'
  BY <1>1, <1>2, <1>3 DEF NewInv, IInv, StaleInv, FaultCause
<1>6. (NewestInv => NewestInv') /\ (ReaderInv => ReaderInv')
  BY <1>2, <1>3 DEF NewestInv, ReaderInv, Newest, Waiting, Done
<1> QED BY <1>2, <1>4, <1>5, <1>6 DEF IInv

(* A new inspector: nobody is watched, and whoever was is told, now or     *)
(* while the old one is freed.                                             *)
LEMMA NewInspectorInv ==
  ASSUME IInv, NewInspector, dying' \subseteq Channel,
         told' \in [Channel -> SUBSET IdleState],
         \A c \in Channel : told'[c] = IF c \in Watched \cap Open THEN told[c] \cup {"read"} ELSE told[c],
         phase' \in [Channel -> {"new", "built", "open", "closed"}],
         \A c \in Channel : phase'[c] = "open" => phase[c] = "open",
         \A c \in Channel : phase'[c] \in {"new", "built"} =>
             phase[c] \in {"new", "built"} /\ c \notin Open
  PROVE  IInv'
<1>1. TypeOK /\ WheelOK /\ NewInv /\ Size \in Nat
  BY SizeType DEF IInv, WheelOK
<1>2. /\ fault = "none" /\ MayReplace
      /\ stale' = stale \cup {c \in Channel : phase[c] = "built"}
      /\ spurious' = spurious \cup (Watched \cap Open)
      /\ UNCHANGED <<interest, fault, quiet>>
  BY DEF NewInspector
<1>3. /\ buckets' = Empty /\ current' = {} /\ Watched' = {}
      /\ buckets' \in [1..Size -> SUBSET Channel]
  BY EmptyWatched DEF NewInspector
<1>4. (atZero' => Size <= 1) /\ atZero' \in BOOLEAN
  <2>1. atZero' = (Size <= 1)
    BY DEF NewInspector
  <2>2. atZero' \in BOOLEAN
    BY ONLY <2>1
  <2> QED BY <2>1, <2>2
<1>5. WheelOK'
  <2>1. TypeOK'
    <3>1. spurious' \subseteq Channel /\ stale' \subseteq Channel
      BY <1>1, <1>2 DEF TypeOK, Open
    <3> QED BY <1>1, <1>2, <1>3, <1>4, <3>1 DEF TypeOK
  <2>2. Size > 0 => buckets'[Size] = {}
    BY <1>1, <1>3 DEF Empty
  <2> QED BY <1>3, <2>1, <2>2 DEF WheelOK
<1>6. NewInv' /\ StaleInv' /\ FaultCause'
  BY <1>1, <1>2, <1>3 DEF NewInv, StaleInv, FaultCause
<1>7. NewestInv'
  BY <1>3 DEF NewestInv
<1>8. ReaderInv => ReaderInv'
  <2> SUFFICES ASSUME ReaderInv, NEW c \in Channel, phase'[c] = "open", "read" \in interest'[c]
               PROVE  Done(c)'
    BY <1>3 DEF ReaderInv
  <2>1. phase[c] = "open" /\ "read" \in interest[c] /\ c \in Open
    BY <1>2 DEF Open
  <2>2. c \notin Watched => Done(c)
    BY <2>1 DEF ReaderInv
  <2> QED BY <1>2, <2>1, <2>2 DEF Done
<1> QED BY <1>4, <1>5, <1>6, <1>7, <1>8 DEF IInv

LEMMA ReplaceInv ==
  ASSUME IInv, Replace
  PROVE  IInv'
<1> DEFINE C == Watched \cap Open
<1>1. TypeOK /\ NewInspector /\ Tell(C) /\ C \in SUBSET Open /\ dying' \subseteq Channel
  BY DEF Replace, IInv, WheelOK, TypeOK
<1>2. /\ told' \in [Channel -> SUBSET IdleState]
      /\ \A c \in C : told'[c] = told[c] \cup {"read"}
      /\ \A c \in Channel \ C : told'[c] = told[c]
      /\ phase' \in [Channel -> {"new", "built", "open", "closed"}]
      /\ \A c \in Channel : phase'[c] = "open" => phase[c] = "open"
      /\ \A c \in Channel : phase'[c] \in {"new", "built"} => phase[c] \in {"new", "built"} /\ c \notin C
  <2> HIDE DEF C
  <2> QED BY <1>1, TellFacts
<1>3. \A c \in Channel : phase'[c] \in {"new", "built"} => c \notin Open
  BY <1>2 DEF Open
<1> QED BY <1>1, <1>2, <1>3, NewInspectorInv

LEMMA ReplaceStartsInv ==
  ASSUME IInv, ReplaceStarts
  PROVE  IInv'
<1>1. /\ NewInspector /\ dying' = Watched \cap Open /\ UNCHANGED phase
      /\ told' = [c \in Channel |-> IF c \in Watched \cap Open THEN told[c] \cup {"read"} ELSE told[c]]
  BY DEF ReplaceStarts
<1>2. told' \in [Channel -> SUBSET IdleState] /\ dying' \subseteq Channel
  BY <1>1 DEF IInv, WheelOK, TypeOK, IdleState, Open
<1>3. /\ phase' \in [Channel -> {"new", "built", "open", "closed"}]
      /\ \A c \in Channel : phase'[c] \in {"new", "built"} =>
             phase[c] \in {"new", "built"} /\ c \notin Open
  BY <1>1 DEF IInv, WheelOK, TypeOK, Open
<1> QED BY <1>1, <1>2, <1>3, NewInspectorInv

LEMMA ReplaceEndsInv ==
  ASSUME IInv, ReplaceEnds
  PROVE  IInv'
<1>1. /\ fault = "none" /\ dying' = {}
      /\ UNCHANGED <<buckets, atZero, current, phase, interest, told, stale, fault, quiet, spurious>>
      /\ Watched' = Watched
  BY DEF ReplaceEnds, wheel, Watched
<1>2. WheelOK'
  BY <1>1 DEF IInv, WheelOK, TypeOK
<1>3. NewInv' /\ StaleInv' /\ FaultCause'
  BY <1>1 DEF IInv, NewInv, StaleInv, FaultCause
<1>4. (NewestInv => NewestInv') /\ (ReaderInv => ReaderInv')
  BY <1>1 DEF NewestInv, ReaderInv, Newest, Waiting, Done
<1> QED BY <1>1, <1>2, <1>3, <1>4 DEF IInv

LEMMA SpecInv == Spec => []IInv
<1>1. IInv /\ [Next]_vars => IInv'
  <2>1. IInv /\ UNCHANGED vars => IInv'
    BY DEF vars, wheel, IInv, WheelOK, TypeOK, NewInv, StaleInv, FaultCause, NoWheel, NewestInv,
           ReaderInv, Newest, Waiting, Done, Watched
  <2> QED BY <2>1, NewChannelInv, EstablishedInv, MessageReceivedInv, InspectInv, CloseInv,
             ReplaceInv, ReplaceStartsInv, ReplaceEndsInv DEF Next
<1> QED BY <1>1, InitInv, PTL DEF Spec
-----------------------------------------------------------------------------
(* An open channel that asked for read idleness has been told exactly when *)
(* it was silent for Size ticks, or its inspector was replaced, for any    *)
(* channels and timeouts.                                                  *)
THEOREM ToldInTime == Spec => []TellsInTime
<1>1. IInv => TellsInTime
  <2> SUFFICES ASSUME IInv, Size > 1, NEW c \in Open, "read" \in interest[c]
               PROVE  /\ "read" \in told[c] <=> quiet[c] >= Size \/ c \in spurious
                      /\ c \in Watched <=> "read" \notin told[c]
    BY DEF IInv, TellsInTime
  <2>1. c \in Channel /\ phase[c] = "open"
    BY DEF Open
  <2>2. CASE c \notin Watched
    BY <2>1, <2>2 DEF IInv, ReaderInv, Done
  <2>3. CASE c \in Watched
    <3>1. "read" \notin told[c] /\ c \notin spurious /\ Newest(c, Size - quiet[c])
      BY <2>1, <2>3 DEF IInv, ReaderInv, Waiting
    <3>2. quiet[c] \in 0..(Size + 1)
      BY <2>1 DEF IInv, WheelOK, TypeOK
    <3>3. ~(quiet[c] >= Size)
      BY <3>1, <3>2, SizeType DEF Newest
    <3> QED BY <2>3, <3>1, <3>3
  <2> QED BY <2>2, <2>3
<1> QED BY <1>1, SpecInv, PTL

(* The program breaks in tie() only for an idle state without a wheel, or  *)
(* with a wheel of at most one second; a freed inspector is used only when *)
(* connect() is called again while a channel opens, while entries die in   *)
(* another thread, or from an idle callback.                               *)
THEOREM FaultsHaveCauses == Spec => []FaultCause
<1>1. IInv => FaultCause
  BY DEF IInv
<1> QED BY <1>1, SpecInv, PTL
-----------------------------------------------------------------------------
(* The ticks left are the index of the newest bucket.                      *)

LEMMA LeftNewest ==
  ASSUME NEW c \in Channel, NEW i, Newest(c, i), WheelOK
  PROVE  Left[c] = i
<1>1. c \in Watched
  BY WatchedDef DEF Newest, WheelOK, TypeOK
<1> DEFINE P(k) == c \in buckets[k] /\ \A j \in (k + 1)..Size : c \notin buckets[j]
           k0 == CHOOSE k \in 1..Size : P(k)
<1>2. Left[c] = k0
  BY <1>1 DEF Left
<1>3. i \in 1..Size /\ P(i)
  BY DEF Newest
<1>4. k0 \in 1..Size /\ P(k0)
  <2> HIDE DEF P
  <2> QED BY <1>3
<1>5. Newest(c, k0)
  BY <1>4 DEF Newest
<1> HIDE DEF k0
<1> QED BY <1>2, <1>5, NewestUnique

LEMMA NewestUniquePrime ==
  ASSUME NEW c, NEW i, NEW k, Newest(c, i)', Newest(c, k)'
  PROVE  i = k
BY SizeType DEF Newest

LEMMA LeftNewestPrime ==
  ASSUME NEW c \in Channel, NEW i, Newest(c, i)', WheelOK'
  PROVE  Left'[c] = i
<1>1. c \in Watched'
  BY WatchedDefPrime DEF Newest, WheelOK, TypeOK
<1> DEFINE P(k) == c \in buckets'[k] /\ \A j \in (k + 1)..Size : c \notin buckets'[j]
           k0 == CHOOSE k \in 1..Size : P(k)
<1>2. Left'[c] = k0
  BY <1>1 DEF Left
<1>3. i \in 1..Size /\ P(i)
  BY DEF Newest
<1>4. k0 \in 1..Size /\ P(k0)
  <2> HIDE DEF P
  <2> QED BY <1>3
<1>5. \A k : k = k0 => Newest(c, k)'
  BY <1>4 DEF Newest
<1> HIDE DEF k0
<1> QED BY <1>2, <1>5, NewestUniquePrime

LEMMA LeftUnwatched ==
  ASSUME NEW c \in Channel, c \notin Watched
  PROVE  Left[c] = 0
BY DEF Left

LEMMA LeftSame ==
  ASSUME UNCHANGED buckets
  PROVE  Left' = Left
BY DEF Left, Watched

LEMMA LeftWatched ==
  ASSUME WheelOK, NewestInv, NEW c \in Channel, c \in Watched
  PROVE  Left[c] \in 1..Size /\ Newest(c, Left[c])
<1>1. PICK i \in 1..Size : Newest(c, i)
  BY DEF NewestInv
<1> QED BY <1>1, LeftNewest

LEMMA LeftBackInsert ==
  ASSUME WheelOK, WheelOK', NewestInv, NewestInv', Size > 0,
         NEW c \in Channel, BackInsert(c)
  PROVE  Left' = [Left EXCEPT ![c] = Size]
<1>1. ASSUME NEW d \in Channel PROVE Left'[d] = IF d = c THEN Size ELSE Left[d]
  <2>1. CASE d = c
    BY <2>1, BackInsertNewest, LeftNewestPrime
  <2>2. CASE d # c /\ d \in Watched
    <3>1. PICK i \in 1..Size : Newest(d, i)
      BY <2>2 DEF NewestInv
    <3> QED BY <2>2, <3>1, BackInsertNewest, LeftNewest, LeftNewestPrime
  <2>3. CASE d # c /\ d \notin Watched
    BY <2>3, BackInsertWheel, LeftUnwatched DEF Left
  <2> QED BY <2>1, <2>2, <2>3
<1>2. Left' = [d \in Channel |-> Left'[d]] /\ Left = [d \in Channel |-> Left[d]]
  BY DEF Left
<1> QED BY <1>1, <1>2

LEMMA LeftTurn ==
  ASSUME WheelOK, WheelOK', NewestInv, Turn
  PROVE  Left' = [c \in Channel |-> IF Left[c] > 0 THEN Left[c] - 1 ELSE 0]
<1>1. ASSUME NEW c \in Channel PROVE Left'[c] = IF Left[c] > 0 THEN Left[c] - 1 ELSE 0
  <2>1. CASE c \in Watched
    <3>1. PICK i \in 1..Size : Newest(c, i)
      BY <2>1 DEF NewestInv
    <3>2. Left[c] = i
      BY <3>1, LeftNewest
    <3>3. CASE i = 1
      <4>1. c \notin Watched' /\ Left[c] = 1
        BY <3>1, <3>2, <3>3, TurnNewest
      <4>2. Left'[c] = 0
        BY <4>1 DEF Left
      <4> QED BY <4>1, <4>2
    <3>4. CASE i > 1
      BY <3>1, <3>2, <3>4, TurnNewest, LeftNewestPrime
    <3> QED BY <3>3, <3>4, SizeType
  <2>2. CASE c \notin Watched
    <3>1. c \notin Watched' /\ Left[c] = 0
      BY <2>2, TurnWheel, LeftUnwatched
    <3> QED BY <3>1 DEF Left
  <2> QED BY <2>1, <2>2
<1>2. Left' = [c \in Channel |-> Left'[c]]
  BY DEF Left
<1> QED BY <1>1, <1>2
-----------------------------------------------------------------------------
(* A wheel of more than one bucket is an idle detector.                    *)

Idle == {c \in Channel : "read" \in told[c]}

LEMMA DetectorInit == Init => Detector!Init
<1> SUFFICES ASSUME Init PROVE Left = [c \in Channel |-> 0] /\ Idle = {}
  BY DEF Detector!Init, Idle
<1>1. Watched = {}
  BY DEF Init, Empty, Watched
<1> QED BY <1>1 DEF Init, Left, Idle

LEMMA EstablishedWatches ==
  ASSUME IInv, IInv', Size > 1, NEW c \in Channel, Established(c)
  PROVE  Detector!Watch(c) \/ UNCHANGED <<Left, Idle>>
<1> DEFINE now == {t \in interest[c] : ~Inserted(t)}
<1>1. CASE UNCHANGED <<told, buckets>>
  BY <1>1, LeftSame DEF Idle
<1>2. CASE /\ told' = [told EXCEPT ![c] = now]
           /\ BackInsert(c) \/ UNCHANGED buckets
  <2>1. "read" \notin now
    BY SizeType DEF IInv, Inserted
  <2>2. c \notin Watched /\ told[c] = {} /\ told \in [Channel -> SUBSET IdleState]
    BY DEF IInv, NewInv, Established, WheelOK, TypeOK
  <2>3. Idle' = Idle /\ c \notin Idle
    <3> HIDE DEF now
    <3> QED BY <1>2, <2>1, <2>2 DEF Idle
  <2>4. CASE BackInsert(c)
    <3>1. Left[c] = 0 /\ Left' = [Left EXCEPT ![c] = Size]
      BY <2>2, <2>4, LeftUnwatched, LeftBackInsert, SizeType DEF IInv
    <3> QED BY <2>3, <3>1 DEF Detector!Watch, Idle
  <2>5. CASE UNCHANGED buckets
    BY <2>3, <2>5, LeftSame
  <2> QED BY <1>2, <2>4, <2>5
<1> QED BY <1>1, <1>2 DEF Established

LEMMA MessageReceivedWinds ==
  ASSUME IInv, IInv', Size > 1, NEW c \in Channel, MessageReceived(c)
  PROVE  Detector!Traffic(c) \/ UNCHANGED <<Left, Idle>>
<1>1. Idle' = Idle
  BY DEF MessageReceived, Idle
<1>2. CASE c \in Watched
  <2>1. BackInsert(c)
    BY <1>2 DEF MessageReceived
  <2>2. Left[c] > 0 /\ Left' = [Left EXCEPT ![c] = Size]
    BY <1>2, <2>1, LeftWatched, LeftBackInsert, SizeType DEF IInv
  <2> QED BY <1>1, <2>2 DEF Detector!Traffic, Idle
<1>3. CASE c \notin Watched
  BY <1>1, <1>3, LeftSame DEF MessageReceived
<1> QED BY <1>2, <1>3

LEMMA InspectTicks ==
  ASSUME IInv, IInv', Size > 1, Inspect
  PROVE  Detector!Tick
<1>1. Turn /\ Tell(Idling) /\ Idling \in SUBSET Open /\ Idling \subseteq Channel
  BY DEF Inspect, Idling, Open
<1>2. Left' = [c \in Channel |-> IF Left[c] > 0 THEN Left[c] - 1 ELSE 0]
  BY <1>1, LeftTurn DEF IInv
<1>3. Idling \in SUBSET {c \in Channel : Left[c] = 1}
  <2>1. ASSUME NEW c \in Idling PROVE Left[c] = 1
    <3>1. c \in buckets[1] /\ c \in Channel /\ c \in Open
      BY <1>1 DEF Idling
    <3>2. c \in Watched
      BY <3>1, WatchedDef, SizeType DEF IInv, WheelOK, TypeOK
    <3>3. PICK i \in 1..Size : Newest(c, i)
      BY <3>2 DEF IInv, NewestInv
    <3> QED BY <3>1, <3>3, IdlingDef, LeftNewest DEF IInv
  <2> QED BY <1>1, <2>1
<1>4. Idle' = Idle \cup Idling
  <2>1. /\ \A c \in Idling : told'[c] = told[c] \cup {"read"}
        /\ \A c \in Channel \ Idling : told'[c] = told[c]
    BY <1>1, TellFacts DEF IInv, WheelOK
  <2> QED BY <1>1, <2>1 DEF Idle
<1> QED BY <1>2, <1>3, <1>4 DEF Detector!Tick, Idle

LEMMA NewInspectorResets ==
  ASSUME IInv, IInv', Size > 1, NewInspector,
         \A c \in Channel : told'[c] = IF c \in Watched \cap Open THEN told[c] \cup {"read"} ELSE told[c]
  PROVE  Detector!Reset
<1> DEFINE C == Watched \cap Open
<1>1. C \subseteq Channel /\ C \subseteq Watched
  BY DEF Open
<1>2. Left' = [c \in Channel |-> 0]
  <2>1. Watched' = {}
    BY EmptyWatched DEF NewInspector
  <2> QED BY <2>1 DEF Left
<1>3. C \in SUBSET {c \in Channel : Left[c] > 0}
  BY <1>1, LeftWatched DEF IInv
<1>4. Idle' = Idle \cup C
  BY <1>1 DEF Idle
<1> QED BY <1>2, <1>3, <1>4 DEF Detector!Reset, Idle

LEMMA ReplaceResets ==
  ASSUME IInv, IInv', Size > 1, Replace \/ ReplaceStarts
  PROVE  Detector!Reset
<1> DEFINE C == Watched \cap Open
<1>1. C \in SUBSET Open /\ NewInspector
  BY DEF Replace, ReplaceStarts
<1>2. \A c \in Channel : told'[c] = IF c \in C THEN told[c] \cup {"read"} ELSE told[c]
  <2>1. CASE Replace
    <3>1. Tell(C)
      BY <2>1 DEF Replace
    <3> HIDE DEF C
    <3> QED BY <1>1, <3>1, TellFacts DEF IInv, WheelOK
  <2>2. CASE ReplaceStarts
    BY <2>2 DEF ReplaceStarts
  <2> QED BY <2>1, <2>2
<1> QED BY <1>1, <1>2, NewInspectorResets

(* The wheel with its buckets implements the detector that counts ticks,   *)
(* when it has more than one bucket: each of its steps is one of the       *)
(* detector's or none.  (With one bucket a channel is told as it opens.)   *)
THEOREM WheelDetectsIdleness ==
  ASSUME Size > 1
  PROVE  Spec => ImplementsDetector
<1>1. IInv /\ IInv' /\ [Next]_vars => [Detector!Next]_(Detector!vars)
  <2> SUFFICES ASSUME IInv, IInv', [Next]_vars
               PROVE  Detector!Next \/ UNCHANGED <<Left, Idle>>
    BY DEF Detector!vars, Idle
  <2>1. ASSUME NEW c \in Channel, Established(c) PROVE Detector!Next \/ UNCHANGED <<Left, Idle>>
    BY <2>1, EstablishedWatches DEF Detector!Next
  <2>2. ASSUME NEW c \in Channel, MessageReceived(c) PROVE Detector!Next \/ UNCHANGED <<Left, Idle>>
    BY <2>2, MessageReceivedWinds DEF Detector!Next
  <2>3. ASSUME NEW c \in Channel, Close(c) PROVE UNCHANGED <<Left, Idle>>
    BY <2>3, LeftSame DEF Close, wheel, Idle
  <2>4. CASE Inspect
    BY <2>4, InspectTicks DEF Detector!Next
  <2>5. CASE Replace \/ ReplaceStarts
    BY <2>5, ReplaceResets DEF Detector!Next
  <2>7. ASSUME NEW c \in Channel, NewChannel(c) PROVE UNCHANGED <<Left, Idle>>
    BY <2>7, LeftSame DEF NewChannel, wheel, Idle
  <2>8. CASE ReplaceEnds
    BY <2>8, LeftSame DEF ReplaceEnds, wheel, Idle
  <2>6. CASE UNCHANGED vars
    BY <2>6, LeftSame DEF vars, wheel, Idle
  <2> QED BY <2>1, <2>2, <2>3, <2>4, <2>5, <2>6, <2>7, <2>8 DEF Next
<1>2. Spec => []IInv
  BY SpecInv
<1>3. Init => Detector!Init
  BY DetectorInit
<1> QED BY <1>1, <1>2, <1>3, PTL DEF Spec, ImplementsDetector, Detector!Spec
=============================================================================

---------------------------- MODULE Buffers_proofs ----------------------------
(***************************************************************************)
(* Theorems about who owns an evbuffer, for any number of Bytebufs and     *)
(* evbuffers and any contents.                                             *)
(*                                                                         *)
(* A Bytebuf that has a pointer has a live evbuffer to itself and will     *)
(* free it unless it is the bufferevent's: that is what every move, swap   *)
(* and destruction keeps, and it leaves the null pointers of moved-from    *)
(* Bytebufs as the only thing that a call can stumble over.                *)
(*                                                                         *)
(* Then theorems about a Buffer, for any page, sizes and bytes: its window *)
(* lies inside its memory and holds what was appended and not yet taken,   *)
(* through every reallocate() and deallocate(), until one of the calls     *)
(* that BrokenCause names spoils it.                                       *)
(***************************************************************************)
EXTENDS Bytebuf, Buffer, FiniteSetTheorems, SequenceTheorems, WellFoundedInduction, TLAPS

OwnInv ==
    /\ \A b \in built : evbuffer[b] \in Ev =>
          evbuffer[b] \in live /\ (alloc[b] <=> evbuffer[b] # Lent)
    /\ \A a, b \in built : evbuffer[a] = evbuffer[b] /\ evbuffer[a] # None => a = b
    /\ \A e \in live \ {Lent} : \E b \in built : evbuffer[b] = e
    /\ Lent \in live \/ overwritten

IInv ==
    /\ TypeOK
    /\ fault = "none" => OwnInv
    /\ FaultCause

OwnType ==
    /\ built \subseteq Buf
    /\ evbuffer \in [Buf -> Ev \cup {None}]
    /\ alloc \in [Buf -> BOOLEAN]
    /\ live \subseteq Ev
    /\ overwritten \in BOOLEAN

BytesOK == bytes \in [Ev -> Seq({"own", "shared"})]

FaultOK == fault \in {"none", "null", "freed", "overrun", "lost"}

LEMMA TypeGroups == TypeOK <=> OwnType /\ BytesOK /\ FaultOK
BY DEF TypeOK, OwnType, BytesOK, FaultOK
-----------------------------------------------------------------------------
(* Facts about contents.                                                   *)

LEMMA NoBytes == <<>> \in Seq({"own", "shared"})
OBVIOUS

LEMMA OwnBytes ==
  ASSUME NEW n \in Nat, NEW x \in {"own", "shared"}
  PROVE  [i \in 1..n |-> x] \in Seq({"own", "shared"})
OBVIOUS

LEMMA PartType ==
  ASSUME NEW S, NEW s \in Seq(S), NEW n \in 0..Len(s)
  PROVE  SubSeq(s, 1, n) \in Seq(S) /\ Rest(s, n) \in Seq(S)
<1>1. Len(s) \in Nat /\ DOMAIN s = 1..Len(s)
  OBVIOUS
<1>2. \A i \in 1..n : s[i] \in S
  BY <1>1
<1>3. \A i \in (n + 1)..Len(s) : s[i] \in S
  BY <1>1
<1> QED BY <1>1, <1>2, <1>3, SubSeqProperties DEF Rest

LEMMA MinOfTwo ==
  ASSUME NEW m \in Nat, NEW n \in Nat
  PROVE  Min({m, n}) \in Nat /\ Min({m, n}) <= n
<1>1. \E x \in {m, n} : \A y \in {m, n} : x <= y
  BY m <= n \/ n <= m
<1>2. Min({m, n}) \in {m, n} /\ \A y \in {m, n} : Min({m, n}) <= y
  BY <1>1 DEF Min
<1> QED BY <1>2

(* The pointer of a Bytebuf that can be used.                              *)
LEMMA ContentType ==
  ASSUME IInv, NEW b \in Buf, Usable(b)
  PROVE  /\ evbuffer[b] \in Ev
         /\ Content(b) \in Seq({"own", "shared"})
         /\ Len(Content(b)) \in Nat
         /\ \A n \in Nat : AtMost(b, n) \in 0..Len(Content(b))
<1>1. evbuffer[b] \in Ev /\ Content(b) \in Seq({"own", "shared"}) /\ Len(Content(b)) \in Nat
  BY DEF IInv, TypeOK, Usable, Content
<1>2. ASSUME NEW n \in Nat PROVE AtMost(b, n) \in 0..Len(Content(b))
  BY <1>1, MinOfTwo DEF AtMost
<1> QED BY <1>1, <1>2

LEMMA OpSize == ASSUME NEW n \in 1..MaxOp PROVE n \in Nat
BY BoundsAssumption
-----------------------------------------------------------------------------
(* Only contents change.                                                   *)
LEMMA ContentsOnly ==
  ASSUME IInv, fault = "none",
         UNCHANGED <<built, evbuffer, alloc, live, overwritten>>,
         BytesOK', fault' \in {"none", "overrun", "lost"}
  PROVE  IInv'
<1>1. TypeOK'
  BY TypeGroups DEF IInv, OwnType, BytesOK, FaultOK, TypeOK
<1>2. OwnInv'
  BY DEF IInv, OwnInv
<1>3. FaultCause'
  BY DEF FaultCause
<1> QED BY <1>1, <1>2, <1>3 DEF IInv

(* What is freed was live, and nobody else has it.                         *)
LEMMA OwnedIsLive ==
  ASSUME IInv, fault = "none", NEW b \in built
  PROVE  /\ evbuffer[b] # None => evbuffer[b] \in live /\ evbuffer[b] \in Ev
         /\ \A a \in built : evbuffer[a] = evbuffer[b] /\ evbuffer[b] # None => a = b
         /\ ~Usable(b) <=> evbuffer[b] = None
<1>1. evbuffer[b] \in Ev \cup {None} /\ live \subseteq Ev /\ OwnInv
  BY DEF IInv, TypeOK
<1> QED BY <1>1, EvAssumption DEF OwnInv, Usable

LEMMA FreedBytes ==
  ASSUME IInv, NEW S, bytes' = [e \in Ev |-> IF e \in S THEN <<>> ELSE bytes[e]]
  PROVE  BytesOK'
BY DEF IInv, TypeOK, BytesOK

LEMMA InitInv == Init => IInv
<1> SUFFICES ASSUME Init PROVE IInv
  OBVIOUS
<1>1. BytesOK
  BY NoBytes DEF Init, BytesOK
<1>2. OwnType /\ FaultOK
  BY EvAssumption DEF Init, OwnType, FaultOK
<1>3. TypeOK
  BY <1>1, <1>2, TypeGroups
<1>4. OwnInv /\ FaultCause
  BY DEF Init, OwnInv, FaultCause
<1> QED BY <1>3, <1>4 DEF IInv

(* Construct, Wrap, MoveConstruct, Swap: pointers move, nothing is freed.  *)
LEMMA ConstructInv ==
  ASSUME IInv, NEW b \in Buf, Construct(b)
  PROVE  IInv'
<1>1. PICK e \in Ev \ (live \cup {Lent}) :
         live' = live \cup {e} /\ evbuffer' = [evbuffer EXCEPT ![b] = e]
  BY DEF Construct
<1>2. /\ built' = built \cup {b} /\ alloc' = [alloc EXCEPT ![b] = TRUE] /\ b \notin built
      /\ UNCHANGED <<bytes, fault, overwritten>> /\ fault = "none"
  BY DEF Construct
<1>3. TypeOK'
  BY <1>1, <1>2 DEF IInv, TypeOK
<1>4. /\ evbuffer'[b] = e /\ alloc'[b] = TRUE
      /\ \A a \in built : evbuffer'[a] = evbuffer[a] /\ alloc'[a] = alloc[a]
  BY <1>1, <1>2 DEF IInv, TypeOK
<1>5. \A a \in built : evbuffer[a] # e
  BY <1>1, <1>2 DEF IInv, OwnInv
<1>6. OwnInv'
  BY <1>1, <1>2, <1>4, <1>5 DEF IInv, OwnInv
<1> QED BY <1>2, <1>3, <1>6 DEF IInv, FaultCause

LEMMA WrapInv ==
  ASSUME IInv, NEW b \in Buf, Wrap(b)
  PROVE  IInv'
<1>1. /\ built' = built \cup {b} /\ alloc' = [alloc EXCEPT ![b] = FALSE] /\ b \notin built
      /\ evbuffer' = [evbuffer EXCEPT ![b] = Lent]
      /\ Lent \in live /\ \A a \in built : evbuffer[a] # Lent
      /\ UNCHANGED <<live, bytes, fault, overwritten>> /\ fault = "none"
  BY DEF Wrap
<1>2. TypeOK'
  BY <1>1, EvAssumption DEF IInv, TypeOK
<1>3. /\ evbuffer'[b] = Lent /\ alloc'[b] = FALSE
      /\ \A a \in built : evbuffer'[a] = evbuffer[a] /\ alloc'[a] = alloc[a]
  BY <1>1 DEF IInv, TypeOK
<1>4. OwnInv'
  BY <1>1, <1>3 DEF IInv, OwnInv
<1> QED BY <1>1, <1>2, <1>4 DEF IInv, FaultCause

LEMMA MoveConstructInv ==
  ASSUME IInv, NEW a \in Buf, NEW b \in Buf, MoveConstruct(a, b)
  PROVE  IInv'
<1>1. /\ b \in built /\ a \notin built /\ a # b /\ built' = built \cup {a}
      /\ evbuffer' = [evbuffer EXCEPT ![a] = evbuffer[b], ![b] = None]
      /\ alloc' = [alloc EXCEPT ![a] = alloc[b]]
      /\ UNCHANGED <<live, bytes, fault, overwritten>> /\ fault = "none"
  BY DEF MoveConstruct
<1>2. TypeOK'
  BY <1>1 DEF IInv, TypeOK
<1>3. /\ evbuffer'[a] = evbuffer[b] /\ alloc'[a] = alloc[b] /\ evbuffer'[b] = None
      /\ \A c \in built \ {b} : evbuffer'[c] = evbuffer[c] /\ alloc'[c] = alloc[c]
  BY <1>1 DEF IInv, TypeOK
<1>4. OwnInv
  BY <1>1 DEF IInv
<1>5. \A c \in built' : evbuffer'[c] \in Ev =>
         evbuffer'[c] \in live' /\ (alloc'[c] <=> evbuffer'[c] # Lent)
  <2> SUFFICES ASSUME NEW c \in built', evbuffer'[c] \in Ev
               PROVE  evbuffer'[c] \in live' /\ (alloc'[c] <=> evbuffer'[c] # Lent)
    OBVIOUS
  <2>1. c # b
    BY <1>3, EvAssumption
  <2>2. CASE c = a
    BY <1>1, <1>3, <1>4, <2>2 DEF OwnInv
  <2>3. CASE c # a
    <3>1. evbuffer'[c] = evbuffer[c] /\ alloc'[c] = alloc[c] /\ c \in built
      BY <1>1, <1>3, <2>1, <2>3
    <3> QED BY <1>1, <1>4, <3>1 DEF OwnInv
  <2> QED BY <2>2, <2>3
<1>6. \A c, d \in built' : evbuffer'[c] = evbuffer'[d] /\ evbuffer'[c] # None => c = d
  <2> SUFFICES ASSUME NEW c \in built', NEW d \in built', evbuffer'[c] = evbuffer'[d], evbuffer'[c] # None
               PROVE  c = d
    OBVIOUS
  <2>1. c # b /\ d # b
    BY <1>3
  <2>2. PICK x \in built :
           evbuffer'[c] = evbuffer[x] /\ (c = a => x = b) /\ (c # a => x = c)
    BY <1>1, <1>3, <2>1
  <2>3. PICK y \in built :
           evbuffer'[d] = evbuffer[y] /\ (d = a => y = b) /\ (d # a => y = d)
    BY <1>1, <1>3, <2>1
  <2>4. x = y
    BY <1>4, <2>2, <2>3 DEF OwnInv
  <2> QED BY <2>1, <2>2, <2>3, <2>4
<1>7. \A e \in live' \ {Lent} : \E c \in built' : evbuffer'[c] = e
  <2> SUFFICES ASSUME NEW e \in live \ {Lent} PROVE \E c \in built' : evbuffer'[c] = e
    BY <1>1
  <2>1. PICK c \in built : evbuffer[c] = e
    BY <1>4 DEF OwnInv
  <2> QED BY <1>1, <1>3, <2>1
<1>8. OwnInv'
  BY <1>1, <1>4, <1>5, <1>6, <1>7 DEF OwnInv
<1> QED BY <1>1, <1>2, <1>8 DEF IInv, FaultCause

LEMMA SwapInv ==
  ASSUME IInv, NEW a \in Buf, NEW b \in Buf, Swap(a, b)
  PROVE  IInv'
<1>1. /\ {a, b} \subseteq built /\ a # b
      /\ evbuffer' = [evbuffer EXCEPT ![a] = evbuffer[b], ![b] = evbuffer[a]]
      /\ alloc' = [alloc EXCEPT ![a] = alloc[b], ![b] = alloc[a]]
      /\ UNCHANGED <<built, live, bytes, fault, overwritten>> /\ fault = "none"
  BY DEF Swap
<1>2. TypeOK'
  BY <1>1 DEF IInv, TypeOK
<1>3. /\ evbuffer'[a] = evbuffer[b] /\ alloc'[a] = alloc[b]
      /\ evbuffer'[b] = evbuffer[a] /\ alloc'[b] = alloc[a]
      /\ \A c \in built \ {a, b} : evbuffer'[c] = evbuffer[c] /\ alloc'[c] = alloc[c]
  BY <1>1 DEF IInv, TypeOK
<1>4. OwnInv
  BY <1>1 DEF IInv
<1>5. \A c \in built' : evbuffer'[c] \in Ev =>
         evbuffer'[c] \in live' /\ (alloc'[c] <=> evbuffer'[c] # Lent)
  <2> SUFFICES ASSUME NEW c \in built, evbuffer'[c] \in Ev
               PROVE  evbuffer'[c] \in live /\ (alloc'[c] <=> evbuffer'[c] # Lent)
    BY <1>1
  <2>1. PICK d \in built : evbuffer'[c] = evbuffer[d] /\ alloc'[c] = alloc[d]
    BY <1>1, <1>3
  <2> QED BY <1>4, <2>1 DEF OwnInv
<1>6. \A c, d \in built' : evbuffer'[c] = evbuffer'[d] /\ evbuffer'[c] # None => c = d
  <2> SUFFICES ASSUME NEW c \in built, NEW d \in built, c # d, evbuffer'[c] # None
               PROVE  evbuffer'[c] # evbuffer'[d]
    BY <1>1
  <2>1. PICK x \in built :
           evbuffer'[c] = evbuffer[x] /\ x = IF c = a THEN b ELSE IF c = b THEN a ELSE c
    BY <1>1, <1>3
  <2>2. PICK y \in built :
           evbuffer'[d] = evbuffer[y] /\ y = IF d = a THEN b ELSE IF d = b THEN a ELSE d
    BY <1>1, <1>3
  <2>3. x # y
    BY <2>1, <2>2
  <2> QED BY <1>4, <2>1, <2>2, <2>3 DEF OwnInv
<1>7. \A e \in live' \ {Lent} : \E c \in built' : evbuffer'[c] = e
  <2> SUFFICES ASSUME NEW e \in live \ {Lent} PROVE \E c \in built : evbuffer'[c] = e
    BY <1>1
  <2>1. PICK c \in built : evbuffer[c] = e
    BY <1>4 DEF OwnInv
  <2> QED BY <1>1, <1>3, <2>1
<1>8. OwnInv'
  BY <1>1, <1>4, <1>5, <1>6, <1>7 DEF OwnInv
<1> QED BY <1>1, <1>2, <1>8 DEF IInv, FaultCause

(* Assign, Destroy: something is freed.                                    *)
LEMMA AssignInv ==
  ASSUME IInv, NEW a \in Buf, NEW b \in Buf, Assign(a, b)
  PROVE  IInv'
<1>1. /\ a \in built /\ b \in built /\ a # b /\ fault = "none" /\ UNCHANGED built
      /\ live' = live \ ({evbuffer[a]} \ {None})
      /\ evbuffer' = [evbuffer EXCEPT ![a] = evbuffer[b], ![b] = None]
      /\ alloc' = [alloc EXCEPT ![a] = alloc[b]]
      /\ overwritten' = (overwritten \/ evbuffer[a] = Lent)
  BY DEF Assign, FreeEvbuffers
<1>2. UNCHANGED fault
  BY <1>1, OwnedIsLive DEF Assign, FreeEvbuffers
<1>3. BytesOK'
  BY FreedBytes DEF Assign, FreeEvbuffers
<1>4. TypeOK'
  <2>1. OwnType'
    <3>1. evbuffer' \in [Buf -> Ev \cup {None}] /\ alloc' \in [Buf -> BOOLEAN]
      BY <1>1 DEF IInv, TypeOK
    <3>2. overwritten' \in BOOLEAN
      BY <1>1 DEF IInv, TypeOK
    <3> QED BY <1>1, <3>1, <3>2 DEF IInv, TypeOK, OwnType
  <2> QED BY <1>2, <1>3, <2>1 DEF IInv, TypeOK, OwnType, BytesOK, FaultOK
<1>5. /\ evbuffer'[a] = evbuffer[b] /\ alloc'[a] = alloc[b] /\ evbuffer'[b] = None
      /\ \A c \in built \ {a, b} : evbuffer'[c] = evbuffer[c] /\ alloc'[c] = alloc[c]
  BY <1>1 DEF IInv, TypeOK
<1>6. OwnInv
  BY <1>1 DEF IInv
<1>7. \A c \in built' : evbuffer'[c] \in Ev =>
         evbuffer'[c] \in live' /\ (alloc'[c] <=> evbuffer'[c] # Lent)
  <2> SUFFICES ASSUME NEW c \in built, evbuffer'[c] \in Ev
               PROVE  evbuffer'[c] \in live' /\ (alloc'[c] <=> evbuffer'[c] # Lent)
    BY <1>1
  <2>1. c # b
    BY <1>5, EvAssumption
  <2>2. CASE c = a
    <3>1. evbuffer[b] \in live /\ (alloc[b] <=> evbuffer[b] # Lent)
      BY <1>1, <1>5, <1>6, <2>2 DEF OwnInv
    <3>2. evbuffer[b] # evbuffer[a]
      BY <1>1, <1>5, <1>6, <2>2, EvAssumption DEF OwnInv
    <3> QED BY <1>1, <1>5, <2>2, <3>1, <3>2
  <2>3. CASE c # a
    <3>1. evbuffer'[c] = evbuffer[c] /\ alloc'[c] = alloc[c]
      BY <1>5, <2>1, <2>3
    <3>2. evbuffer[c] \in live /\ (alloc[c] <=> evbuffer[c] # Lent)
      BY <1>6, <3>1 DEF OwnInv
    <3>3. evbuffer[c] # evbuffer[a]
      BY <1>1, <1>6, <2>3, <3>1, EvAssumption DEF OwnInv
    <3> QED BY <1>1, <3>1, <3>2, <3>3
  <2> QED BY <2>2, <2>3
<1>8. \A c, d \in built' : evbuffer'[c] = evbuffer'[d] /\ evbuffer'[c] # None => c = d
  <2> SUFFICES ASSUME NEW c \in built, NEW d \in built, c # d, evbuffer'[c] # None
               PROVE  evbuffer'[c] # evbuffer'[d]
    BY <1>1
  <2>1. c # b
    BY <1>5
  <2>2. CASE d = b
    BY <1>5, <2>2
  <2>3. CASE d # b
    <3>1. PICK x \in built, y \in built :
             x # y /\ evbuffer'[c] = evbuffer[x] /\ evbuffer'[d] = evbuffer[y]
      BY <1>1, <1>5, <2>1, <2>3
    <3> QED BY <1>6, <3>1 DEF OwnInv
  <2> QED BY <2>2, <2>3
<1>9. \A e \in live' \ {Lent} : \E c \in built' : evbuffer'[c] = e
  <2> SUFFICES ASSUME NEW e \in live \ {Lent}, e \notin {evbuffer[a]} \ {None}
               PROVE  \E c \in built : evbuffer'[c] = e
    BY <1>1
  <2>1. PICK c \in built : evbuffer[c] = e
    BY <1>6 DEF OwnInv
  <2>2. e # None
    BY EvAssumption DEF IInv, TypeOK
  <2> QED BY <1>1, <1>5, <2>1, <2>2
<1>10. Lent \in live' \/ overwritten'
  BY <1>1, <1>6 DEF OwnInv
<1>11. OwnInv'
  BY <1>7, <1>8, <1>9, <1>10 DEF OwnInv
<1> QED BY <1>1, <1>2, <1>4, <1>11 DEF IInv, FaultCause

LEMMA DestroyInv ==
  ASSUME IInv, NEW b \in Buf, Destroy(b)
  PROVE  IInv'
<1>1. /\ b \in built /\ fault = "none" /\ built' = built \ {b} /\ UNCHANGED overwritten
      /\ live' = live \ (IF Frees(b) THEN {evbuffer[b]} ELSE {})
      /\ evbuffer' = [evbuffer EXCEPT ![b] = None]
      /\ alloc' = [alloc EXCEPT ![b] = FALSE]
  BY DEF Destroy, FreeEvbuffers
<1>2. UNCHANGED fault
  BY <1>1, OwnedIsLive DEF Destroy, FreeEvbuffers, Frees
<1>3. BytesOK'
  BY FreedBytes DEF Destroy, FreeEvbuffers
<1>4. TypeOK'
  <2>1. OwnType'
    BY <1>1 DEF IInv, TypeOK, OwnType
  <2> QED BY <1>2, <1>3, <2>1 DEF IInv, TypeOK, OwnType, BytesOK, FaultOK
<1>5. \A c \in built \ {b} : evbuffer'[c] = evbuffer[c] /\ alloc'[c] = alloc[c]
  BY <1>1 DEF IInv, TypeOK
<1>6. OwnInv
  BY <1>1 DEF IInv
<1>7. \A c \in built' : evbuffer'[c] \in Ev =>
         evbuffer'[c] \in live' /\ (alloc'[c] <=> evbuffer'[c] # Lent)
  <2> SUFFICES ASSUME NEW c \in built \ {b}, evbuffer[c] \in Ev
               PROVE  evbuffer[c] \in live' /\ (alloc[c] <=> evbuffer[c] # Lent)
    BY <1>1, <1>5
  <2>1. evbuffer[c] \in live /\ (alloc[c] <=> evbuffer[c] # Lent)
    BY <1>6 DEF OwnInv
  <2>2. evbuffer[c] # evbuffer[b]
    BY <1>1, <1>6, EvAssumption DEF OwnInv
  <2> QED BY <1>1, <2>1, <2>2
<1>8. \A c, d \in built' : evbuffer'[c] = evbuffer'[d] /\ evbuffer'[c] # None => c = d
  BY <1>1, <1>5, <1>6 DEF OwnInv
<1>9. \A e \in live' \ {Lent} : \E c \in built' : evbuffer'[c] = e
  <2> SUFFICES ASSUME NEW e \in live \ {Lent}, ~(Frees(b) /\ e = evbuffer[b])
               PROVE  \E c \in built \ {b} : evbuffer'[c] = e
    BY <1>1
  <2>1. PICK c \in built : evbuffer[c] = e
    BY <1>6 DEF OwnInv
  <2>2. e \in Ev /\ e # None
    BY EvAssumption DEF IInv, TypeOK
  <2>3. c # b
    BY <1>1, <1>6, <2>1, <2>2 DEF OwnInv, Frees
  <2> QED BY <1>5, <2>1, <2>3
<1>10. Lent \in live'
       \/ overwritten'
  BY <1>1, <1>6, EvAssumption DEF OwnInv, Frees
<1>11. OwnInv'
  BY <1>7, <1>8, <1>9, <1>10 DEF OwnInv
<1> QED BY <1>1, <1>2, <1>4, <1>11 DEF IInv, FaultCause

(* A call of Bytebufs one of which has no evbuffer: a null pointer.        *)
LEMMA MisuseInv ==
  ASSUME IInv, NEW B \in SUBSET Buf, Misuse(B)
  PROVE  IInv'
<1>1. /\ fault = "none" /\ B \subseteq built
      /\ UNCHANGED <<built, evbuffer, alloc, live, bytes, overwritten>>
  BY DEF Misuse, Misused
<1>2. \E b \in B : evbuffer[b] = None
  BY <1>1, OwnedIsLive DEF Misuse
<1>3. fault' = "null"
  BY <1>2 DEF Misuse, Misused
<1> QED BY <1>1, <1>2, <1>3 DEF IInv, TypeOK, FaultCause

LEMMA ContainInv ==
  ASSUME IInv, NEW a \in Buf, NEW b \in Buf, Ready({a, b}),
         NEW s \in Seq({"own", "shared"}), NEW t \in Seq({"own", "shared"}),
         Contain(a, t, b, s)
  PROVE  IInv'
<1>1. Usable(a) /\ Usable(b) /\ fault = "none"
  BY DEF Ready
<1>2. bytes' = [bytes EXCEPT ![evbuffer[a]] = t, ![evbuffer[b]] = s]
  BY DEF Contain
<1>3. BytesOK'
  BY <1>2 DEF IInv, TypeOK, BytesOK
<1> QED BY <1>1, <1>3, ContentsOnly DEF Contain

(* AppendBytes, DiscardBytes, ReadString, AppendBytebuf, ReadBytebuf,           *)
(* PeekBytebuf: contents only.                                             *)
LEMMA ContentsInv ==
  ASSUME IInv, NEW b \in Buf,
         \/ \E n \in 1..MaxOp : AppendBytes(b, n) \/ DiscardBytes(b, n) \/ ReadString(b, n)
         \/ \E a \in Buf : \/ AppendBytebuf(a, b) \/ PeekBytebuf(a, b)
                           \/ \E n \in 1..MaxOp : ReadBytebuf(a, b, n)
  PROVE  IInv'
<1>1. ASSUME NEW n \in 1..MaxOp, AppendBytes(b, n) PROVE IInv'
  <2>1. Usable(b) /\ fault = "none"
    BY <1>1 DEF AppendBytes, Ready
  <2>2. Content(b) \o [i \in 1..n |-> "own"] \in Seq({"own", "shared"})
    BY <2>1, ContentType, OwnBytes, OpSize, ConcatProperties
  <2>3. bytes' = [bytes EXCEPT ![evbuffer[b]] = Content(b) \o [i \in 1..n |-> "own"]]
    BY <1>1 DEF AppendBytes, Content
  <2>4. BytesOK'
    BY <2>2, <2>3 DEF IInv, TypeOK, BytesOK
  <2> QED BY <1>1, <2>1, <2>4, ContentsOnly DEF AppendBytes
<1>2. ASSUME NEW n \in 1..MaxOp, DiscardBytes(b, n) PROVE IInv'
  <2>1. Usable(b) /\ fault = "none"
    BY <1>2 DEF DiscardBytes, Ready
  <2>2. Rest(Content(b), AtMost(b, n)) \in Seq({"own", "shared"})
    BY <2>1, ContentType, PartType, OpSize
  <2>3. bytes' = [bytes EXCEPT ![evbuffer[b]] = Rest(Content(b), AtMost(b, n))]
    BY <1>2 DEF DiscardBytes, Content
  <2>4. BytesOK'
    BY <2>2, <2>3 DEF IInv, TypeOK, BytesOK
  <2> QED BY <1>2, <2>1, <2>4, ContentsOnly DEF DiscardBytes
<1>3. ASSUME NEW n \in 1..MaxOp, ReadString(b, n) PROVE IInv'
  <2>1. fault = "none" /\ bytes' = [bytes EXCEPT ![evbuffer[b]] = <<>>]
        /\ fault' \in {"none", "overrun"}
    BY <1>3 DEF ReadString, Ready
  <2>2. BytesOK'
    BY <2>1, NoBytes DEF IInv, TypeOK, BytesOK
  <2> QED BY <1>3, <2>1, <2>2, ContentsOnly DEF ReadString
<1>4. ASSUME NEW a \in Buf, AppendBytebuf(a, b) PROVE IInv'
  <2>1. Content(a) \o Content(b) \in Seq({"own", "shared"}) /\ <<>> \in Seq({"own", "shared"})
    BY <1>4, ContentType, ConcatProperties DEF AppendBytebuf, Ready
  <2> QED BY <1>4, <2>1, ContainInv DEF AppendBytebuf
<1>5. ASSUME NEW a \in Buf, PeekBytebuf(a, b) PROVE IInv'
  <2>1. Content(a) \in Seq({"own", "shared"}) /\ Content(b) \in Seq({"own", "shared"})
    BY <1>5, ContentType DEF PeekBytebuf, Ready
  <2>2. [i \in DOMAIN Content(b) |-> "own"] \in Seq({"own", "shared"})
    <3>1. DOMAIN Content(b) = 1..Len(Content(b)) /\ Len(Content(b)) \in Nat
      BY <2>1
    <3> QED BY <3>1, OwnBytes
  <2>3. Content(a) \o [i \in DOMAIN Content(b) |-> "own"] \in Seq({"own", "shared"})
    BY <2>1, <2>2, ConcatProperties
  <2> QED BY <1>5, <2>1, <2>3, ContainInv DEF PeekBytebuf
<1>6. ASSUME NEW a \in Buf, NEW n \in 1..MaxOp, ReadBytebuf(a, b, n) PROVE IInv'
  <2>1. /\ Content(a) \in Seq({"own", "shared"}) /\ Content(b) \in Seq({"own", "shared"})
        /\ AtMost(b, n) \in 0..Len(Content(b))
    BY <1>6, ContentType, OpSize DEF ReadBytebuf, Ready
  <2>2. /\ SubSeq(Content(b), 1, AtMost(b, n)) \in Seq({"own", "shared"})
        /\ Rest(Content(b), AtMost(b, n)) \in Seq({"own", "shared"})
    BY <2>1, PartType
  <2>3. Content(a) \o SubSeq(Content(b), 1, AtMost(b, n)) \in Seq({"own", "shared"})
    BY <2>1, <2>2, ConcatProperties
  <2> QED BY <1>6, <2>2, <2>3, ContainInv DEF ReadBytebuf
<1> QED BY <1>1, <1>2, <1>3, <1>4, <1>5, <1>6

LEMMA AppendReferenceInv ==
  ASSUME IInv, NEW a \in Buf, NEW b \in Buf, AppendReferenceBytebuf(a, b)
  PROVE  IInv'
<1> DEFINE shareable == "shared" \notin ToSet(Content(b))
           more == IF shareable THEN [i \in DOMAIN Content(b) |-> "shared"] ELSE <<>>
           gone == IF alloc[b] THEN {evbuffer[b]} ELSE {}
<1>1. /\ more \in {<<>>, [i \in DOMAIN Content(b) |-> "shared"]}
      /\ gone = (IF alloc[b] THEN {evbuffer[b]} ELSE {})
      /\ live' = live \ gone
      /\ bytes' = [e \in Ev |-> IF e = evbuffer[a] THEN bytes[e] \o more
                                ELSE IF e \in gone THEN <<>> ELSE bytes[e]]
      /\ fault' \in {"none", "lost"}
      /\ evbuffer' = [evbuffer EXCEPT ![b] = None]
      /\ UNCHANGED <<built, alloc, overwritten>>
  BY DEF AppendReferenceBytebuf, Ready
<1> HIDE DEF shareable, more, gone
<1>2. /\ fault = "none" /\ a \in built /\ b \in built /\ Usable(a) /\ Usable(b) /\ OwnInv
      /\ evbuffer[a] # evbuffer[b]
  BY DEF AppendReferenceBytebuf, Ready, IInv
<1>3. BytesOK'
  <2>1. Content(b) \in Seq({"own", "shared"})
    BY <1>2, ContentType
  <2>2. more \in Seq({"own", "shared"})
    <3>1. DOMAIN Content(b) = 1..Len(Content(b)) /\ Len(Content(b)) \in Nat
      BY <2>1
    <3>2. [i \in DOMAIN Content(b) |-> "shared"] \in Seq({"own", "shared"})
      BY <3>1, OwnBytes
    <3> QED BY <1>1, <3>2, NoBytes
  <2>3. \A e \in Ev : bytes[e] \in Seq({"own", "shared"}) /\ bytes[e] \o more \in Seq({"own", "shared"})
    BY <2>2, ConcatProperties DEF IInv, TypeOK
  <2> QED BY <1>1, <2>3 DEF BytesOK
<1>4. TypeOK'
  <2>1. OwnType'
    BY <1>1 DEF IInv, TypeOK, OwnType
  <2> QED BY <1>1, <1>3, <2>1 DEF TypeOK, OwnType, BytesOK
<1>5. evbuffer'[b] = None /\ \A c \in built \ {b} : evbuffer'[c] = evbuffer[c]
  BY <1>1 DEF IInv, TypeOK
<1>6. \A c \in built' : evbuffer'[c] \in Ev =>
         evbuffer'[c] \in live' /\ (alloc'[c] <=> evbuffer'[c] # Lent)
  <2> SUFFICES ASSUME NEW c \in built \ {b}, evbuffer[c] \in Ev
               PROVE  evbuffer[c] \in live' /\ (alloc[c] <=> evbuffer[c] # Lent)
    BY <1>1, <1>5, EvAssumption
  <2>1. evbuffer[c] # evbuffer[b]
    BY <1>2, EvAssumption DEF OwnInv
  <2> QED BY <1>1, <1>2, <2>1 DEF OwnInv
<1>7. \A c, d \in built' : evbuffer'[c] = evbuffer'[d] /\ evbuffer'[c] # None => c = d
  BY <1>1, <1>2, <1>5 DEF OwnInv
<1>8. \A e \in live' \ {Lent} : \E c \in built' : evbuffer'[c] = e
  <2> SUFFICES ASSUME NEW e \in live \ {Lent}, e \notin gone
               PROVE  \E c \in built : evbuffer'[c] = e
    BY <1>1
  <2>1. PICK c \in built : evbuffer[c] = e
    BY <1>2 DEF OwnInv
  <2>2. e \in Ev
    BY DEF IInv, TypeOK
  <2>3. c # b
    BY <1>1, <1>2, <2>1, <2>2 DEF OwnInv
  <2> QED BY <1>5, <2>1, <2>3
<1>9. Lent \in live' \/ overwritten'
  BY <1>1, <1>2, EvAssumption DEF OwnInv
<1>10. OwnInv'
  BY <1>6, <1>7, <1>8, <1>9 DEF OwnInv
<1> QED BY <1>1, <1>4, <1>10 DEF IInv, FaultCause

LEMMA ArriveInv ==
  ASSUME IInv, NEW n \in 1..MaxOp, Arrive(n)
  PROVE  IInv'
<1>1. CASE Lent \in live
  <2>1. bytes[Lent] \o [i \in 1..n |-> "own"] \in Seq({"own", "shared"})
    BY EvAssumption, OwnBytes, OpSize, ConcatProperties DEF IInv, TypeOK
  <2>2. BytesOK'
    BY <1>1, <2>1 DEF Arrive, IInv, TypeOK, BytesOK
  <2> QED BY <1>1, <2>2, ContentsOnly DEF Arrive
<1>2. CASE Lent \notin live
  BY <1>2 DEF Arrive, IInv, OwnInv, TypeOK, FaultCause
<1> QED BY <1>1, <1>2

LEMMA SpecInv == Spec => []IInv
<1>1. IInv /\ [Next]_vars => IInv'
  <2> SUFFICES ASSUME IInv, [Next]_vars PROVE IInv'
    OBVIOUS
  <2>1. CASE UNCHANGED vars
    BY <2>1 DEF vars, IInv, TypeOK, OwnInv, FaultCause
  <2>2. ASSUME NEW b \in Buf, Misuse({b}) PROVE IInv'
    BY <2>2, MisuseInv
  <2>3. ASSUME NEW a \in Buf, NEW b \in Buf, Misuse({a, b}) PROVE IInv'
    BY <2>3, MisuseInv
  <2> QED
    BY <2>1, <2>2, <2>3, ConstructInv, WrapInv, DestroyInv, MoveConstructInv, AssignInv,
       SwapInv, ContentsInv, AppendReferenceInv, ArriveInv DEF Next
<1> QED BY <1>1, InitInv, PTL DEF Spec
-----------------------------------------------------------------------------
(* Through any moves, swaps and assignments each evbuffer has one owner    *)
(* (constructors, operator=(), swap() and ~Bytebuf()).                     *)
THEOREM OneOwner == Spec => []EvbuffersOwned
<1>1. ASSUME IInv PROVE EvbuffersOwned
  <2> SUFFICES ASSUME fault = "none"
               PROVE  /\ \A e \in Ev : \A a, b \in {c \in built : evbuffer[c] = e} : a = b
                      /\ \A e \in Ev \ {Lent} :
                            e \in live <=> \E b \in {c \in built : evbuffer[c] = e} : alloc[b]
                      /\ \A b \in {c \in built : evbuffer[c] = Lent} : ~alloc[b]
                      /\ Lent \in live \/ overwritten
    BY <1>1 DEF IInv, EvbuffersOwned
  <2>1. OwnInv
    BY <1>1 DEF IInv
  <2>2. \A e \in Ev : \A a, b \in {c \in built : evbuffer[c] = e} : a = b
    BY <2>1, EvAssumption DEF OwnInv
  <2>3. ASSUME NEW e \in Ev \ {Lent}
        PROVE  e \in live <=> \E b \in {c \in built : evbuffer[c] = e} : alloc[b]
    BY <2>1 DEF OwnInv
  <2>4. \A b \in {c \in built : evbuffer[c] = Lent} : ~alloc[b]
    BY <2>1, EvAssumption DEF OwnInv
  <2> QED BY <2>1, <2>2, <2>3, <2>4 DEF OwnInv
<1> QED BY <1>1, SpecInv, PTL

(* A null pointer is used only after a move, a freed evbuffer only by the  *)
(* bufferevent that an assignment took it from.                            *)
THEOREM FaultsHaveCauses == Spec => []FaultCause
<1>1. IInv => FaultCause
  BY DEF IInv
<1> QED BY <1>1, SpecInv, PTL
-----------------------------------------------------------------------------
(* Buffer: the loops of reallocate() and deallocate()                      *)

(* Every set of naturals has a least member: of the intervals 0..n of its  *)
(* members one contains no other.                                          *)
LEMMA LeastNumber ==
    ASSUME NEW T \in SUBSET Nat, T # {}
    PROVE  \E n \in T : \A m \in T : n <= m
<1> DEFINE U == {0..n : n \in T}
           I == UNION U
<1>1. U \subseteq FiniteSubsetsOf(I)
  <2> SUFFICES ASSUME NEW n \in T PROVE (0..n) \in FiniteSubsetsOf(I)
    OBVIOUS
  <2>1. IsFiniteSet(0..n)
    BY FS_Interval
  <2> QED BY <2>1 DEF FiniteSubsetsOf
<1>2. U # {}
  OBVIOUS
<1>3. PICK x \in U : \A y \in U : ~ (<<y, x>> \in StrictSubsetOrdering(I))
  <2> HIDE DEF U, I
  <2> QED BY <1>1, <1>2, FS_StrictSubsetOrderingWellFounded, WFMin
<1>4. PICK n \in T : x = 0..n
  OBVIOUS
<1>5. ASSUME NEW m \in T, ~ (n <= m) PROVE FALSE
  <2>1. m < n /\ m \in Nat /\ n \in Nat
    BY <1>5
  <2>2. 0..m \subseteq 0..n /\ n \in 0..n /\ n \notin 0..m
    BY <2>1
  <2>3. 0..m \subseteq I /\ 0..n \subseteq I
    OBVIOUS
  <2>4. <<0..m, 0..n>> \in StrictSubsetOrdering(I)
    BY <2>2, <2>3 DEF StrictSubsetOrdering
  <2> QED BY <2>4, <1>3, <1>4
<1> QED BY <1>5


(* A set of naturals with 0 and every successor has them all.              *)
LEMMA SetInduction ==
  ASSUME NEW P \in SUBSET Nat, 0 \in P, \A k \in P : k + 1 \in P
  PROVE  P = Nat
<1> SUFFICES ASSUME Nat \ P # {} PROVE FALSE
  OBVIOUS
<1>1. PICK n \in Nat \ P : \A m \in Nat \ P : n <= m
  <2>1. PICK T : T = Nat \ P
    OBVIOUS
  <2> QED BY <2>1, LeastNumber
<1>2. n # 0 /\ n - 1 \in Nat /\ ~(n <= n - 1)
  OBVIOUS
<1>3. n - 1 \in P
  BY <1>1, <1>2
<1> QED BY <1>3, <1>2

(* What holds of a size before a loop and from one round to the next holds *)
(* of what the loop makes of it.                                           *)
LEMMA LoopRule ==
  ASSUME NEW n \in Nat, NEW size \in Nat, NEW round \in [Nat -> Nat],
         NEW I \in SUBSET (Nat \X Nat), <<0, size>> \in I,
         \A k, m \in Nat : <<k, m>> \in I => <<k + 1, round[m]>> \in I
  PROVE  Rounds(n, size, round) \in Nat /\ <<n, Rounds(n, size, round)>> \in I
<1> DEFINE IsRun(f, l) == f = [k \in 0..l |-> IF k = 0 THEN size ELSE round[f[k - 1]]]
           P == {l \in Nat : \E f \in [0..l -> Nat] : IsRun(f, l)}
<1>1. 0 \in P
  <2> DEFINE f == [k \in 0..0 |-> size]
  <2>1. f \in [0..0 -> Nat] /\ IsRun(f, 0)
    OBVIOUS
  <2> QED BY <2>1
<1>2. ASSUME NEW l \in P PROVE l + 1 \in P
  <2>1. PICK f \in [0..l -> Nat] : IsRun(f, l)
    BY <1>2
  <2> DEFINE g == [k \in 0..l + 1 |-> IF k = l + 1 THEN round[f[l]] ELSE f[k]]
  <2>2. l \in Nat /\ \A k \in 0..l + 1 : k = l + 1 \/ k \in 0..l
    OBVIOUS
  <2>3. g \in [0..l + 1 -> Nat]
    <3>1. round[f[l]] \in Nat
      BY <2>2
    <3>2. \A k \in 0..l + 1 : (IF k = l + 1 THEN round[f[l]] ELSE f[k]) \in Nat
      BY <2>2, <3>1
    <3> QED BY <3>2
  <2>4. ASSUME NEW k \in 0..l + 1
        PROVE  g[k] = IF k = 0 THEN size ELSE round[g[k - 1]]
    <3>1. CASE k = l + 1
      <4>1. g[k] = round[f[l]] /\ k - 1 = l /\ k # 0 /\ l \in 0..l + 1 /\ l # l + 1
        BY <3>1, <2>2
      <4>2. g[l] = f[l]
        BY <4>1
      <4> QED BY <4>1, <4>2
    <3>2. CASE k \in 0..l
      <4>1. g[k] = f[k]
        BY <3>2, <2>2
      <4>2. f[k] = IF k = 0 THEN size ELSE round[f[k - 1]]
        <5>1. f = [j \in 0..l |-> IF j = 0 THEN size ELSE round[f[j - 1]]]
          BY <2>1
        <5> HIDE DEF g
        <5> QED BY ONLY <5>1, <3>2
      <4>3. k # 0 => k - 1 \in 0..l /\ k - 1 \in 0..l + 1 /\ k - 1 # l + 1
        BY <3>2, <2>2
      <4>4. k # 0 => g[k - 1] = f[k - 1]
        BY <4>3
      <4> QED BY <4>1, <4>2, <4>4
    <3> QED BY <3>1, <3>2, <2>2
  <2>5. IsRun(g, l + 1)
    <3>1. g = [k \in 0..l + 1 |-> g[k]]
      OBVIOUS
    <3> HIDE DEF g
    <3> QED BY <3>1, <2>4
  <2>6. \E h \in [0..l + 1 -> Nat] : IsRun(h, l + 1)
    <3> HIDE DEF g, After
    <3> QED BY <2>3, <2>5
  <2>7. l + 1 \in Nat
    BY <2>2
  <2> HIDE DEF g, After
  <2> QED BY <2>6, <2>7
<1>3. PICK f \in [0..n -> Nat] : IsRun(f, n)
  <2>1. P \in SUBSET Nat
    OBVIOUS
  <2>2. P = Nat
    <3> HIDE DEF P
    <3> QED BY <1>1, <1>2, <2>1, SetInduction
  <2> QED BY <2>2
<1> DEFINE a == CHOOSE h : IsRun(h, n)
<1>4. IsRun(a, n)
  BY <1>3
<1>5. Rounds(n, size, round) = a[n]
  BY DEF Rounds
<1> HIDE DEF a
<1> DEFINE Q == {k \in Nat : k <= n => a[k] \in Nat /\ <<k, a[k]>> \in I}
<1>6. Q = Nat
  <2>1. 0 \in Q
    BY <1>4
  <2>2. ASSUME NEW k \in Q PROVE k + 1 \in Q
    <3> SUFFICES ASSUME k + 1 <= n PROVE a[k + 1] \in Nat /\ <<k + 1, a[k + 1]>> \in I
      OBVIOUS
    <3>1. a[k] \in Nat /\ <<k, a[k]>> \in I /\ k \in Nat
      OBVIOUS
    <3>2. a[k + 1] = round[a[k]]
      <4>1. k + 1 \in 0..n /\ k + 1 # 0 /\ (k + 1) - 1 = k
        OBVIOUS
      <4> HIDE DEF Q
      <4> QED BY <1>4, <4>1
    <3> QED BY <3>1, <3>2
  <2>3. Q \in SUBSET Nat
    OBVIOUS
  <2> HIDE DEF Q
  <2> QED BY <2>1, <2>2, <2>3, SetInduction
<1>7. n \in Q
  BY <1>6
<1> QED BY <1>5, <1>7

(* reallocate() doubles up to a size that is enough.                       *)
LEMMA DoubledFacts ==
  ASSUME NEW size \in Nat, size > 0, NEW need \in Nat
  PROVE  Doubled(size, need) \in Nat /\ Doubled(size, need) > 0 /\ Doubled(size, need) >= need
<1> DEFINE round == [n \in Nat |-> IF need > n THEN n * 2 ELSE n]
           I == {p \in Nat \X Nat : p[2] > 0 /\ (p[2] >= need \/ p[2] >= p[1])}
<1>1. round \in [Nat -> Nat]
  OBVIOUS
<1>2. <<0, size>> \in I
  OBVIOUS
<1>3. ASSUME NEW k \in Nat, NEW m \in Nat, <<k, m>> \in I PROVE <<k + 1, round[m]>> \in I
  <2>1. m > 0 /\ (m >= need \/ m >= k)
    BY <1>3
  <2>2. CASE need > m
    <3>1. round[m] = m * 2 /\ m * 2 \in Nat /\ m * 2 > 0 /\ m * 2 >= k + 1
      BY <2>1, <2>2
    <3> QED BY <3>1
  <2>3. CASE ~(need > m)
    <3>1. round[m] = m /\ m >= need
      BY <2>3
    <3> QED BY <3>1, <2>1
  <2> QED BY <2>2, <2>3
<1>4. Doubled(size, need) = Rounds(need, size, round)
  BY DEF Doubled
<1>5. I \in SUBSET (Nat \X Nat)
  OBVIOUS
<1>6. Doubled(size, need) \in Nat /\ <<need, Doubled(size, need)>> \in I
  <2> HIDE DEF round, I
  <2> QED BY <1>1, <1>2, <1>3, <1>4, <1>5, LoopRule
<1>7. PICK d \in Nat : d = Doubled(size, need)
  BY <1>6
<1>8. d > 0 /\ (d >= need \/ d >= need)
  BY <1>6, <1>7
<1> QED BY <1>7, <1>8

LEMMA Halves ==
  ASSUME NEW n \in Nat
  PROVE  n \div 2 \in Nat /\ n \div 2 <= n /\ (n > 0 => n \div 2 < n) /\ \A m \in Nat : n >= m * 2 => n \div 2 >= m
OBVIOUS

(* deallocate() halves down, but not below what it was told is needed.     *)
LEMMA ShrunkFacts ==
  ASSUME cap \in Nat, NEW need \in Nat, need > 0
  PROVE  /\ Shrunk(need) \in Nat
         /\ Shrunk(need) <= cap
         /\ Shrunk(need) = cap \/ Shrunk(need) >= need
         /\ Shrunk(need) < need * 2
<1>0. PICK c \in Nat : c = cap
  OBVIOUS
<1> DEFINE round == [n \in Nat |-> IF n >= need * 2 THEN n \div 2 ELSE n]
           I == {p \in Nat \X Nat : /\ p[2] <= c
                                    /\ p[2] = c \/ p[2] >= need
                                    /\ p[2] < need * 2 \/ p[1] + p[2] <= c}
<1>1. round \in [Nat -> Nat]
  BY Halves
<1>2. <<0, c>> \in I
  OBVIOUS
<1>3. ASSUME NEW k \in Nat, NEW m \in Nat, <<k, m>> \in I PROVE <<k + 1, round[m]>> \in I
  <2>1. m <= c /\ (m = c \/ m >= need) /\ (m < need * 2 \/ k + m <= c)
    BY <1>3
  <2>2. CASE m >= need * 2
    <3>1. PICK h \in Nat : h = m \div 2 /\ h < m /\ h >= need
      BY <2>2, Halves
    <3>2. round[m] = h
      BY <2>2, <3>1
    <3>3. h <= c /\ (k + 1) + h <= c
      BY <2>1, <2>2, <3>1
    <3> QED BY <3>1, <3>2, <3>3
  <2>3. CASE ~(m >= need * 2)
    <3>1. round[m] = m /\ m < need * 2
      BY <2>3
    <3> QED BY <3>1, <2>1
  <2> QED BY <2>2, <2>3
<1>4. Shrunk(need) = Rounds(c, c, round)
  BY <1>0 DEF Shrunk
<1>5. I \in SUBSET (Nat \X Nat)
  OBVIOUS
<1>6. Shrunk(need) \in Nat /\ <<c, Shrunk(need)>> \in I
  <2> HIDE DEF round, I
  <2> QED BY <1>1, <1>2, <1>3, <1>4, <1>5, LoopRule
<1>7. PICK d \in Nat : d = Shrunk(need)
  BY <1>6
<1>8. d <= c /\ (d = c \/ d >= need) /\ (d < need * 2 \/ c + d <= c)
  BY <1>6, <1>7
<1> QED BY <1>0, <1>7, <1>8
-----------------------------------------------------------------------------
(* The window                                                              *)

Cell == Byte \cup {Junk}

(* The window lies inside the memory, ...                                  *)
Inside == broken = "none" /\ "read" \notin spoiled => begin + Len(data) <= cap

(* a buffer without memory was never used, ...                             *)
Unborn == broken = "none" /\ cap = 0 => data = <<>> /\ begin = 0

(* and the window is what the user expects.                                *)
Same == broken = "none" /\ Trusted => data = queue

WindowInv ==
    /\ BufferTypeOK
    /\ Inside
    /\ Unborn
    /\ Same
    /\ BrokenCause

(* Contents that can be relied on lie inside their memory.                 *)
LEMMA TrustFacts ==
    /\ Trusted => "read" \notin spoiled /\ "moved" \notin spoiled
    /\ Trusted' => "read" \notin spoiled' /\ "moved" \notin spoiled'
    /\ spoiled \subseteq spoiled' /\ Trusted' => Trusted
    /\ spoiled' = spoiled => (Trusted' <=> Trusted)
BY DEF Trusted, Spoils

LEMMA UnwrittenFacts ==
  ASSUME NEW n \in Nat
  PROVE  Unwritten(n) \in Seq(Cell) /\ Len(Unwritten(n)) = n
BY DEF Unwritten, Cell

(* What is left when n elements are taken in front, or behind.             *)
LEMMA PartFacts ==
  ASSUME NEW S, NEW s \in Seq(S), NEW n \in 0..Len(s)
  PROVE  /\ After(s, n) \in Seq(S) /\ Len(After(s, n)) = Len(s) - n
         /\ Before(s, n) \in Seq(S) /\ Len(Before(s, n)) = Len(s) - n
         /\ n = Len(s) => After(s, n) = <<>> /\ Before(s, n) = <<>>
         /\ n = 0 => After(s, n) = s
<1>1. Len(s) \in Nat /\ DOMAIN s = 1..Len(s) /\ n \in Nat /\ n <= Len(s)
  <2>1. Len(s) \in Nat /\ DOMAIN s = 1..Len(s)
    OBVIOUS
  <2> QED BY <2>1
<1>2. \A i \in (n + 1)..Len(s) : s[i] \in S
  BY <1>1
<1>3. \A i \in 1..(Len(s) - n) : s[i] \in S
  BY <1>1
<1>4. After(s, n) \in Seq(S) /\ Len(After(s, n)) = Len(s) - n
  <2>0. n + 1 \in Int /\ Len(s) \in Int
    BY <1>1
  <2>1. PICK m \in Int, l \in Int : m = n + 1 /\ l = Len(s)
    BY <2>0
  <2>2. SubSeq(s, m, l) \in Seq(S) /\ Len(SubSeq(s, m, l)) = IF m <= l THEN l - m + 1 ELSE 0
    BY <1>2, <2>1, SubSeqProperties
  <2>3. (IF m <= l THEN l - m + 1 ELSE 0) = l - n
    <3>1. m = n + 1 /\ n <= l /\ n \in Nat
      BY <1>1, <2>1
    <3> QED BY ONLY <3>1, m \in Int, l \in Int
  <2> QED BY <2>1, <2>2, <2>3 DEF After
<1>5. Before(s, n) \in Seq(S) /\ Len(Before(s, n)) = Len(s) - n
  <2>0. Len(s) - n \in Int /\ 1 \in Int
    BY <1>1
  <2>1. PICK l \in Int, m \in Int : l = Len(s) - n /\ m = 1
    BY <2>0
  <2>2. SubSeq(s, m, l) \in Seq(S) /\ Len(SubSeq(s, m, l)) = IF m <= l THEN l - m + 1 ELSE 0
    BY <1>3, <2>1, SubSeqProperties
  <2>3. (IF m <= l THEN l - m + 1 ELSE 0) = l
    <3>1. l >= 0
      BY <1>1, <2>1
    <3> QED BY ONLY <2>1, <3>1, m \in Int, l \in Int
  <2> QED BY <2>1, <2>2, <2>3 DEF Before
<1>6. n = Len(s) => After(s, n) = <<>> /\ Before(s, n) = <<>>
  BY <1>1, <1>4, <1>5
<1>7. n = 0 => After(s, n) = s
  BY <1>1 DEF After
<1> QED BY <1>4, <1>5, <1>6, <1>7

(* What read() leaves when it takes n of the bytes of a window.            *)
LEMMA LeftFacts ==
  ASSUME NEW s \in Seq(Cell), NEW n \in 1..Len(s)
  PROVE  LET d == SubSeq(After(s, n) \o Unwritten(n), 1, n) IN
         /\ d \in Seq(Cell) /\ Len(d) = n
         /\ 2 * n = Len(s) => d = After(s, n)
<1> DEFINE u == After(s, n)
           w == Unwritten(n)
           e == u \o w
           d == SubSeq(e, 1, n)
<1>1. Len(s) \in Nat /\ n \in 0..Len(s) /\ n \in Nat /\ 1 <= n /\ n <= Len(s)
  OBVIOUS
<1>2. u \in Seq(Cell) /\ Len(u) = Len(s) - n
  BY <1>1, PartFacts
<1>3. w \in Seq(Cell) /\ Len(w) = n
  BY <1>1, UnwrittenFacts
<1> HIDE DEF u, w
<1>4. e \in Seq(Cell) /\ Len(e) = Len(s) /\ \A i \in 1..Len(u) : e[i] = u[i]
  <2>1. /\ e \in Seq(Cell)
        /\ Len(e) = Len(u) + Len(w)
        /\ \A i \in 1..Len(u) + Len(w) : e[i] = IF i <= Len(u) THEN u[i] ELSE w[i - Len(u)]
    BY <1>2, <1>3, ConcatProperties
  <2>2. \A i \in 1..Len(u) : i \in 1..Len(u) + Len(w) /\ i <= Len(u)
    BY <1>1, <1>2, <1>3
  <2>3. Len(u) + Len(w) = Len(s)
    BY <1>1, <1>2, <1>3
  <2> HIDE DEF e
  <2> QED BY <2>1, <2>2, <2>3
<1> HIDE DEF e
<1>5. \A i \in 1..n : e[i] \in Cell
  BY <1>1, <1>4
<1>6. d \in Seq(Cell) /\ Len(d) = n /\ \A i \in 1..n : d[i] = e[i]
  BY <1>1, <1>4, <1>5, SubSeqProperties
<1> HIDE DEF d
<1>7. ASSUME 2 * n = Len(s) PROVE d = u
  <2>1. Len(u) = n
    BY <1>1, <1>2, <1>7
  <2>2. \A i \in 1..Len(d) : d[i] = u[i]
    BY <2>1, <1>4, <1>6
  <2> QED BY <2>1, <2>2, <1>2, <1>6, SeqEqual
<1> QED BY <1>6, <1>7 DEF d, e, u, w
-----------------------------------------------------------------------------
(* reallocate() and deallocate()                                           *)

(* The types, for the provers.                                             *)
Typed ==
    /\ data \in Seq(Cell) /\ Len(data) \in Nat
    /\ cap \in Nat /\ begin \in Nat /\ init \in Nat
    /\ null \in BOOLEAN /\ sustain \in BOOLEAN
    /\ queue \in Seq(Cell) /\ Len(queue) \in Nat
    /\ Page \in Nat /\ Page > 0

LEMMA TypeFacts ==
  ASSUME WindowInv
  PROVE  Typed
BY BufferAssumption DEF WindowInv, BufferTypeOK, Typed, Cell

(* A null buffer that was not moved from never had any memory.             *)
LEMMA NullFacts ==
  ASSUME WindowInv, broken = "none", null, "moved" \notin spoiled
  PROVE  cap = 0 /\ data = <<>> /\ begin = 0
BY DEF WindowInv, BufferTypeOK, Unborn

LEMMA GrownFacts ==
  ASSUME Typed, NEW need \in Nat
  PROVE  Grown(need) \in Nat /\ Grown(need) > 0 /\ Grown(need) >= need
<1>1. PICK c \in Nat : c = IF cap < Page THEN Page ELSE cap
  BY DEF Typed
<1>2. c > 0
  BY <1>1 DEF Typed
<1>3. Grown(need) = Doubled(c, need)
  BY <1>1 DEF Grown
<1> QED BY <1>2, <1>3, DoubledFacts

(* deallocate() is told less than the size of the window.                  *)
Short(need, d) == need # 0 /\ need < Len(d)

(* What deallocate(need) leaves of a window d at b.                        *)
Settled(need, d, b) ==
    /\ data' \in Seq(Cell) /\ Len(data') = Len(d)
    /\ cap' \in Nat /\ begin' \in Nat
    /\ ~null \/ cap = 0 => data' = d
    /\ null' = null \/ (cap > 0 /\ null' = FALSE)
    /\ cap = 0 => cap' = 0 /\ begin' = b
    /\ cap > 0 => cap' > 0
    /\ broken' \in {"none", "overrun", "hang"}
    /\ /\ b + Len(d) <= cap /\ broken' = "none"
       /\ Short(need, d) => ~null
       => begin' + Len(data') <= cap'
    /\ broken' = "overrun" => Short(need, d) \/ b + Len(d) > cap
    /\ broken' = "hang" => Short(need, d) /\ init = 0 /\ ~sustain

LEMMA DeallocateFacts ==
  ASSUME Typed, broken = "none", NEW need \in Nat, NEW d \in Seq(Cell), NEW b \in Nat,
         Deallocate(need, d, b)
  PROVE  Settled(need, d, b)
<1> DEFINE r == IF need < Len(d) THEN init ELSE need
<1>0. Len(d) \in Nat /\ r \in Nat
  BY DEF Typed
<1>1. CASE /\ ~Deallocates(need) \/ (r > 0 /\ Shrunk(r) = cap)
           /\ data' = d /\ begin' = b
           /\ cap' = cap /\ null' = null /\ broken' = broken
  BY <1>0, <1>1 DEF Settled, Typed
<1>2. CASE /\ Deallocates(need) /\ r = 0
           /\ broken' = "hang"
           /\ data' = d /\ begin' = b
           /\ cap' = cap /\ null' = null
  <2>1. need > 0 /\ ~sustain /\ cap > init
    BY <1>2 DEF Deallocates
  <2>2. Short(need, d) /\ init = 0
    BY <1>0, <1>2, <2>1 DEF Short
  <2> QED BY <1>0, <1>2, <2>1, <2>2 DEF Settled, Typed
<1>3. CASE /\ Deallocates(need) /\ r > 0 /\ Shrunk(r) # cap
           /\ cap' = Shrunk(r)
           /\ begin' = 0
           /\ null' = FALSE
           /\ data' = IF null THEN Unwritten(Len(d)) ELSE d
           /\ broken' = IF ~null /\ (Torn(d, b) \/ Len(d) > Shrunk(r)) THEN "overrun" ELSE broken
  <2>1. cap > init /\ cap > 0
    BY <1>3 DEF Deallocates, Typed
  <2>2. PICK k \in Nat : k = r
    BY <1>0
  <2>3. PICK c \in Nat : c = Shrunk(r) /\ c < cap /\ c >= k
    <3>1. /\ Shrunk(k) \in Nat /\ Shrunk(k) <= cap
          /\ Shrunk(k) = cap \/ Shrunk(k) >= k
      BY <1>3, <2>2, ShrunkFacts DEF Typed
    <3> QED BY <1>3, <2>2, <3>1 DEF Typed
  <2>4. c > 0
    BY <1>3, <2>2, <2>3
  <2>5. need >= Len(d) => c >= Len(d)
    BY <1>0, <2>2, <2>3
  <2>6. Torn(d, b) => b + Len(d) > cap
    BY DEF Torn
  <2>7. /\ data' \in Seq(Cell) /\ Len(data') = Len(d)
        /\ ~null => data' = d
    <3>1. CASE null
      BY <1>0, <1>3, <3>1, UnwrittenFacts
    <3>2. CASE ~null
      BY <1>3, <3>2
    <3> QED BY <3>1, <3>2
  <2> HIDE DEF r
  <2>8. /\ broken' \in {"none", "overrun"}
        /\ broken' = "overrun" => Torn(d, b) \/ Len(d) > c
    BY <1>3, <2>3
  <2>9. broken' = "overrun" => Short(need, d) \/ b + Len(d) > cap
    BY <1>0, <1>3, <2>3, <2>5, <2>6, <2>8 DEF Short, Deallocates
  <2>10. broken' = "none" /\ ~null => Len(d) <= c
    BY <1>0, <1>3, <2>3
  <2>11. need # 0
    BY <1>3 DEF Deallocates
  <2>12. cap' = c /\ begin' = 0 /\ null' = FALSE
    BY <1>3, <2>3
  <2>13. ASSUME broken' = "none", Short(need, d) => ~null PROVE begin' + Len(data') <= cap'
    <3>1. Len(d) <= c
      BY <1>0, <2>5, <2>10, <2>11, <2>13 DEF Short
    <3> QED BY <3>1, <2>7, <2>12, <1>0
  <2>14. cap > 0 /\ cap' > 0 /\ cap' \in Nat /\ begin' \in Nat /\ cap # 0
    BY <2>1, <2>3, <2>4, <2>12 DEF Typed
  <2> QED BY ONLY <2>7, <2>8, <2>9, <2>11, <2>12, <2>13, <2>14 DEF Settled
<1> QED BY <1>1, <1>2, <1>3 DEF Deallocate

(* What deallocate() keeps of the invariant: the window may have lost      *)
(* bytes in front or behind, and whoever tells it less than the window's   *)
(* size is to blame for what comes of it.                                  *)
LEMMA SettledKeeps ==
  ASSUME WindowInv, broken = "none",
         NEW need \in Nat, NEW d \in Seq(Cell), NEW b \in Nat,
         Settled(need, d, b),
         init' = init, sustain' = sustain,
         spoiled \subseteq spoiled', spoiled' \subseteq Spoils,
         "moved" \in spoiled' => "moved" \in spoiled,
         "read" \notin spoiled' => b + Len(d) <= cap,
         Short(need, d) => "readBuffer" \in spoiled' /\ ~null,
         cap = 0 => d = <<>> /\ b = 0,
         queue' \in Seq(Cell),
         Trusted' => queue' = d
  PROVE  WindowInv'
<1>1. Typed
  BY TypeFacts
<1>2. Len(d) \in Nat
  OBVIOUS
<1>3. /\ data' \in Seq(Cell) /\ Len(data') = Len(d)
      /\ cap' \in Nat /\ begin' \in Nat
      /\ ~null \/ cap = 0 => data' = d
      /\ cap = 0 => cap' = 0 /\ begin' = b
      /\ cap > 0 => cap' > 0
      /\ broken' \in {"none", "overrun", "hang"}
      /\ broken' = "overrun" => Short(need, d) \/ b + Len(d) > cap
      /\ broken' = "hang" => Short(need, d) /\ init = 0 /\ ~sustain
  BY DEF Settled
<1>4. null' = null \/ (cap > 0 /\ null' = FALSE)
  BY DEF Settled
<1>5. "moved" \notin spoiled' => (null' <=> cap' = 0)
  <2>1. ASSUME "moved" \notin spoiled' PROVE null <=> cap = 0
    BY <2>1 DEF WindowInv, BufferTypeOK
  <2>2. cap' = 0 <=> cap = 0
    BY <1>1, <1>3 DEF Typed
  <2>3. cap > 0 => cap # 0
    BY <1>1 DEF Typed
  <2>4. CASE null' = null
    BY <2>1, <2>2, <2>4, Zenon
  <2>5. CASE cap > 0 /\ null' = FALSE
    <3>1. cap' # 0 /\ ~null'
      BY <2>2, <2>3, <2>5
    <3> QED BY <3>1, Zenon
  <2> QED BY <1>4, <2>4, <2>5
<1>6. BufferTypeOK'
  <2>1. null' \in BOOLEAN /\ sustain' \in BOOLEAN
    BY <1>4 DEF WindowInv, BufferTypeOK
  <2>2. init' \in InitSizes /\ spoiled' \subseteq Spoils
    BY DEF WindowInv, BufferTypeOK
  <2>3. broken' \in {"none", "null", "overrun", "hang", "underflow", "freed"}
    BY <1>3
  <2> QED BY <1>3, <1>5, <2>1, <2>2, <2>3 DEF BufferTypeOK, Cell
<1>7. Inside'
  <2> SUFFICES ASSUME broken' = "none", "read" \notin spoiled' PROVE begin' + Len(data') <= cap'
    BY DEF Inside
  <2>1. b + Len(d) <= cap
    OBVIOUS
  <2> QED BY <2>1 DEF Settled
<1>8. Unborn'
  <2> SUFFICES ASSUME cap' = 0 PROVE data' = <<>> /\ begin' = 0
    BY DEF Unborn
  <2>1. cap = 0
    BY <1>1, <1>3 DEF Typed
  <2> QED BY <1>3, <2>1
<1>9. Same'
  <2> SUFFICES ASSUME Trusted' PROVE data' = queue'
    BY DEF Same
  <2>1. ~null \/ cap = 0
    BY NullFacts, TrustFacts
  <2> QED BY <1>3, <2>1
<1>10. BrokenCause'
  <2>1. broken' # "null"
    BY <1>3
  <2>2. broken' = "overrun" => spoiled' \cap {"read", "readBuffer"} # {}
    <3> SUFFICES ASSUME broken' = "overrun", "read" \notin spoiled' PROVE "readBuffer" \in spoiled'
      OBVIOUS
    <3>1. b + Len(d) <= cap
      OBVIOUS
    <3>2. ~(b + Len(d) > cap)
      BY <1>1, <1>2, <3>1 DEF Typed
    <3> QED BY <1>3, <3>2
  <2>3. broken' = "hang" => "readBuffer" \in spoiled' /\ init' = 0 /\ ~sustain'
    BY <1>3
  <2>4. broken' # "freed"
    BY <1>3
  <2> QED BY <2>1, <2>2, <2>3, <2>4 DEF BrokenCause
<1> QED BY <1>6, <1>7, <1>8, <1>9, <1>10 DEF WindowInv
-----------------------------------------------------------------------------
(* What reallocate(need) leaves, with room for need bytes.                 *)
Moved(m, need) ==
    /\ m.data \in Seq(Cell) /\ Len(m.data) = Len(data)
    /\ m.cap \in Nat /\ m.cap > 0 /\ m.begin \in Nat
    /\ ~null => m.data = data
    /\ m.null = null \/ m.null = FALSE
    /\ "moved" \notin spoiled => m.null = FALSE /\ m.data = data
    /\ m.broken \in {"none", "null", "overrun"}
    /\ m.broken = "null" => "moved" \in spoiled
    /\ "read" \notin spoiled => m.begin + need <= m.cap /\ m.broken # "overrun"

LEMMA ReallocateFacts ==
  ASSUME Typed, WindowInv, broken = "none", NEW need \in Nat, Len(data) < need
  PROVE  Moved(Reallocate(need), need)
<1> DEFINE m == Reallocate(need)
<1>1. "read" \notin spoiled => begin + Len(data) <= cap
  BY DEF WindowInv, Inside
<1>2. cap = 0 => data = <<>> /\ begin = 0 /\ Len(data) = 0
  BY DEF WindowInv, Unborn
<1>3. "moved" \notin spoiled => (null <=> cap = 0)
  BY DEF WindowInv, BufferTypeOK
<1>4. Torn(data, begin) => "read" \in spoiled
  BY <1>1 DEF Torn, Typed
<1>5. CASE Fits(need)
  <2>1. m.cap = cap /\ m.begin = begin /\ m.data = data /\ m.broken = "none"
    BY <1>5 DEF Reallocate
  <2>2. m.null = null
    BY <1>5 DEF Reallocate
  <2>3. cap > 0 /\ cap # 0
    BY <1>2, <1>5 DEF Fits, Typed
  <2>4. "read" \notin spoiled => begin + need <= cap
    BY <1>1, <1>5 DEF Fits, Typed
  <2>5. "moved" \notin spoiled => m.null = FALSE
    BY <1>3, <2>2, <2>3 DEF Typed
  <2> HIDE DEF m
  <2>6. m.data \in Seq(Cell) /\ Len(m.data) = Len(data) /\ m.cap \in Nat /\ m.cap > 0 /\ m.begin \in Nat
    BY <2>1, <2>3 DEF Typed
  <2>7. "read" \notin spoiled => m.begin + need <= m.cap /\ m.broken # "overrun"
    BY <2>1, <2>4
  <2>8. m.broken \in {"none", "null", "overrun"} /\ m.broken # "null"
    BY <2>1
  <2> QED BY ONLY <2>1, <2>2, <2>5, <2>6, <2>7, <2>8, Zenon DEF m, Moved
<1>6. CASE ~Fits(need) /\ need <= cap
  <2>1. /\ m.cap = cap /\ m.begin = 0 /\ m.data = data
        /\ m.broken = IF data = <<>> THEN "none"
                     ELSE IF null THEN "null"
                     ELSE IF Torn(data, begin) THEN "overrun" ELSE "none"
    BY <1>6 DEF Reallocate
  <2>2. m.null = null
    BY <1>6 DEF Reallocate
  <2>3. cap > 0 /\ cap # 0 /\ 0 + need <= cap
    BY <1>6 DEF Typed
  <2>4. "moved" \notin spoiled => m.null = FALSE /\ ~null
    BY <1>3, <2>2, <2>3 DEF Typed
  <2> HIDE DEF m
  <2>5. /\ m.broken \in {"none", "null", "overrun"}
        /\ m.broken = "null" => "moved" \in spoiled
        /\ m.broken = "overrun" => "read" \in spoiled
    BY <1>4, <2>1, <2>4
  <2>6. m.data \in Seq(Cell) /\ Len(m.data) = Len(data) /\ m.cap \in Nat /\ m.cap > 0 /\ m.begin \in Nat
    BY <2>1, <2>3 DEF Typed
  <2>7. "read" \notin spoiled => m.begin + need <= m.cap /\ m.broken # "overrun"
    BY <2>1, <2>3, <2>5
  <2>8. m.data = data
    BY <2>1
  <2> QED BY ONLY <2>2, <2>4, <2>5, <2>6, <2>7, <2>8, Zenon DEF m, Moved
<1>7. CASE ~Fits(need) /\ ~(need <= cap)
  <2>1. /\ m.cap = Grown(need) /\ m.begin = 0
        /\ m.data = IF null THEN Unwritten(Len(data)) ELSE data
        /\ m.broken = IF ~null /\ Torn(data, begin) THEN "overrun" ELSE "none"
    BY <1>7 DEF Reallocate
  <2>2. m.null = FALSE
    BY <1>7 DEF Reallocate
  <2>3. PICK c \in Nat : c = Grown(need) /\ c > 0 /\ 0 + need <= c
    BY GrownFacts
  <2> HIDE DEF m
  <2>4. m.data \in Seq(Cell) /\ Len(m.data) = Len(data) /\ (~null => m.data = data)
    <3>1. CASE null
      BY <2>1, <3>1, UnwrittenFacts DEF Typed
    <3>2. CASE ~null
      BY <2>1, <3>2 DEF Typed
    <3> QED BY <3>1, <3>2
  <2>5. "moved" \notin spoiled => m.data = data
    <3>1. CASE null /\ "moved" \notin spoiled
      <4>1. data = <<>> /\ Len(data) = 0
        BY <1>2, <1>3, <3>1
      <4>2. \A s \in Seq(Cell) : Len(s) = 0 => s = <<>>
        BY EmptySeq
      <4> QED BY <2>4, <4>1, <4>2
    <3>2. CASE ~null
      BY <2>4, <3>2
    <3> QED BY <3>1, <3>2
  <2>6. m.broken \in {"none", "overrun"} /\ (m.broken = "overrun" => "read" \in spoiled)
    BY <1>4, <2>1
  <2>7. m.cap \in Nat /\ m.cap > 0 /\ m.begin \in Nat
    BY <2>1, <2>3
  <2>8. "read" \notin spoiled => m.begin + need <= m.cap /\ m.broken # "overrun"
    BY <2>1, <2>3, <2>6
  <2>9. m.broken \in {"none", "null", "overrun"} /\ m.broken # "null"
    BY <2>6
  <2> QED BY ONLY <2>2, <2>4, <2>5, <2>7, <2>8, <2>9, Zenon DEF m, Moved
<1> QED BY <1>5, <1>6, <1>7

(* append() and ensureWrite(): room for t behind the window, of which the  *)
(* first n bytes are written.                                              *)
LEMMA ExtendKeeps ==
  ASSUME WindowInv, broken = "none",
         NEW t \in Seq(Cell), Len(t) > 0, NEW n \in 0..Len(t), Extend(t, n),
         spoiled \subseteq spoiled', spoiled' \subseteq Spoils,
         "read" \in spoiled' => "read" \in spoiled, "moved" \in spoiled' => "moved" \in spoiled,
         Trusted' => Trusted
  PROVE  WindowInv'
<1>1. Typed
  BY TypeFacts
<1>2. Len(t) \in Nat
  OBVIOUS
<1>3. PICK need \in Nat : need = Len(data) + Len(t)
  BY <1>1, <1>2 DEF Typed
<1> DEFINE m == Reallocate(need)
<1>4. Moved(m, need)
  BY <1>1, <1>2, <1>3, ReallocateFacts DEF Typed
<1>5. /\ data' = m.data \o t /\ cap' = m.cap /\ begin' = m.begin
      /\ broken' = IF m.broken # "none" \/ n = 0 THEN m.broken
                   ELSE IF m.null THEN "null"
                   ELSE IF m.begin + Len(data) + n > m.cap THEN "overrun" ELSE "none"
      /\ Expect(queue \o t)
  BY <1>3 DEF Extend
<1>6. null' = m.null
  BY <1>3 DEF Extend
<1>7. init' = init /\ sustain' = sustain
  BY DEF Extend
<1> HIDE DEF m
<1>8. data' \in Seq(Cell) /\ Len(data') = need
  <2>1. m.data \in Seq(Cell) /\ Len(m.data) = Len(data)
    BY <1>4 DEF Moved
  <2>2. m.data \o t \in Seq(Cell) /\ Len(m.data \o t) = Len(m.data) + Len(t)
    BY <2>1, ConcatProperties
  <2> QED BY <1>3, <1>5, <2>1, <2>2
<1>9. queue' \in Seq(Cell) /\ (Trusted' => queue' = queue \o t)
  <2>1. queue \o t \in Seq(Cell)
    BY <1>1, ConcatProperties DEF Typed
  <2> QED BY <1>5, <1>7, <2>1 DEF Expect
<1>10. /\ cap' \in Nat /\ cap' > 0 /\ cap' # 0 /\ begin' \in Nat
       /\ "read" \notin spoiled => begin' + Len(data') <= cap' /\ ~(begin' + Len(data) + n > cap')
  <2>1. m.begin \in Nat /\ Len(data) \in Nat /\ Len(data) + n <= need
    BY <1>1, <1>3, <1>4 DEF Moved, Typed
  <2> QED BY <1>4, <1>5, <1>8, <2>1 DEF Moved
<1>11. broken' \in {"none", "null", "overrun"}
  BY <1>4, <1>5 DEF Moved
<1>12. "moved" \notin spoiled => null' = FALSE /\ m.data = data
  BY <1>4, <1>6 DEF Moved
<1>13. broken' = "null" => "moved" \in spoiled
  BY <1>4, <1>5, <1>6, <1>12 DEF Moved
<1>14. broken' = "overrun" => "read" \in spoiled
  BY <1>4, <1>5, <1>10 DEF Moved
<1>15. BufferTypeOK'
  <2>1. null' \in BOOLEAN
    BY <1>1, <1>4, <1>6 DEF Moved, Typed
  <2>2. "moved" \notin spoiled' => (null' <=> cap' = 0)
    BY <1>7, <1>10, <1>12
  <2>3. init' \in InitSizes /\ sustain' \in BOOLEAN /\ spoiled' \subseteq Spoils
    BY <1>7 DEF WindowInv, BufferTypeOK
  <2>4. broken' \in {"none", "null", "overrun", "hang", "underflow", "freed"}
    BY <1>11
  <2> QED BY <1>8, <1>9, <1>10, <2>1, <2>2, <2>3, <2>4 DEF BufferTypeOK, Cell
<1>16. Inside' /\ Unborn'
  BY <1>7, <1>10 DEF Inside, Unborn
<1>17. Same'
  BY <1>5, <1>7, <1>9, <1>12, TrustFacts DEF Same, WindowInv
<1>18. BrokenCause'
  BY <1>7, <1>11, <1>13, <1>14 DEF BrokenCause
<1> QED BY <1>15, <1>16, <1>17, <1>18 DEF WindowInv
-----------------------------------------------------------------------------
(* The calls                                                               *)

LEMMA BufferInitInv ==
  ASSUME BufferInit
  PROVE  WindowInv
<1>1. init \in Nat /\ Page \in Nat /\ Page > 0
  BY BufferAssumption DEF BufferInit
<1>2. cap \in Nat /\ (init = 0 <=> cap = 0)
  <2>1. CASE init = 0
    BY <2>1 DEF BufferInit
  <2>2. CASE init # 0
    <3>1. PICK k \in Nat : k = init
      BY <1>1
    <3>2. Doubled(Page, k) \in Nat /\ Doubled(Page, k) > 0
      BY <1>1, DoubledFacts
    <3>3. cap = Doubled(Page, k)
      BY <2>2, <3>1 DEF BufferInit
    <3> QED BY <2>2, <3>2, <3>3
  <2> QED BY <2>1, <2>2
<1>3. null = (init = 0) /\ sustain \in BOOLEAN
  BY DEF BufferInit
<1>4. null \in BOOLEAN /\ (null <=> cap = 0)
  BY <1>2, <1>3, Zenon
<1>5. /\ data = <<>> /\ begin = 0 /\ queue = <<>> /\ spoiled = {} /\ broken = "none"
      /\ init \in InitSizes
  BY DEF BufferInit
<1>6. data \in Seq(Byte \cup {Junk}) /\ queue \in Seq(Byte \cup {Junk}) /\ begin \in Nat
  BY <1>5, EmptySeq
<1>7. BufferTypeOK
  BY <1>2, <1>3, <1>4, <1>5, <1>6 DEF BufferTypeOK
<1>8. Inside /\ Unborn /\ Same
  <2>1. Len(data) = 0
    BY <1>5, EmptySeq
  <2> QED BY <1>2, <1>5, <2>1 DEF Inside, Unborn, Same
<1>9. BrokenCause
  BY <1>5 DEF BrokenCause
<1> QED BY <1>7, <1>8, <1>9 DEF WindowInv

(* A step that stops the program and changes nothing.                      *)
LEMMA BrokenKeeps ==
  ASSUME WindowInv, NEW f \in {"null", "overrun", "underflow"}, Broken(f),
         f = "null" => "moved" \in spoiled, f = "overrun" => "read" \in spoiled
  PROVE  WindowInv'
<1>1. broken' = f /\ UNCHANGED <<data, cap, begin, null, init, sustain, queue, spoiled>>
  BY DEF Broken
<1>2. BufferTypeOK'
  BY <1>1 DEF WindowInv, BufferTypeOK
<1>3. Inside' /\ Unborn' /\ Same'
  BY <1>1 DEF Inside, Unborn, Same
<1>4. BrokenCause'
  BY <1>1 DEF BrokenCause
<1> QED BY <1>2, <1>3, <1>4 DEF WindowInv

LEMMA AppendKeeps ==
  ASSUME WindowInv, NEW n \in 1..MaxBytes, NEW s \in [1..n -> Byte], AppendData(s)
  PROVE  WindowInv'
<1>1. n \in Nat /\ n > 0
  OBVIOUS
<1>2. s \in Seq(Cell) /\ Len(s) = n
  BY <1>1 DEF Cell
<1>3. spoiled' = spoiled /\ Extend(s, n) /\ broken = "none"
  BY <1>2 DEF AppendData
<1> QED BY <1>1, <1>2, <1>3, TrustFacts, ExtendKeeps DEF WindowInv, BufferTypeOK, Trusted

LEMMA AppendEvbufferKeeps ==
  ASSUME WindowInv, NEW n \in 1..MaxBytes, NEW k \in 0..n, NEW s \in [1..k -> Byte],
         AppendEvbuffer(s, n)
  PROVE  WindowInv'
<1>1. n \in Nat /\ n > 0 /\ k \in Nat /\ n - k \in Nat
  OBVIOUS
<1>2. s \in Seq(Cell) /\ Len(s) = k
  BY <1>1 DEF Cell
<1>3. PICK u \in Seq(Cell) : u = Unwritten(n - k) /\ Len(u) = n - k
  BY <1>1, UnwrittenFacts
<1>4. PICK t \in Seq(Cell) : t = s \o u /\ Len(t) = n
  <2>1. s \o u \in Seq(Cell) /\ Len(s \o u) = Len(s) + Len(u)
    BY <1>2, <1>3, ConcatProperties
  <2>2. Len(s \o u) = n
    BY <1>1, <1>2, <1>3, <2>1
  <2> QED BY <2>1, <2>2
<1>5. /\ broken = "none" /\ Extend(t, k)
      /\ spoiled' = IF k < n THEN spoiled \cup {"short"} ELSE spoiled
  BY <1>2, <1>3, <1>4 DEF AppendEvbuffer
<1>6. /\ spoiled \subseteq spoiled' /\ spoiled' \subseteq Spoils
      /\ "read" \in spoiled' => "read" \in spoiled
      /\ "moved" \in spoiled' => "moved" \in spoiled
      /\ Trusted' => Trusted
  BY <1>5 DEF WindowInv, BufferTypeOK, Spoils, Trusted
<1> QED BY <1>1, <1>4, <1>5, <1>6, ExtendKeeps

LEMMA AppendSelfKeeps ==
  ASSUME WindowInv, AppendSelf
  PROVE  WindowInv'
<1>1. Typed /\ broken = "none" /\ Len(data) \in Nat /\ Len(data) > 0
  BY TypeFacts DEF AppendSelf, Typed
<1>2. /\ spoiled \subseteq spoiled' /\ spoiled' \subseteq Spoils
      /\ "read" \in spoiled' => "read" \in spoiled
      /\ "moved" \in spoiled' => "moved" \in spoiled
      /\ Trusted' => Trusted
  BY DEF AppendSelf, WindowInv, BufferTypeOK, Spoils, Trusted
<1>3. PICK t \in Seq(Cell) :
          /\ t = IF Fits(2 * Len(data)) THEN data ELSE Unwritten(Len(data))
          /\ Len(t) = Len(data)
  BY <1>1, UnwrittenFacts DEF Typed
<1>4. CASE Extend(t, Len(data))
  BY <1>1, <1>2, <1>3, <1>4, ExtendKeeps
<1>5. CASE /\ ~Fits(2 * Len(data)) /\ broken' = "freed"
           /\ UNCHANGED <<data, cap, begin, null, init, sustain, queue>>
  <2>1. "self" \in spoiled'
    BY <1>5 DEF AppendSelf
  <2>2. BufferTypeOK'
    BY <1>2, <1>5 DEF WindowInv, BufferTypeOK
  <2> QED BY <1>5, <2>1, <2>2 DEF WindowInv, Inside, Unborn, Same, BrokenCause
<1> QED BY <1>3, <1>4, <1>5 DEF AppendSelf

LEMMA EnsureWriteKeeps ==
  ASSUME WindowInv, NEW n \in 1..MaxBytes, EnsureWrite(n)
  PROVE  WindowInv'
<1>1. n \in Nat /\ n > 0
  OBVIOUS
<1>2. PICK t \in Seq(Cell) : t = Unwritten(n) /\ Len(t) = n
  BY <1>1, UnwrittenFacts
<1>3. spoiled' = spoiled /\ Extend(t, 0) /\ broken = "none"
  BY <1>2 DEF EnsureWrite
<1> QED BY <1>1, <1>2, <1>3, TrustFacts, ExtendKeeps DEF WindowInv, BufferTypeOK, Trusted

LEMMA BeginWriteKeeps ==
  ASSUME WindowInv, NEW i \in 1..MaxWindow, NEW x \in Byte, BeginWrite(i, x)
  PROVE  WindowInv'
<1>1. Typed /\ broken = "none" /\ ~null /\ i \in DOMAIN data
  BY TypeFacts DEF BeginWrite
<1>2. i \in Nat /\ i <= Len(data) /\ x \in Cell /\ DOMAIN data = 1..Len(data)
  BY <1>1 DEF Typed, Cell
<1>3. CASE begin + i > cap
  <2>1. "read" \in spoiled
    BY <1>1, <1>2, <1>3 DEF WindowInv, Inside, Typed
  <2> QED BY <1>3, <2>1, BrokenKeeps DEF BeginWrite
<1>4. CASE ~(begin + i > cap)
  <2>1. /\ data' = [data EXCEPT ![i] = x]
        /\ UNCHANGED <<cap, begin, null, broken, init, sustain, spoiled>>
        /\ Expect([queue EXCEPT ![i] = x])
    BY <1>4 DEF BeginWrite
  <2>3. data' \in Seq(Cell) /\ Len(data') = Len(data)
    <3>1. i \in 1..Len(data) /\ data \in Seq(Cell)
      BY <1>1, <1>2 DEF Typed
    <3> QED BY <2>1, <3>1, <1>2, ExceptSeq
  <2>5. Trusted => queue' = data'
    BY <1>1, <2>1, TrustFacts DEF Expect, WindowInv, Same
  <2>4. queue' \in Seq(Cell)
    BY <2>1, <2>3, <2>5, EmptySeq, TrustFacts DEF Expect
  <2>6. BufferTypeOK'
    BY <2>1, <2>3, <2>4 DEF WindowInv, BufferTypeOK, Cell
  <2>7. Inside' /\ Same' /\ BrokenCause'
    BY <2>1, <2>3, <2>5, TrustFacts DEF WindowInv, Inside, Same, BrokenCause
  <2>8. Unborn'
    <3>1. cap # 0
      <4>1. cap = 0 => Len(data) = 0
        BY <1>1, EmptySeq DEF WindowInv, Unborn
      <4> QED BY <1>1, <1>2, <4>1
    <3> QED BY <2>1, <3>1 DEF Unborn
  <2> QED BY <2>6, <2>7, <2>8 DEF WindowInv
<1> QED BY <1>3, <1>4

(* How many bytes are taken when n are to be.                              *)
Less(n) == IF n > Len(data) THEN Len(data) ELSE n

LEMMA LessFacts ==
  ASSUME Typed, NEW n \in Nat
  PROVE  Less(n) \in 0..Len(data)
BY DEF Less, Typed

(* What a user expects afterwards is what the window shows.                *)
LEMMA QueueFacts ==
  ASSUME Typed, WindowInv, broken = "none", Trusted, NEW n \in Nat
  PROVE  /\ (IF n > Len(queue) THEN <<>> ELSE Before(queue, n)) = Before(data, Less(n))
         /\ (IF n > Len(queue) THEN <<>> ELSE After(queue, n)) = After(data, Less(n))
         /\ After(queue, n) = After(data, n)
<1>1. queue = data
  BY DEF WindowInv, Same
<1>2. CASE n > Len(data)
  <2>1. Less(n) = Len(data) /\ Len(data) \in 0..Len(data) /\ data \in Seq(Cell)
    BY <1>2 DEF Less, Typed
  <2> QED BY <1>1, <1>2, <2>1, PartFacts
<1>3. CASE ~(n > Len(data))
  BY <1>1, <1>3 DEF Less
<1> QED BY <1>2, <1>3

LEMMA UnwriteKeeps ==
  ASSUME WindowInv, NEW n \in Nat, Unwrite(n)
  PROVE  WindowInv'
<1>1. Typed /\ broken = "none"
  BY TypeFacts DEF Unwrite
<1>2. PICK k \in 0..Len(data) : k = Less(n)
  BY <1>1, LessFacts
<1>3. PICK d \in Seq(Cell) : d = Before(data, k) /\ Len(d) = Len(data) - k
  BY <1>1, <1>2, PartFacts DEF Typed
<1>4. PICK b \in Nat : b = begin
  BY <1>1 DEF Typed
<1>5. PICK need \in Nat : need = Len(d)
  OBVIOUS
<1>6. /\ Deallocate(need, d, b)
      /\ UNCHANGED <<init, sustain, spoiled>>
      /\ Expect(IF n > Len(queue) THEN <<>> ELSE Before(queue, n))
  BY <1>2, <1>3, <1>4, <1>5 DEF Unwrite, Less
<1>7. Settled(need, d, b)
  BY <1>1, <1>6, DeallocateFacts
<1>8. "read" \notin spoiled' => b + Len(d) <= cap
  <2>1. "read" \notin spoiled => begin + Len(data) <= cap
    BY <1>1 DEF WindowInv, Inside
  <2>2. k \in Nat /\ Len(d) \in Nat /\ Len(d) <= Len(data)
    BY <1>1, <1>2, <1>3 DEF Typed
  <2> QED BY <1>1, <1>4, <1>6, <2>1, <2>2 DEF Typed
<1>9. cap = 0 => d = <<>> /\ b = 0
  <2>1. cap = 0 => Len(data) = 0 /\ begin = 0
    BY <1>1, EmptySeq DEF WindowInv, Unborn
  <2>2. cap = 0 => Len(d) = 0
    BY <1>2, <1>3, <2>1
  <2> QED BY <1>3, <1>4, <2>1, <2>2, EmptySeq
<1>10. Trusted' => queue' = d
  BY <1>1, <1>2, <1>3, <1>6, QueueFacts, TrustFacts DEF Expect
<1>11. queue' \in Seq(Cell)
  <2>1. CASE Trusted'
    <3>1. queue' = d
      BY <1>10, <2>1
    <3> QED BY <3>1
  <2>2. CASE ~Trusted'
    <3>1. queue' = <<>>
      BY <1>6, <2>2 DEF Expect
    <3> QED BY <3>1, EmptySeq
  <2> QED BY <2>1, <2>2
<1>12. ~Short(need, d)
  BY <1>5 DEF Short
<1>13. spoiled' \subseteq Spoils
  BY <1>6 DEF WindowInv, BufferTypeOK
<1>14. /\ broken = "none" /\ init' = init /\ sustain' = sustain
       /\ spoiled \subseteq spoiled' /\ ("moved" \in spoiled' => "moved" \in spoiled)
  BY <1>1, <1>6
<1>15. Short(need, d) => "readBuffer" \in spoiled' /\ ~null
  BY <1>12
<1> QED BY ONLY <1>7, <1>8, <1>9, <1>10, <1>11, <1>13, <1>14, <1>15, WindowInv, SettledKeeps

LEMMA DiscardKeeps ==
  ASSUME WindowInv, NEW n \in Nat, Discard(n)
  PROVE  WindowInv'
<1>1. Typed /\ broken = "none"
  BY TypeFacts DEF Discard
<1>2. PICK k \in 0..Len(data) : k = Less(n)
  BY <1>1, LessFacts
<1>3. PICK d \in Seq(Cell) : d = After(data, k) /\ Len(d) = Len(data) - k
  BY <1>1, <1>2, PartFacts DEF Typed
<1>4. PICK b \in Nat : b = begin + k
  BY <1>1, <1>2 DEF Typed
<1>5. PICK need \in Nat : need = Len(d)
  OBVIOUS
<1>6. /\ Deallocate(need, d, b)
      /\ UNCHANGED <<init, sustain, spoiled>>
      /\ Expect(IF n > Len(queue) THEN <<>> ELSE After(queue, n))
  BY <1>2, <1>3, <1>4, <1>5 DEF Discard, Less
<1>7. Settled(need, d, b)
  BY <1>1, <1>6, DeallocateFacts
<1>8. "read" \notin spoiled' => b + Len(d) <= cap
  <2>1. "read" \notin spoiled => begin + Len(data) <= cap
    BY <1>1 DEF WindowInv, Inside
  <2>2. b + Len(d) = begin + Len(data)
    BY <1>1, <1>2, <1>3, <1>4 DEF Typed
  <2> QED BY <1>6, <2>1, <2>2
<1>9. cap = 0 => d = <<>> /\ b = 0
  <2>1. cap = 0 => Len(data) = 0 /\ begin = 0
    BY <1>1, EmptySeq DEF WindowInv, Unborn
  <2>2. cap = 0 => Len(d) = 0 /\ k = 0
    BY <1>2, <1>3, <2>1
  <2>3. Len(d) = 0 => d = <<>>
    BY EmptySeq
  <2>4. begin = 0 /\ k = 0 => b = 0
    BY <1>4
  <2> QED BY <2>1, <2>2, <2>3, <2>4
<1>10. Trusted' => queue' = d
  BY <1>1, <1>2, <1>3, <1>6, QueueFacts, TrustFacts DEF Expect
<1>11. queue' \in Seq(Cell)
  <2>1. CASE Trusted'
    <3>1. queue' = d
      BY <1>10, <2>1
    <3> QED BY <3>1
  <2>2. CASE ~Trusted'
    <3>1. queue' = <<>>
      BY <1>6, <2>2 DEF Expect
    <3> QED BY <3>1, EmptySeq
  <2> QED BY <2>1, <2>2
<1>12. ~Short(need, d)
  BY <1>5 DEF Short
<1>13. spoiled' \subseteq Spoils
  BY <1>6 DEF WindowInv, BufferTypeOK
<1>14. /\ broken = "none" /\ init' = init /\ sustain' = sustain
       /\ spoiled \subseteq spoiled' /\ ("moved" \in spoiled' => "moved" \in spoiled)
  BY <1>1, <1>6
<1>15. Short(need, d) => "readBuffer" \in spoiled' /\ ~null
  BY <1>12
<1> QED BY ONLY <1>7, <1>8, <1>9, <1>10, <1>11, <1>13, <1>14, <1>15, WindowInv, SettledKeeps

LEMMA ClearKeeps ==
  ASSUME WindowInv, Clear
  PROVE  WindowInv'
<1>1. Typed /\ broken = "none"
  BY TypeFacts DEF Clear
<1>2. PICK need \in Nat, d \in Seq(Cell), b \in Nat : need = 0 /\ d = <<>> /\ b = 0
  BY EmptySeq
<1>3. /\ Deallocate(need, d, b)
      /\ UNCHANGED <<init, sustain, spoiled>>
      /\ Expect(<<>>)
  BY <1>2 DEF Clear
<1>4. Settled(need, d, b)
  BY <1>1, <1>3, DeallocateFacts
<1>5. Len(d) = 0 /\ b + Len(d) <= cap /\ ~Short(need, d)
  BY <1>1, <1>2 DEF Typed, Short
<1>6. queue' = d
  BY <1>2, <1>3 DEF Expect
<1>7. spoiled' \subseteq Spoils
  BY <1>3 DEF WindowInv, BufferTypeOK
<1> QED BY <1>1, <1>2, <1>3, <1>4, <1>5, <1>6, <1>7, SettledKeeps

LEMMA ReadKeeps ==
  ASSUME WindowInv, NEW n \in Nat, Read(n)
  PROVE  WindowInv'
<1>1. Typed /\ broken = "none" /\ n <= Len(data) /\ Len(data) \in Nat
  BY TypeFacts DEF Read, Typed
<1>2. "read" \notin spoiled => begin + Len(data) <= cap
  BY <1>1 DEF WindowInv, Inside
<1>3. cap = 0 => data = <<>> /\ begin = 0 /\ n = 0
  <2>1. cap = 0 => data = <<>> /\ begin = 0
    BY <1>1 DEF WindowInv, Unborn
  <2>2. data = <<>> => Len(data) = 0
    BY EmptySeq
  <2> QED BY <1>1, <2>1, <2>2
<1>4. CASE n > 0 /\ (null \/ begin + n > cap)
  <2>1. Broken(IF null THEN "null" ELSE "overrun")
    BY <1>4 DEF Read
  <2>2. null => "moved" \in spoiled
    BY <1>1, <1>3, <1>4, NullFacts
  <2>3. begin + n > cap => "read" \in spoiled
    BY <1>1, <1>2 DEF Typed
  <2>4. CASE null
    BY <2>1, <2>2, <2>4, BrokenKeeps
  <2>5. CASE ~null
    BY <1>4, <2>1, <2>3, <2>5, BrokenKeeps
  <2> QED BY <2>4, <2>5
<1>5. CASE ~(n > 0 /\ (null \/ begin + n > cap))
  <2>1. PICK d \in Seq(Cell) :
            /\ d = IF n = 0 THEN data ELSE SubSeq(After(data, n) \o Unwritten(n), 1, n)
            /\ Len(d) = IF n = 0 THEN Len(data) ELSE n
            /\ n > 0 /\ 2 * n = Len(data) => d = After(data, n)
    <3>1. CASE n = 0
      BY <1>1, <3>1 DEF Typed
    <3>2. CASE n # 0
      <4>1. n \in 1..Len(data) /\ data \in Seq(Cell)
        BY <1>1, <3>2 DEF Typed
      <4> QED BY <4>1, <3>2, LeftFacts
    <3> QED BY <3>1, <3>2
  <2>2. PICK b \in Nat : b = begin + n
    BY <1>1 DEF Typed
  <2>3. PICK need \in Nat : need = Len(d)
    OBVIOUS
  <2>4. /\ Deallocate(need, d, b)
        /\ spoiled' = IF n > 0 /\ 2 * n # Len(data) THEN spoiled \cup {"read"} ELSE spoiled
        /\ UNCHANGED <<init, sustain>>
        /\ Expect(After(queue, n))
    BY <1>5, <2>1, <2>2, <2>3 DEF Read
  <2>5. Settled(need, d, b)
    BY <1>1, <2>4, DeallocateFacts
  <2>6. "read" \notin spoiled' => /\ "read" \notin spoiled
                                  /\ n = 0 \/ 2 * n = Len(data)
    BY <2>4
  <2>7. "read" \notin spoiled' => b + Len(d) <= cap
    <3>1. CASE n = 0
      BY <1>1, <1>2, <2>1, <2>2, <2>6, <3>1 DEF Typed
    <3>2. CASE n # 0 /\ 2 * n = Len(data)
      <4>1. b + Len(d) = begin + Len(data)
        <5>1. Len(d) = n /\ Len(data) = n + n /\ b = begin + n /\ begin \in Nat
          BY <1>1, <2>1, <2>2, <3>2 DEF Typed
        <5> QED BY ONLY <5>1, n \in Nat
      <4> QED BY <1>2, <2>6, <4>1
    <3> QED BY <2>6, <3>1, <3>2
  <2>8. cap = 0 => d = <<>> /\ b = 0
    <3>1. n = 0 /\ begin = 0 => b = 0
      BY <2>2
    <3> QED BY <1>3, <2>1, <3>1
  <2>9. Trusted' => queue' = d
    <3> SUFFICES ASSUME Trusted' PROVE queue' = d
      OBVIOUS
    <3>1. Trusted /\ "read" \notin spoiled' /\ queue' = After(queue, n)
      BY <2>4, TrustFacts DEF Expect
    <3>2. queue' = After(data, n)
      BY <1>1, <3>1, QueueFacts
    <3>3. CASE n = 0
      <4>1. n \in 0..Len(data) /\ data \in Seq(Cell)
        BY <1>1, <3>3 DEF Typed
      <4>2. After(data, n) = data
        BY <3>3, <4>1, PartFacts
      <4> QED BY <2>1, <3>2, <3>3, <4>2
    <3>4. CASE n # 0
      BY <2>1, <2>6, <3>1, <3>2, <3>4
    <3> QED BY <3>3, <3>4
  <2>10. queue' \in Seq(Cell)
    <3>1. CASE Trusted'
      <4>1. queue' = d
        BY <2>9, <3>1
      <4> QED BY <4>1
    <3>2. CASE ~Trusted'
      <4>1. queue' = <<>>
        BY <2>4, <3>2 DEF Expect
      <4> QED BY <4>1, EmptySeq
    <3> QED BY <3>1, <3>2
  <2>11. ~Short(need, d)
    BY <2>3 DEF Short
  <2>12. /\ spoiled \subseteq spoiled' /\ spoiled' \subseteq Spoils
         /\ "moved" \in spoiled' => "moved" \in spoiled
    BY <2>4 DEF WindowInv, BufferTypeOK, Spoils
  <2> QED BY <1>1, <2>4, <2>5, <2>7, <2>8, <2>9, <2>10, <2>11, <2>12, SettledKeeps
<1> QED BY <1>4, <1>5

LEMMA ReadBufferKeeps ==
  ASSUME WindowInv, NEW n \in Nat, ReadBuffer(n)
  PROVE  WindowInv'
<1>1. Typed /\ broken = "none" /\ Len(data) \in Nat
  BY TypeFacts DEF ReadBuffer, Typed
<1>2. "read" \notin spoiled => begin + Len(data) <= cap
  BY <1>1 DEF WindowInv, Inside
<1>3. cap = 0 => data = <<>> /\ begin = 0 /\ Len(data) = 0
  BY <1>1, EmptySeq DEF WindowInv, Unborn
<1>4. CASE n > 0 /\ (null \/ n > Len(data) \/ begin + n > cap)
  <2>1. Broken(IF n > Len(data) THEN "underflow" ELSE IF null THEN "null" ELSE "overrun")
    BY <1>4 DEF ReadBuffer
  <2>2. CASE n > Len(data)
    BY <2>1, <2>2, BrokenKeeps
  <2>3. CASE ~(n > Len(data)) /\ null
    <3>1. "moved" \in spoiled
      BY <1>1, <1>3, <1>4, <2>3, NullFacts
    <3> QED BY <2>1, <2>3, <3>1, BrokenKeeps
  <2>4. CASE ~(n > Len(data)) /\ ~null
    <3>1. "read" \in spoiled
      BY <1>1, <1>2, <1>4, <2>4 DEF Typed
    <3> QED BY <2>1, <2>4, <3>1, BrokenKeeps
  <2> QED BY <2>2, <2>3, <2>4
<1>5. CASE ~(n > 0 /\ (null \/ n > Len(data) \/ begin + n > cap))
  <2>1. n \in 0..Len(data) /\ data \in Seq(Cell) /\ (n = 0 \/ ~null)
    BY <1>1, <1>5 DEF Typed
  <2>2. PICK d \in Seq(Cell) : d = After(data, n) /\ Len(d) = Len(data) - n /\ (n = 0 => d = data)
    BY <2>1, PartFacts
  <2>3. PICK b \in Nat : b = begin + n
    BY <1>1 DEF Typed
  <2>4. /\ Deallocate(n, d, b)
        /\ spoiled' = IF n > 0 /\ 2 * n < Len(data) THEN spoiled \cup {"readBuffer"} ELSE spoiled
        /\ UNCHANGED <<init, sustain>>
        /\ Expect(After(queue, n))
    BY <1>5, <2>2, <2>3 DEF ReadBuffer
  <2>5. Settled(n, d, b)
    BY <1>1, <2>4, DeallocateFacts
  <2>6. /\ "read" \in spoiled <=> "read" \in spoiled'
        /\ "moved" \in spoiled <=> "moved" \in spoiled'
        /\ spoiled \subseteq spoiled'
        /\ spoiled' \subseteq Spoils
    BY <2>4 DEF WindowInv, BufferTypeOK, Spoils
  <2>7. b + Len(d) = begin + Len(data)
    BY <1>1, <2>1, <2>2, <2>3 DEF Typed
  <2>8. cap = 0 => d = <<>> /\ b = 0
    <3>1. cap = 0 => n = 0
      BY <1>3, <2>1
    <3>2. n = 0 /\ begin = 0 => b = 0
      BY <2>3
    <3> QED BY <1>3, <2>2, <3>1, <3>2
  <2>9. Trusted' => queue' = d
    BY <1>1, <2>2, <2>4, <2>6, QueueFacts, TrustFacts DEF Expect
  <2>10. queue' \in Seq(Cell)
    <3>1. CASE Trusted'
      <4>1. queue' = d
        BY <2>9, <3>1
      <4> QED BY <4>1
    <3>2. CASE ~Trusted'
      <4>1. queue' = <<>>
        BY <2>4, <3>2 DEF Expect
      <4> QED BY <4>1, EmptySeq
    <3> QED BY <3>1, <3>2
  <2>11. Short(n, d) => "readBuffer" \in spoiled' /\ ~null
    <3> SUFFICES ASSUME Short(n, d) PROVE "readBuffer" \in spoiled' /\ ~null
      OBVIOUS
    <3>1. n > 0 /\ n # 0 /\ n < Len(data) - n
      BY <2>2 DEF Short
    <3>2. 2 * n < Len(data)
      BY <1>1, <3>1
    <3> QED BY <2>1, <2>4, <3>1, <3>2
  <2>12. "read" \notin spoiled' => b + Len(d) <= cap
    BY <1>2, <2>6, <2>7
  <2> QED BY <1>1, <2>4, <2>5, <2>6, <2>8, <2>9, <2>10, <2>11, <2>12, SettledKeeps
<1> QED BY <1>4, <1>5

LEMMA MoveKeeps ==
  ASSUME WindowInv, Move
  PROVE  WindowInv'
<1>1. Typed /\ broken = "none" /\ null' = TRUE /\ queue' = <<>>
  BY TypeFacts DEF Move
<1>2. /\ spoiled' = IF cap > 0 THEN spoiled \cup {"moved"} ELSE spoiled
      /\ UNCHANGED <<data, cap, begin, init, sustain, broken>>
  BY DEF Move
<1>3. cap = 0 => data = <<>> /\ begin = 0
  BY <1>1 DEF WindowInv, Unborn
<1>4. "moved" \notin spoiled' => cap = 0
  BY <1>1, <1>2 DEF Typed
<1>5. "read" \in spoiled' <=> "read" \in spoiled
  BY <1>2
<1>6. BufferTypeOK'
  <2>1. queue' \in Seq(Byte \cup {Junk})
    BY <1>1, EmptySeq
  <2>2. spoiled' \subseteq Spoils
    BY <1>2 DEF WindowInv, BufferTypeOK, Spoils
  <2>3. null' \in BOOLEAN /\ ("moved" \notin spoiled' => (null' <=> cap' = 0))
    BY <1>1, <1>2, <1>4
  <2> QED BY <1>2, <2>1, <2>2, <2>3 DEF WindowInv, BufferTypeOK
<1>7. Inside' /\ Unborn' /\ BrokenCause'
  BY <1>1, <1>2, <1>5 DEF WindowInv, Inside, Unborn, BrokenCause
<1>8. Same'
  BY <1>1, <1>2, <1>3, <1>4, TrustFacts DEF Same
<1> QED BY <1>6, <1>7, <1>8 DEF WindowInv

LEMMA BufferNextKeeps ==
  ASSUME WindowInv, [BufferNext]_bufferVars
  PROVE  WindowInv'
<1>1. \A n \in 1..MaxBytes : n \in Nat
  OBVIOUS
<1>2. \A n \in 0..MaxBytes : n \in Nat
  OBVIOUS
<1>3. CASE \E n \in 1..MaxBytes : \E s \in [1..n -> Byte] : AppendData(s)
  BY <1>3, AppendKeeps
<1>4. CASE \E n \in 1..MaxBytes : EnsureWrite(n)
  BY <1>4, EnsureWriteKeeps
<1>9. CASE \E n \in 1..MaxBytes : \E k \in 0..n : \E s \in [1..k -> Byte] : AppendEvbuffer(s, n)
  BY <1>9, AppendEvbufferKeeps
<1>10. CASE AppendSelf
  BY <1>10, AppendSelfKeeps
<1>5. CASE \E i \in 1..MaxWindow, x \in Byte : BeginWrite(i, x)
  BY <1>5, BeginWriteKeeps
<1>6. CASE \E n \in 0..MaxBytes : Unwrite(n) \/ Discard(n) \/ Read(n) \/ ReadBuffer(n)
  BY <1>2, <1>6, UnwriteKeeps, DiscardKeeps, ReadKeeps, ReadBufferKeeps
<1>7. CASE Clear \/ Move
  BY <1>7, ClearKeeps, MoveKeeps
<1>8. CASE UNCHANGED bufferVars
  <2>1. UNCHANGED <<data, cap, begin, null, init, sustain, broken, queue, spoiled>>
    BY <1>8 DEF bufferVars
  <2> QED BY <2>1 DEF WindowInv, BufferTypeOK, Inside, Unborn, Same, Trusted,
          BrokenCause
<1> QED BY <1>3, <1>4, <1>5, <1>6, <1>7, <1>8, <1>9, <1>10 DEF BufferNext

LEMMA BufferInv == BufferSpec => []WindowInv
<1>1. BufferInit => WindowInv
  BY BufferInitInv
<1>2. WindowInv /\ [BufferNext]_bufferVars => WindowInv'
  BY BufferNextKeeps
<1> QED BY <1>1, <1>2, PTL DEF BufferSpec

(* append() of bytes, of an evbuffer and of the buffer itself,             *)
(* ensureWrite(), unwrite(), discard(), clear(), read() and readBuffer(),  *)
(* in any order: a Buffer is the queue of what was appended and not yet    *)
(* taken, and no copy leaves its memory, for users who read() the half     *)
(* only, never use a moved-from buffer, never append a buffer to itself    *)
(* without room and ask of an evbuffer no more than it gives.              *)
THEOREM BufferIsQueue == BufferSpec => []ContentsKept
<1>1. WindowInv => ContentsKept
  <2> SUFFICES ASSUME WindowInv PROVE ContentsKept
    OBVIOUS
  <2>1. ASSUME broken = "none", Trusted
        PROVE  Visible = queue /\ begin + Len(data) <= cap
    <3>1. data = queue /\ begin + Len(data) <= cap /\ "moved" \notin spoiled
      BY <2>1, TrustFacts DEF WindowInv, Inside, Same
    <3>2. null => data = <<>>
      BY <2>1, <3>1, NullFacts
    <3> QED BY <3>1, <3>2 DEF Visible
  <2> QED BY <2>1 DEF WindowInv, ContentsKept
<1> QED BY <1>1, BufferInv, PTL

(* What broke a Buffer was a call that BrokenCause names: reallocate() and  *)
(* deallocate() overrun nothing and stop in the end after any others.      *)
THEOREM BufferFaults == BufferSpec => []BrokenCause
<1>1. WindowInv => BrokenCause
  BY DEF WindowInv
<1> QED BY <1>1, BufferInv, PTL
=============================================================================

---------------------------- MODULE Listener_proofs ----------------------------
(***************************************************************************)
(* Theorems about the Listener and its ChannelConfig, for any options,     *)
(* numbers, clients and descriptors.                                       *)
(*                                                                         *)
(* Two chains of facts meet in start(): the lists of the configuration     *)
(* mirror what was asked for, in order, and who owns the spare descriptor  *)
(* is known at each step of exceptionCaught().                             *)
(***************************************************************************)
EXTENDS Listener, FiniteSetTheorems, SequenceTheorems, WellFoundedInduction, TLAPS

(* The i-th wish comes first, or last, of those in a set.                  *)
First(i, S) == i \in S /\ \A j \in S : i <= j
Latest(i, S) == i \in S /\ \A j \in S : j <= i

(* Positions of the Listener's list with a certain number.                 *)
Under(opt) == {k \in DOMAIN listenerOps : listenerOps[k][1] = opt}

(* The map has the first value of each timeout, ...                        *)
CacheInv ==
    \A opt \in Timeouts : \A v \in Int :
        <<opt, v>> \in cacheOps <=> \E i \in DOMAIN asked : First(i, Set(opt)) /\ asked[i].optval = v

(* ... all of them numbers that users give, ...                            *)
ValuesInv ==
    \A opt \in Timeouts : \A i \in Set(opt) : asked[i].optval \in Values

(* ... and the list has all that was let through, in order.                *)
BacklogInv ==
    bootstrap = "server" =>
        /\ Set(OPT_BACKlOG) = {} => Under(OPT_BACKlOG) = {}
        /\ \A i \in DOMAIN asked : Latest(i, Set(OPT_BACKlOG)) =>
              \E k \in DOMAIN listenerOps :
                  Latest(k, Under(OPT_BACKlOG)) /\ listenerOps[k][2] = asked[i].optval

ReuseInv ==
    /\ \A k \in DOMAIN listenerOps : listenerOps[k][2] > 0
    /\ bootstrap = "server" =>
          (Under(OPT_REUSEPORT) # {} <=> SwitchedOn(OPT_REUSEPORT) \cup Set(OPT_TCPMAXSEG) # {})

(* Only start() gives the Listener its options; a client has no Listener.  *)
StartInv ==
    /\ ~started => reuseable = 0
    /\ bootstrap = "client" => stage = "new" /\ reuseable = 0
    /\ stage \in {"started", "listening", "caught", "holding", "reopening"} => started

(* Who owns the descriptors, for each stage.                               *)
FdInv ==
    /\ stage = "new" => devnull = None /\ listenFd = None
    /\ stage \in {"created", "started"} => devnull # None /\ listenFd = None /\ table[devnull] = "spare"
    /\ stage \in {"listening", "holding"} =>
          /\ devnull # None => table[devnull] = "spare"
          /\ ~stolen => devnull # None
    /\ stage \in {"caught", "reopening"} => (~stolen => devnull # None /\ table[devnull] = "free")
    /\ stage \in {"listening", "caught", "holding", "reopening"} =>
          listenFd # None /\ table[listenFd] = "listen"
    /\ stage = "caught" => waiting # <<>>
    /\ stage \in {"caught", "holding", "reopening"} /\ shortage => stolen

IInv ==
    /\ TypeOK
    /\ CacheInv
    /\ ValuesInv
    /\ BacklogInv
    /\ ReuseInv
    /\ StartInv
    /\ FdInv
    /\ OptionsReach
    /\ FaultCause
-----------------------------------------------------------------------------
(* Numbers                                                                 *)

(* Every set of naturals has a least member: of the intervals 0..n of its  *)
(* members one contains no other.                                          *)
LEMMA LeastNumber ==
    ASSUME NEW T \in SUBSET Nat, T # {}
    PROVE  \E n \in T : \A m \in T : n <= m
<1> DEFINE U == {0..n : n \in T}
           I == UNION U
<1>1. U \subseteq FiniteSubsetsOf(I)
  <2> SUFFICES ASSUME NEW n \in T PROVE (0..n) \in FiniteSubsetsOf(I)
    OBVIOUS
  <2>1. IsFiniteSet(0..n)
    BY FS_Interval
  <2> QED BY <2>1 DEF FiniteSubsetsOf
<1>2. U # {}
  OBVIOUS
<1>3. PICK x \in U : \A y \in U : ~ (<<y, x>> \in StrictSubsetOrdering(I))
  <2> HIDE DEF U, I
  <2> QED BY <1>1, <1>2, FS_StrictSubsetOrderingWellFounded, WFMin
<1>4. PICK n \in T : x = 0..n
  OBVIOUS
<1>5. ASSUME NEW m \in T, ~ (n <= m) PROVE FALSE
  <2>1. m < n /\ m \in Nat /\ n \in Nat
    BY <1>5
  <2>2. 0..m \subseteq 0..n /\ n \in 0..n /\ n \notin 0..m
    BY <2>1
  <2>3. 0..m \subseteq I /\ 0..n \subseteq I
    OBVIOUS
  <2>4. <<0..m, 0..n>> \in StrictSubsetOrdering(I)
    BY <2>2, <2>3 DEF StrictSubsetOrdering
  <2> QED BY <2>4, <1>3, <1>4
<1> QED BY <1>5

(* Positions in a sequence have a first and a last one.                    *)
LEMMA FirstAndLatest ==
    ASSUME NEW n \in Nat, NEW T \in SUBSET (1..n), T # {}
    PROVE  (\E i \in T : First(i, T)) /\ (\E i \in T : Latest(i, T))
<1>1. \E i \in T : \A j \in T : i <= j
  <2>1. T \in SUBSET Nat
    OBVIOUS
  <2> QED BY <2>1, LeastNumber
<1>2. \E i \in T : \A j \in T : j <= i
  <2> DEFINE D == {n - i : i \in T}
  <2>1. D \in SUBSET Nat /\ D # {}
    <3>1. \A i \in T : n - i \in Nat
      OBVIOUS
    <3> QED BY <3>1
  <2>2. PICK d \in D : \A m \in D : d <= m
    <3> HIDE DEF D
    <3> QED BY <2>1, LeastNumber
  <2>3. PICK i \in T : d = n - i
    OBVIOUS
  <2>4. ASSUME NEW j \in T PROVE j <= i
    <3>1. n - j \in D
      OBVIOUS
    <3>2. n - i <= n - j
      BY <2>2, <2>3, <3>1
    <3> QED BY <3>2
  <2> QED BY <2>4
<1> QED BY <1>1, <1>2 DEF First, Latest

LEMMA FirstIsOne ==
    ASSUME NEW T \in SUBSET Nat, NEW i, NEW j, First(i, T), First(j, T)
    PROVE  i = j
<1>1. i \in Nat /\ j \in Nat /\ i <= j /\ j <= i
  BY DEF First
<1> QED BY <1>1

LEMMA LatestIsMax ==
    ASSUME NEW T \in SUBSET Nat, NEW i, Latest(i, T)
    PROVE  Max(T) = i
<1>1. i \in T /\ \A j \in T : i >= j
  BY DEF Latest
<1>2. \A k \in T : (\A j \in T : k >= j) => k = i
  <2> SUFFICES ASSUME NEW k \in T, \A j \in T : k >= j PROVE k = i
    OBVIOUS
  <2>1. k >= i /\ i >= k /\ i \in Nat /\ k \in Nat
    BY <1>1
  <2> QED BY <2>1
<1> QED BY <1>1, <1>2 DEF Max

LEMMA AppendFacts ==
    ASSUME NEW S, NEW s \in Seq(S), NEW e \in S
    PROVE  /\ Append(s, e) \in Seq(S)
           /\ Len(s) \in Nat
           /\ Len(Append(s, e)) = Len(s) + 1
           /\ DOMAIN s = 1..Len(s)
           /\ DOMAIN Append(s, e) = 1..Len(s) + 1
           /\ \A i \in DOMAIN s : Append(s, e)[i] = s[i]
           /\ Append(s, e)[Len(s) + 1] = e
<1>1. Len(s) \in Nat /\ DOMAIN s = 1..Len(s)
  BY LenProperties
<1>2. /\ Append(s, e) \in Seq(S)
      /\ Len(Append(s, e)) = Len(s) + 1
      /\ \A i \in 1..Len(s) : Append(s, e)[i] = s[i]
      /\ Append(s, e)[Len(s) + 1] = e
  BY AppendProperties
<1>3. DOMAIN Append(s, e) = 1..Len(Append(s, e))
  BY <1>2, LenProperties
<1> QED BY <1>1, <1>2, <1>3

(* A position is added behind all the others.                              *)
LEMMA OneMore ==
    ASSUME NEW n \in Nat, NEW T \in SUBSET (1..n), NEW i
    PROVE  /\ T # {} => (First(i, T \cup {n + 1}) <=> First(i, T))
           /\ T = {} => (First(i, T \cup {n + 1}) <=> i = n + 1)
           /\ Latest(i, T \cup {n + 1}) <=> i = n + 1
<1>1. \A j \in T : j \in Nat /\ j <= n + 1 /\ ~(n + 1 <= j)
  OBVIOUS
<1>2. n + 1 <= n + 1
  OBVIOUS
<1>3. Latest(i, T \cup {n + 1}) <=> i = n + 1
  BY <1>1, <1>2 DEF Latest
<1>4. T = {} => (First(i, T \cup {n + 1}) <=> i = n + 1)
  BY <1>2 DEF First
<1>5. T # {} => (First(i, T \cup {n + 1}) <=> First(i, T))
  BY <1>1 DEF First
<1> QED BY <1>3, <1>4, <1>5
-----------------------------------------------------------------------------
(* The options                                                             *)

Entry == [opt : 0..14, optval : Int, call : {"bool", "int"}]

(* What the application asked for, after one more call of option().        *)
AskedMore(n, opt, optval, call) ==
    /\ n \in Nat /\ DOMAIN asked = 1..n
    /\ asked' \in Seq(Entry) /\ DOMAIN asked' = 1..n + 1
    /\ \A i \in 1..n : asked'[i] = asked[i]
    /\ asked'[n + 1].optval = optval
    /\ \A o : Set(o) \subseteq 1..n /\ SwitchedOn(o) \subseteq 1..n
    /\ \A o : Set(o)' = IF o = opt /\ call = "int" /\ optval > 0
                        THEN Set(o) \cup {n + 1} ELSE Set(o)
    /\ \A o : SwitchedOn(o)' = IF o = opt /\ call = "bool" /\ optval > 0
                               THEN SwitchedOn(o) \cup {n + 1} ELSE SwitchedOn(o)

LEMMA AskedFacts ==
    ASSUME IInv, NEW opt \in 0..14, NEW optval \in Int, NEW call \in {"bool", "int"},
           SetOption(opt, optval, call)
    PROVE  AskedMore(Len(asked), opt, optval, call)
<1> DEFINE e == [opt |-> opt, optval |-> optval, call |-> call]
           n == Len(asked)
<1>1. e \in Entry /\ asked \in Seq(Entry) /\ asked' = Append(asked, e)
  BY DEF SetOption, IInv, TypeOK, ConfigTypeOK, Entry
<1>2. /\ asked' \in Seq(Entry)
      /\ n \in Nat
      /\ DOMAIN asked = 1..n
      /\ DOMAIN asked' = 1..n + 1
      /\ \A i \in 1..n : asked'[i] = asked[i]
      /\ asked'[n + 1] = e
  <2> HIDE DEF e
  <2> QED BY <1>1, AppendFacts
<1>3. e.opt = opt /\ e.optval = optval /\ e.call = call
  OBVIOUS
<1> HIDE DEF e, n
<1>4. \A i \in 1..n + 1 : i \in 1..n \/ i = n + 1
  BY <1>2
<1>5. n + 1 \in 1..n + 1 /\ 1..n \subseteq 1..n + 1
  BY <1>2
<1>6. ASSUME NEW o
      PROVE  Set(o)' = IF o = opt /\ call = "int" /\ optval > 0
                       THEN Set(o) \cup {n + 1} ELSE Set(o)
  <2>1. Set(o)' = {i \in 1..n + 1 : asked'[i].opt = o /\ asked'[i].call = "int" /\ asked'[i].optval > 0}
    BY <1>2 DEF Set
  <2>2. Set(o) = {i \in 1..n : asked[i].opt = o /\ asked[i].call = "int" /\ asked[i].optval > 0}
    BY <1>2 DEF Set
  <2> QED BY <2>1, <2>2, <1>2, <1>3, <1>4, <1>5
<1>7. ASSUME NEW o
      PROVE  SwitchedOn(o)' = IF o = opt /\ call = "bool" /\ optval > 0
                              THEN SwitchedOn(o) \cup {n + 1} ELSE SwitchedOn(o)
  <2>1. SwitchedOn(o)' = {i \in 1..n + 1 : asked'[i].opt = o /\ asked'[i].call = "bool" /\ asked'[i].optval > 0}
    BY <1>2 DEF SwitchedOn
  <2>2. SwitchedOn(o) = {i \in 1..n : asked[i].opt = o /\ asked[i].call = "bool" /\ asked[i].optval > 0}
    BY <1>2 DEF SwitchedOn
  <2> QED BY <2>1, <2>2, <1>2, <1>3, <1>4, <1>5
<1>8. \A o : Set(o) \subseteq 1..n /\ SwitchedOn(o) \subseteq 1..n
  BY <1>2 DEF Set, SwitchedOn
<1> QED BY <1>2, <1>3, <1>6, <1>7, <1>8 DEF n, AskedMore

(* What the configuration makes of it.                                     *)
ListedMore(n, opt, optval, call) ==
    /\ n \in Nat /\ DOMAIN listenerOps = 1..n
    /\ listenerOps' \in Seq((0..14) \X Int)
    /\ \A o : Under(o) \subseteq 1..n
    /\ ~(Taken(opt, call) /\ optval > 0) =>
          listenerOps' = listenerOps /\ \A o : Under(o)' = Under(o)
    /\ Taken(opt, call) /\ optval > 0 =>
          /\ DOMAIN listenerOps' = 1..n + 1
          /\ \A k \in 1..n : listenerOps'[k] = listenerOps[k]
          /\ listenerOps'[n + 1] = <<Listed(opt), optval>>
          /\ \A o : Under(o)' = IF o = Listed(opt) THEN Under(o) \cup {n + 1} ELSE Under(o)

LEMMA ListedFacts ==
    ASSUME IInv, NEW opt \in 0..14, NEW optval \in Int, NEW call \in {"bool", "int"},
           SetOption(opt, optval, call)
    PROVE  ListedMore(Len(listenerOps), opt, optval, call)
<1> DEFINE e == <<Listed(opt), optval>>
           n == Len(listenerOps)
<1>1. listenerOps \in Seq((0..14) \X Int) /\ n \in Nat /\ DOMAIN listenerOps = 1..n
  BY DEF IInv, TypeOK, ConfigTypeOK
<1>2. \A o : Under(o) = {k \in 1..n : listenerOps[k][1] = o}
  BY <1>1 DEF Under
<1>3. CASE ~(Taken(opt, call) /\ optval > 0)
  <2>1. listenerOps' = listenerOps
    BY <1>3 DEF SetOption
  <2> QED BY <2>1, <1>1, <1>2, <1>3 DEF Under, ListedMore
<1>4. CASE Taken(opt, call) /\ optval > 0
  <2>1. listenerOps' = Append(listenerOps, e)
    BY <1>4 DEF SetOption
  <2>2. Listed(opt) \in 0..14
    BY DEF Listed, OPT_KEEPALIVE, OPT_DONTROUTE, OPT_SOCKETRCVBUF, OPT_SOCKETSENDBUF,
           OPT_TCPNODELAY, OPT_TCPMAXSEG
  <2>3. e \in (0..14) \X Int /\ e[1] = Listed(opt)
    BY <2>2
  <2> HIDE DEF e
  <2>4. /\ listenerOps' \in Seq((0..14) \X Int)
        /\ DOMAIN listenerOps' = 1..n + 1
        /\ \A k \in 1..n : listenerOps'[k] = listenerOps[k]
        /\ listenerOps'[n + 1] = e
    BY <1>1, <2>1, <2>3, AppendFacts
  <2> HIDE DEF n
  <2>5. \A k \in 1..n + 1 : k \in 1..n \/ k = n + 1
    BY <1>1
  <2>6. n + 1 \in 1..n + 1 /\ 1..n \subseteq 1..n + 1
    BY <1>1
  <2>7. ASSUME NEW o
        PROVE  Under(o)' = IF o = Listed(opt) THEN Under(o) \cup {n + 1} ELSE Under(o)
    <3>1. Under(o)' = {k \in 1..n + 1 : listenerOps'[k][1] = o}
      BY <2>4 DEF Under
    <3> QED BY <3>1, <1>2, <2>3, <2>4, <2>5, <2>6
  <2> QED BY <1>1, <1>2, <1>4, <2>4, <2>7 DEF e, n, ListedMore
<1> QED BY <1>3, <1>4

(* What is let through of what the Listener and the wheel depend on.       *)
LEMMA TakenFacts ==
    /\ \A o \in Timeouts : o \in 12..14 /\ Taken(o, "int") /\ ~Taken(o, "bool")
    /\ Taken(OPT_TCPMAXSEG, "int") /\ ~Taken(OPT_TCPMAXSEG, "bool")
    /\ ~Taken(OPT_BACKlOG, "bool") /\ ~Taken(OPT_REUSEPORT, "int")
    /\ bootstrap = "server" => Taken(OPT_BACKlOG, "int") /\ Taken(OPT_REUSEPORT, "bool")
<1> USE DEF Taken, TakenSwitches, TakenQuantities, Timeouts, OPT_BACKlOG, OPT_REUSEPORT, OPT_KEEPALIVE,
            OPT_DONTROUTE, OPT_SOCKETRCVBUF, OPT_SOCKETSENDBUF, OPT_TCPNODELAY, OPT_TCPMAXSEG,
            OPT_READLOWWATERMARK, OPT_READHIGHWATERMARK, OPT_READIDLEKETIMEOUT,
            OPT_WRITEIDELETIMEOUT, OPT_ALLIDELRTIMEOUT
<1>1. \A o \in Timeouts : o \in 12..14 /\ Taken(o, "int") /\ ~Taken(o, "bool")
  OBVIOUS
<1>2. Taken(OPT_TCPMAXSEG, "int") /\ ~Taken(OPT_TCPMAXSEG, "bool")
  OBVIOUS
<1>3. ~Taken(OPT_BACKlOG, "bool") /\ ~Taken(OPT_REUSEPORT, "int")
  OBVIOUS
<1>4. bootstrap = "server" => Taken(OPT_BACKlOG, "int") /\ Taken(OPT_REUSEPORT, "bool")
  OBVIOUS
<1> QED BY <1>1, <1>2, <1>3, <1>4

LEMMA ListedAs ==
    ASSUME NEW opt \in 0..14
    PROVE  /\ Listed(opt) = OPT_BACKlOG <=> opt = OPT_BACKlOG
           /\ Listed(opt) = OPT_REUSEPORT <=> opt \in {OPT_REUSEPORT, OPT_TCPMAXSEG}
BY DEF Listed, OPT_BACKlOG, OPT_REUSEPORT, OPT_KEEPALIVE, OPT_DONTROUTE, OPT_SOCKETRCVBUF,
       OPT_SOCKETSENDBUF, OPT_TCPNODELAY, OPT_TCPMAXSEG

LEMMA CacheKeeps ==
    ASSUME IInv, NEW opt \in 0..14, NEW optval \in Int, NEW call \in {"bool", "int"},
           SetOption(opt, optval, call), call = "int" => optval \in Values
    PROVE  CacheInv' /\ ValuesInv'
<1> DEFINE n == Len(asked)
<1>0. AskedMore(n, opt, optval, call)
  BY AskedFacts
<1> HIDE DEF n
<1>1. /\ n \in Nat /\ DOMAIN asked = 1..n
      /\ DOMAIN asked' = 1..n + 1
      /\ \A i \in 1..n : asked'[i] = asked[i]
      /\ asked'[n + 1].optval = optval
      /\ \A o : Set(o) \subseteq 1..n
      /\ \A o : Set(o)' = IF o = opt /\ call = "int" /\ optval > 0
                          THEN Set(o) \cup {n + 1} ELSE Set(o)
  BY <1>0 DEF AskedMore
<1>2. ValuesInv'
  <2> SUFFICES ASSUME NEW o \in Timeouts, NEW i, i \in Set(o)' PROVE asked'[i].optval \in Values
    BY DEF ValuesInv
  <2>1. i \in Set(o) \/ (i = n + 1 /\ call = "int")
    BY <1>1
  <2>2. CASE i \in Set(o)
    BY <2>2, <1>1 DEF IInv, ValuesInv
  <2>3. CASE i = n + 1 /\ call = "int"
    BY <2>3, <1>1
  <2> QED BY <2>1, <2>2, <2>3
<1>3. CacheInv'
  <2> SUFFICES ASSUME NEW o \in Timeouts, NEW v \in Int
               PROVE  <<o, v>> \in cacheOps' <=>
                        \E i \in 1..n + 1 : First(i, Set(o)') /\ asked'[i].optval = v
    BY <1>1 DEF CacheInv, First
  <2>1. <<o, v>> \in cacheOps <=> \E i \in 1..n : First(i, Set(o)) /\ asked[i].optval = v
    BY <1>1 DEF IInv, CacheInv
  <2>2. \A i \in 1..n + 1 : i \in 1..n \/ i = n + 1
    BY <1>1
  <2>3. n + 1 \in 1..n + 1 /\ 1..n \subseteq 1..n + 1 /\ n + 1 \notin 1..n
    BY <1>1
  <2>4. CASE o = opt /\ call = "int" /\ optval > 0
    <3>1. cacheOps' = Cached(opt, optval)
      BY <2>4, TakenFacts DEF SetOption
    <3>2. Set(o)' = Set(o) \cup {n + 1} /\ Set(o) \subseteq 1..n
      BY <1>1, <2>4
    <3>3. PICK T : T = Set(o) /\ T \in SUBSET (1..n)
      BY <3>2
    <3>4. CASE T # {}
      <4>1. PICK i \in T : First(i, T)
        BY <1>1, <3>3, <3>4, FirstAndLatest
      <4>2. asked[i].optval \in Int
        <5>1. i \in 1..Len(asked) /\ asked \in Seq(Entry)
          BY <4>1, <3>3, <1>1 DEF IInv, TypeOK, ConfigTypeOK, Entry
        <5>2. asked[i] \in Entry
          BY <5>1
        <5> QED BY <5>2 DEF Entry
      <4>3. <<o, asked[i].optval>> \in cacheOps
        BY <4>1, <4>2, <3>3, <1>1 DEF IInv, CacheInv
      <4>4. cacheOps' = cacheOps
        BY <4>3, <3>1, <2>4 DEF Cached
      <4>5. \A j : First(j, T \cup {n + 1}) <=> First(j, T)
        BY <1>1, <3>3, <3>4, OneMore
      <4>6. \A j : First(j, T) => j \in 1..n
        BY <3>3 DEF First
      <4> QED BY <4>4, <4>5, <4>6, <3>2, <3>3, <2>1, <2>3, <1>1
    <3>5. CASE T = {}
      <4>1. \A w \in Int : <<o, w>> \notin cacheOps
        BY <3>3, <3>5 DEF IInv, CacheInv, First
      <4>2. \A c \in cacheOps : c[1] # o
        BY <4>1 DEF IInv, TypeOK, ConfigTypeOK
      <4>3. cacheOps' = cacheOps \cup {<<opt, optval>>}
        BY <4>2, <3>1, <2>4 DEF Cached
      <4>4. \A j : First(j, T \cup {n + 1}) <=> j = n + 1
        BY <1>1, <3>3, <3>5, OneMore
      <4>5. <<o, v>> \in cacheOps' <=> v = optval
        BY <4>1, <4>3, <2>4
      <4> QED BY <4>4, <4>5, <3>2, <3>3, <2>3, <1>1
    <3> QED BY <3>4, <3>5
  <2>5. CASE ~(o = opt /\ call = "int" /\ optval > 0)
    <3>1. Set(o)' = Set(o) /\ Set(o) \subseteq 1..n
      BY <1>1, <2>5
    <3>2. <<o, v>> \in cacheOps' <=> <<o, v>> \in cacheOps
      <4>1. CASE Taken(opt, call) /\ optval > 0
        <5>1. o # opt
          BY <2>5, <4>1, TakenFacts
        <5>2. cacheOps' = Cached(opt, optval)
          BY <4>1 DEF SetOption
        <5> QED BY <5>1, <5>2 DEF Cached
      <4>2. CASE ~(Taken(opt, call) /\ optval > 0)
        BY <4>2 DEF SetOption
      <4> QED BY <4>1, <4>2
    <3>3. \A j : First(j, Set(o)) => j \in 1..n
      BY <3>1 DEF First
    <3> QED BY <3>1, <3>2, <3>3, <2>1, <2>3, <1>1
  <2> QED BY <2>4, <2>5
<1> QED BY <1>2, <1>3

LEMMA ListKeeps ==
    ASSUME IInv, NEW opt \in 0..14, NEW optval \in Int, NEW call \in {"bool", "int"},
           SetOption(opt, optval, call)
    PROVE  BacklogInv' /\ ReuseInv'
<1> DEFINE n == Len(asked)
           m == Len(listenerOps)
<1>0. AskedMore(n, opt, optval, call) /\ ListedMore(m, opt, optval, call)
  BY AskedFacts, ListedFacts
<1> HIDE DEF n, m
<1>1. /\ n \in Nat /\ DOMAIN asked = 1..n
      /\ DOMAIN asked' = 1..n + 1
      /\ \A i \in 1..n : asked'[i] = asked[i]
      /\ asked'[n + 1].optval = optval
      /\ \A o : Set(o) \subseteq 1..n /\ SwitchedOn(o) \subseteq 1..n
      /\ \A o : Set(o)' = IF o = opt /\ call = "int" /\ optval > 0
                          THEN Set(o) \cup {n + 1} ELSE Set(o)
      /\ \A o : SwitchedOn(o)' = IF o = opt /\ call = "bool" /\ optval > 0
                                 THEN SwitchedOn(o) \cup {n + 1} ELSE SwitchedOn(o)
  BY <1>0 DEF AskedMore
<1>2. /\ m \in Nat /\ DOMAIN listenerOps = 1..m
      /\ \A o : Under(o) \subseteq 1..m
      /\ ~(Taken(opt, call) /\ optval > 0) =>
            listenerOps' = listenerOps /\ \A o : Under(o)' = Under(o)
      /\ Taken(opt, call) /\ optval > 0 =>
            /\ DOMAIN listenerOps' = 1..m + 1
            /\ \A k \in 1..m : listenerOps'[k] = listenerOps[k]
            /\ listenerOps'[m + 1] = <<Listed(opt), optval>>
            /\ \A o : Under(o)' = IF o = Listed(opt) THEN Under(o) \cup {m + 1} ELSE Under(o)
  BY <1>0 DEF ListedMore
<1>3. bootstrap' = bootstrap
  BY DEF SetOption
<1>4. \A i \in 1..n + 1 : i \in 1..n \/ i = n + 1
  BY <1>1
<1>5. \A k \in 1..m + 1 : k \in 1..m \/ k = m + 1
  BY <1>2
<1>6. m + 1 \in 1..m + 1 /\ 1..m \subseteq 1..m + 1 /\ m + 1 \notin 1..m /\ n + 1 \notin 1..n
  BY <1>1, <1>2
<1>7. BacklogInv'
  <2> SUFFICES ASSUME bootstrap = "server"
               PROVE  /\ Set(OPT_BACKlOG)' = {} => Under(OPT_BACKlOG)' = {}
                      /\ \A i \in 1..n + 1 : Latest(i, Set(OPT_BACKlOG)') =>
                            \E k \in DOMAIN listenerOps' :
                                Latest(k, Under(OPT_BACKlOG)') /\ listenerOps'[k][2] = asked'[i].optval
    BY <1>1, <1>3 DEF BacklogInv, Latest
  <2>1. CASE opt = OPT_BACKlOG /\ call = "int" /\ optval > 0
    <3>1. Taken(opt, call) /\ Listed(opt) = OPT_BACKlOG
      BY <2>1, TakenFacts, ListedAs
    <3>2. Set(OPT_BACKlOG)' = Set(OPT_BACKlOG) \cup {n + 1} /\ Under(OPT_BACKlOG)' = Under(OPT_BACKlOG) \cup {m + 1}
      BY <1>1, <1>2, <2>1, <3>1
    <3>3. PICK T, V : T = Set(OPT_BACKlOG) /\ V = Under(OPT_BACKlOG) /\ T \in SUBSET (1..n) /\ V \in SUBSET (1..m)
      BY <1>1, <1>2
    <3>4. \A i : Latest(i, T \cup {n + 1}) <=> i = n + 1
      BY <1>1, <3>3, OneMore
    <3>5. \A k : Latest(k, V \cup {m + 1}) <=> k = m + 1
      BY <1>2, <3>3, OneMore
    <3>6. listenerOps'[m + 1][2] = optval /\ m + 1 \in DOMAIN listenerOps'
      BY <1>2, <1>6, <2>1, <3>1
    <3> QED BY <3>2, <3>3, <3>4, <3>5, <3>6, <1>1
  <2>2. CASE ~(opt = OPT_BACKlOG /\ call = "int" /\ optval > 0)
    <3>1. Set(OPT_BACKlOG)' = Set(OPT_BACKlOG)
      BY <1>1, <2>2
    <3>2. /\ Under(OPT_BACKlOG)' = Under(OPT_BACKlOG)
          /\ \A k \in 1..m : listenerOps'[k] = listenerOps[k] /\ k \in DOMAIN listenerOps'
      <4>1. CASE Taken(opt, call) /\ optval > 0
        <5>1. opt # OPT_BACKlOG
          BY <2>2, <4>1, TakenFacts
        <5>2. Listed(opt) # OPT_BACKlOG
          BY <5>1, ListedAs
        <5> QED BY <4>1, <5>2, <1>2, <1>6
      <4>2. CASE ~(Taken(opt, call) /\ optval > 0)
        BY <4>2, <1>2
      <4> QED BY <4>1, <4>2
    <3>3. Set(OPT_BACKlOG) = {} => Under(OPT_BACKlOG) = {}
      BY DEF IInv, BacklogInv
    <3>4. ASSUME NEW i \in 1..n + 1, Latest(i, Set(OPT_BACKlOG))
          PROVE  \E k \in DOMAIN listenerOps' :
                     Latest(k, Under(OPT_BACKlOG)) /\ listenerOps'[k][2] = asked'[i].optval
      <4>1. i \in 1..n
        BY <3>4, <1>1 DEF Latest
      <4>2. PICK k \in 1..m : Latest(k, Under(OPT_BACKlOG)) /\ listenerOps[k][2] = asked[i].optval
        BY <3>4, <4>1, <1>1, <1>2 DEF IInv, BacklogInv
      <4> QED BY <4>1, <4>2, <3>2, <1>1
    <3> QED BY <3>1, <3>2, <3>3, <3>4
  <2> QED BY <2>1, <2>2
<1>8. ReuseInv'
  <2>1. ASSUME NEW k \in DOMAIN listenerOps' PROVE listenerOps'[k][2] > 0
    <3>1. CASE Taken(opt, call) /\ optval > 0
      <4>1. CASE k \in 1..m
        BY <3>1, <4>1, <1>2 DEF IInv, ReuseInv
      <4>2. CASE k = m + 1
        BY <3>1, <4>2, <1>2
      <4> QED BY <4>1, <4>2, <3>1, <2>1, <1>2, <1>5
    <3>2. CASE ~(Taken(opt, call) /\ optval > 0)
      BY <3>2, <2>1, <1>2 DEF IInv, ReuseInv
    <3> QED BY <3>1, <3>2
  <2>2. ASSUME bootstrap = "server"
        PROVE  Under(OPT_REUSEPORT)' # {} <=> SwitchedOn(OPT_REUSEPORT)' \cup Set(OPT_TCPMAXSEG)' # {}
    <3>1. Under(OPT_REUSEPORT) # {} <=> SwitchedOn(OPT_REUSEPORT) \cup Set(OPT_TCPMAXSEG) # {}
      BY <2>2 DEF IInv, ReuseInv
    <3>2. CASE opt = OPT_REUSEPORT /\ call = "bool" /\ optval > 0
      <4>1. Taken(opt, call) /\ Listed(opt) = OPT_REUSEPORT
        BY <3>2, <2>2, TakenFacts, ListedAs
      <4> QED BY <3>2, <4>1, <1>1, <1>2
    <3>3. CASE opt = OPT_TCPMAXSEG /\ call = "int" /\ optval > 0
      <4>1. Taken(opt, call) /\ Listed(opt) = OPT_REUSEPORT
        BY <3>3, TakenFacts, ListedAs
      <4> QED BY <3>3, <4>1, <1>1, <1>2
    <3>4. CASE /\ ~(opt = OPT_REUSEPORT /\ call = "bool" /\ optval > 0)
               /\ ~(opt = OPT_TCPMAXSEG /\ call = "int" /\ optval > 0)
      <4>1. SwitchedOn(OPT_REUSEPORT)' = SwitchedOn(OPT_REUSEPORT) /\ Set(OPT_TCPMAXSEG)' = Set(OPT_TCPMAXSEG)
        BY <3>4, <1>1
      <4>2. Under(OPT_REUSEPORT)' = Under(OPT_REUSEPORT)
        <5>1. CASE Taken(opt, call) /\ optval > 0
          <6>1. opt # OPT_REUSEPORT /\ opt # OPT_TCPMAXSEG
            BY <3>4, <5>1, TakenFacts
          <6>2. Listed(opt) # OPT_REUSEPORT
            BY <6>1, ListedAs
          <6> QED BY <5>1, <6>2, <1>2
        <5>2. CASE ~(Taken(opt, call) /\ optval > 0)
          BY <5>2, <1>2
        <5> QED BY <5>1, <5>2
      <4> QED BY <4>1, <4>2, <3>1
    <3> QED BY <3>2, <3>3, <3>4
  <2> QED BY <2>1, <2>2, <1>3 DEF ReuseInv
<1> QED BY <1>7, <1>8

LEMMA OptionKeeps ==
    ASSUME IInv, Option
    PROVE  IInv'
<1>1. /\ fault = "none" /\ stage \in {"new", "created"}
      /\ UNCHANGED <<stage, table, devnull, listenFd, reuseable, backlog, address, shortage, waiting, got, fault, stolen>>
  BY DEF Option
<1>2. PICK opt \in 0..14, optval \in Int, call \in {"bool", "int"} :
          SetOption(opt, optval, call) /\ (call = "int" => optval \in Values)
  <2>1. CASE \E opt \in Switches, on \in BOOLEAN : OptionSwitch(opt, on)
    <3>1. PICK opt \in Switches, on \in BOOLEAN : SetOption(opt, IF on THEN 1 ELSE 0, "bool")
      BY <2>1 DEF OptionSwitch
    <3>2. opt \in 0..14 /\ (IF on THEN 1 ELSE 0) \in Int
      BY OptionsAssumption
    <3> QED BY <3>1, <3>2
  <2>2. CASE \E opt \in Quantities, optval \in Values : OptionQuantity(opt, optval)
    <3>1. PICK opt \in Quantities, optval \in Values : SetOption(opt, optval, "int")
      BY <2>2 DEF OptionQuantity
    <3> QED BY <3>1, OptionsAssumption, ValuesAssumption
  <2> QED BY <2>1, <2>2 DEF Option, Options
<1>3. ~started /\ UNCHANGED <<bootstrap, wheel, started>>
  BY <1>2 DEF SetOption
<1>4. CacheInv' /\ ValuesInv'
  BY <1>2, CacheKeeps
<1>5. BacklogInv' /\ ReuseInv'
  BY <1>2, ListKeeps
<1>6. TypeOK'
  <2>1. asked' \in Seq(Entry) /\ listenerOps' \in Seq((0..14) \X Int)
    BY <1>2, AskedFacts, ListedFacts DEF AskedMore, ListedMore
  <2>2. cacheOps' \subseteq (0..14) \X Int
    <3>1. cacheOps \subseteq (0..14) \X Int
      BY <1>1 DEF IInv, TypeOK, ConfigTypeOK
    <3>2. cacheOps' = cacheOps \/ cacheOps' = cacheOps \cup {<<opt, optval>>}
      <4>1. cacheOps' = cacheOps \/ cacheOps' = Cached(opt, optval)
        BY <1>2 DEF SetOption
      <4> QED BY ONLY <4>1 DEF Cached
    <3>3. <<opt, optval>> \in (0..14) \X Int
      BY <1>2
    <3> QED BY ONLY <3>1, <3>2, <3>3
  <2> QED BY <1>1, <1>3, <2>1, <2>2 DEF IInv, TypeOK, ConfigTypeOK, Entry
<1>7. StartInv' /\ OptionsReach'
  BY <1>1, <1>3 DEF IInv, StartInv, OptionsReach
<1>8. FdInv'
  BY <1>1 DEF IInv, FdInv
<1>9. FaultCause'
  BY <1>1 DEF FaultCause
<1> QED BY <1>4, <1>5, <1>6, <1>7, <1>8, <1>9 DEF IInv
-----------------------------------------------------------------------------
(* start()                                                                 *)

(* The map gives each timeout its first positive value, or none.           *)
LEMMA TimeoutValue ==
    ASSUME IInv, NEW opt \in Timeouts
    PROVE  /\ OptionValue(opt) \in Nat
           /\ OptionValue(opt) = 0 => Set(opt) = {}
           /\ OptionValue(opt) # 0 =>
                 \E i \in Set(opt) : First(i, Set(opt)) /\ asked[i].optval = OptionValue(opt)
<1>1. PICK n \in Nat : DOMAIN asked = 1..n
  BY DEF IInv, TypeOK, ConfigTypeOK
<1>2. PICK T : T = Set(opt) /\ T \in SUBSET (1..n)
  BY <1>1 DEF Set
<1>3. CASE T = {}
  <2>1. \A v \in Int : <<opt, v>> \notin cacheOps
    BY <1>2, <1>3 DEF IInv, CacheInv, First
  <2>2. OptionValue(opt) = 0
    BY <2>1, ValuesAssumption DEF OptionValue
  <2> QED BY <2>2, <1>2, <1>3
<1>4. CASE T # {}
  <2>1. PICK i \in T : First(i, T)
    BY <1>1, <1>2, <1>4, FirstAndLatest
  <2>2. PICK w \in Values : w = asked[i].optval /\ w > 0
    BY <2>1, <1>2 DEF IInv, ValuesInv, Set
  <2>3. \A v \in Int : <<opt, v>> \in cacheOps <=> \E j \in 1..n : First(j, T) /\ asked[j].optval = v
    BY <1>1, <1>2 DEF IInv, CacheInv
  <2>4. w \in Int /\ Values \subseteq Int
    BY ValuesAssumption
  <2>5. \A j : First(j, T) <=> j = i
    <3>1. T \in SUBSET Nat
      BY <1>2
    <3>2. ASSUME NEW j, First(j, T) PROVE j = i
      BY <3>1, <3>2, <2>1, FirstIsOne
    <3> QED BY <3>2, <2>1
  <2>6. i \in 1..n
    BY <2>1, <1>2
  <2>7. \A v \in Values : <<opt, v>> \in cacheOps <=> v = w
    BY <2>2, <2>3, <2>4, <2>5, <2>6
  <2>8. OptionValue(opt) = w
    BY <2>7 DEF OptionValue
  <2> QED BY <2>1, <2>2, <2>4, <2>8, <1>2
<1> QED BY <1>3, <1>4

(* What the Listener has been told under a number is the last it was told. *)
LEMMA ToldFacts ==
    ASSUME IInv, NEW opt \in 0..14, NEW default \in Int
    PROVE  /\ Told(opt, default) \in Int
           /\ Under(opt) = {} => Told(opt, default) = default
           /\ \A k : Latest(k, Under(opt)) => Told(opt, default) = listenerOps[k][2]
           /\ Under(opt) # {} => Told(opt, default) > 0
<1>1. PICK n \in Nat : DOMAIN listenerOps = 1..n
  BY DEF IInv, TypeOK, ConfigTypeOK
<1>2. PICK T : T = Under(opt) /\ T \in SUBSET (1..n)
  BY <1>1 DEF Under
<1>3. Told(opt, default) = IF T = {} THEN default ELSE listenerOps[Max(T)][2]
  BY <1>2 DEF Told, Under
<1>4. ASSUME NEW k, Latest(k, T) PROVE Max(T) = k /\ T # {}
  <2>1. T \in SUBSET Nat
    BY <1>2
  <2> QED BY <1>4, <2>1, LatestIsMax DEF Latest
<1>5. CASE T = {}
  BY <1>2, <1>3, <1>4, <1>5
<1>6. CASE T # {}
  <2>1. PICK k \in T : Latest(k, T)
    BY <1>2, <1>6, FirstAndLatest
  <2>2. Told(opt, default) = listenerOps[k][2]
    BY <2>1, <1>3, <1>4, <1>6
  <2>3. listenerOps[k][2] \in Int /\ listenerOps[k][2] > 0
    <3>1. k \in DOMAIN listenerOps /\ listenerOps \in Seq((0..14) \X Int)
      BY <1>1, <1>2 DEF IInv, TypeOK, ConfigTypeOK
    <3>2. listenerOps[k] \in (0..14) \X Int
      BY <3>1
    <3> QED BY <3>1, <3>2 DEF IInv, ReuseInv
  <2> QED BY <1>2, <1>3, <1>4, <1>6, <2>2, <2>3
<1> QED BY <1>5, <1>6

LEMMA StartKeeps ==
    ASSUME IInv, Start
    PROVE  IInv'
<1> USE DEF OPT_BACKlOG, OPT_REUSEPORT
<1>1. /\ fault = "none" /\ ~started /\ started' = TRUE /\ wheel' = Wheel
      /\ stage = "created" \/ bootstrap = "client"
      /\ UNCHANGED <<bootstrap, listenerOps, cacheOps, asked>>
      /\ UNCHANGED <<table, devnull, listenFd, address, shortage, waiting, got, fault, stolen>>
  BY DEF Start, ReadConfig
<1>2. \A o : Set(o)' = Set(o) /\ SwitchedOn(o)' = SwitchedOn(o) /\ Under(o)' = Under(o)
  BY <1>1 DEF Set, SwitchedOn, Under
<1>3. CacheInv' /\ ValuesInv' /\ BacklogInv' /\ ReuseInv'
  BY <1>1, <1>2 DEF IInv, CacheInv, ValuesInv, BacklogInv, ReuseInv
<1>4. bootstrap = "server" =>
        /\ stage' = "started"
        /\ reuseable' = Told(2, 0)
        /\ backlog' = Told(0, DefaultBackLog)
  BY DEF Start
<1>5. bootstrap = "client" => UNCHANGED <<stage, reuseable, backlog>>
  BY DEF Start
<1>6. bootstrap \in {"server", "client"}
  BY DEF IInv, TypeOK, ConfigTypeOK
<1>7. \A o \in Timeouts : /\ OptionValue(o) \in Nat
                          /\ OptionValue(o) = 0 => Set(o) = {}
                          /\ OptionValue(o) # 0 =>
                                \E i \in Set(o) : First(i, Set(o)) /\ asked[i].optval = OptionValue(o)
  BY TimeoutValue
<1>8. Timeouts = {12, 13, 14}
  BY DEF Timeouts, OPT_READIDLEKETIMEOUT, OPT_WRITEIDELETIMEOUT, OPT_ALLIDELRTIMEOUT
<1>9. Wheel = WheelOf(OptionValue(12), OptionValue(13), OptionValue(IF bootstrap = "server" THEN 14 ELSE 12))
  BY DEF Wheel, OPT_READIDLEKETIMEOUT, OPT_WRITEIDELETIMEOUT, OPT_ALLIDELRTIMEOUT
<1>10. /\ Wheel \in Int
       /\ \E o \in Timeouts : Wheel = OptionValue(o)
       /\ Wheel = 0 => \A o \in Timeouts : OptionValue(o) = 0 \/ (bootstrap = "client" /\ o = 14)
  <2>1. PICK r \in Nat, w \in Nat, a \in Nat :
            r = OptionValue(12) /\ w = OptionValue(13) /\ a = OptionValue(14)
    BY <1>7, <1>8
  <2>2. Wheel = WheelOf(r, w, IF bootstrap = "server" THEN a ELSE r)
    BY <1>6, <1>9, <2>1
  <2> QED BY <2>1, <2>2, <1>6, <1>8 DEF WheelOf
<1>11. Told(0, DefaultBackLog) \in Int /\ \A k : Latest(k, Under(0)) => Told(0, DefaultBackLog) = listenerOps[k][2]
  <2>1. DefaultBackLog \in Int /\ 0 \in 0..14
    BY BackLogAssumption
  <2>2. /\ Told(0, DefaultBackLog) \in Int
        /\ Under(0) = {} => Told(0, DefaultBackLog) = DefaultBackLog
        /\ \A k : Latest(k, Under(0)) => Told(0, DefaultBackLog) = listenerOps[k][2]
        /\ Under(0) # {} => Told(0, DefaultBackLog) > 0
    BY ONLY <2>1, IInv, ToldFacts
  <2> QED BY <2>2
<1>12. Told(2, 0) \in Int /\ (Told(2, 0) # 0 <=> Under(2) # {})
  <2>1. /\ Told(2, 0) \in Int
        /\ Under(2) = {} => Told(2, 0) = 0
        /\ Under(2) # {} => Told(2, 0) > 0
    BY ToldFacts
  <2> QED BY <2>1
<1>13. OptionsReach'
  <2>1. ASSUME Wheel # 0
        PROVE  \E o \in Timeouts : \E i \in Set(o) : asked[i].optval = Wheel /\ \A j \in Set(o) : i <= j
    BY <2>1, <1>7, <1>10 DEF First
  <2>2. ASSUME Wheel = 0, NEW o \in Timeouts
        PROVE  Set(o) = {} \/ (bootstrap = "client" /\ o = OPT_ALLIDELRTIMEOUT)
    BY <2>2, <1>7, <1>10 DEF OPT_ALLIDELRTIMEOUT
  <2>3. ASSUME NEW i \in Set(0), bootstrap = "server", \A j \in Set(0) : j <= i
        PROVE  backlog' = asked[i].optval
    <3>1. Latest(i, Set(0)) /\ i \in DOMAIN asked
      BY <2>3 DEF Latest, Set
    <3>2. PICK k \in DOMAIN listenerOps : Latest(k, Under(0)) /\ listenerOps[k][2] = asked[i].optval
      BY <3>1, <2>3 DEF IInv, BacklogInv
    <3> QED BY <3>2, <2>3, <1>4, <1>11
  <2>4. reuseable' # 0 <=> bootstrap = "server" /\ SwitchedOn(2) \cup Set(OPT_TCPMAXSEG) # {}
    <3>1. CASE bootstrap = "server"
      BY <3>1, <1>4, <1>12 DEF IInv, ReuseInv
    <3>2. CASE bootstrap = "client"
      BY <3>2, <1>5 DEF IInv, StartInv
    <3> QED BY <3>1, <3>2, <1>6
  <2> QED BY <1>1, <1>2, <2>1, <2>2, <2>3, <2>4 DEF OptionsReach
<1>14. TypeOK'
  <2>1. reuseable' \in Int /\ backlog' \in Int
    BY <1>4, <1>5, <1>6, <1>11, <1>12 DEF IInv, TypeOK
  <2>2. stage' \in {"new", "created", "started", "listening", "caught", "holding", "reopening", "freed"}
    BY <1>4, <1>5, <1>6 DEF IInv, TypeOK
  <2>3. ConfigTypeOK'
    BY <1>1, <1>10 DEF IInv, TypeOK, ConfigTypeOK
  <2> QED BY <1>1, <2>1, <2>2, <2>3 DEF IInv, TypeOK
<1>15. StartInv'
  BY <1>1, <1>4, <1>5, <1>6 DEF IInv, StartInv
<1>16. FdInv'
  <2>1. CASE bootstrap = "server"
    BY <2>1, <1>1, <1>4 DEF IInv, FdInv
  <2>2. CASE bootstrap = "client"
    BY <2>2, <1>1, <1>5 DEF IInv, FdInv
  <2> QED BY <2>1, <2>2, <1>6
<1>17. FaultCause'
  BY <1>1 DEF FaultCause
<1> QED BY <1>3, <1>13, <1>14, <1>15, <1>16, <1>17 DEF IInv
-----------------------------------------------------------------------------
(* listen(), accept() and exceptionCaught()                                *)

(* No option is set, and the Listener keeps what start() gave it.          *)
LEMMA ConfigFrozen ==
    ASSUME IInv, UNCHANGED <<config, reuseable, backlog>>
    PROVE  /\ ConfigTypeOK' /\ CacheInv' /\ ValuesInv' /\ BacklogInv' /\ ReuseInv'
           /\ OptionsReach'
           /\ reuseable' \in Int /\ backlog' \in Int
<1>1. UNCHANGED <<bootstrap, listenerOps, cacheOps, wheel, started, asked, reuseable, backlog>>
  BY DEF config
<1>2. \A o : Set(o)' = Set(o) /\ SwitchedOn(o)' = SwitchedOn(o) /\ Under(o)' = Under(o)
  BY <1>1 DEF Set, SwitchedOn, Under
<1>3. CacheInv' /\ ValuesInv' /\ BacklogInv' /\ ReuseInv'
  BY <1>1, <1>2 DEF IInv, CacheInv, ValuesInv, BacklogInv, ReuseInv
<1>4. OptionsReach'
  BY <1>1, <1>2 DEF IInv, OptionsReach
<1>5. ConfigTypeOK' /\ reuseable' \in Int /\ backlog' \in Int
  BY <1>1 DEF IInv, TypeOK, ConfigTypeOK
<1> QED BY <1>3, <1>4, <1>5

(* What is left to show of the other actions.                              *)
LEMMA FrozenKeeps ==
    ASSUME IInv, UNCHANGED <<config, reuseable, backlog>>,
           stage' \in {"new", "created", "started", "listening", "caught", "holding", "reopening", "freed"},
           table' \in [Fd -> {"free", "spare", "listen", "channel", "other"}],
           devnull' \in Fd \cup {None}, listenFd' \in Fd \cup {None},
           address' \in {"free", "lingers", "listened", "denied"}, shortage' \in BOOLEAN,
           waiting' \in Seq(Client),
           got' \in [Client -> {"none", "waiting", "accepted", "dropped", "refused"}],
           fault' \in {"none", "devnull", "bind", "alien"},
           stolen' \in BOOLEAN,
           StartInv', FdInv', FaultCause'
    PROVE  IInv'
<1>1. /\ ConfigTypeOK' /\ CacheInv' /\ ValuesInv' /\ BacklogInv' /\ ReuseInv'
      /\ OptionsReach'
      /\ reuseable' \in Int /\ backlog' \in Int
  BY ConfigFrozen
<1>2. TypeOK'
  BY <1>1 DEF TypeOK
<1> QED BY <1>1, <1>2 DEF IInv

(* A step that breaks nothing.                                             *)
LEMMA NoFault ==
    ASSUME fault' = "none"
    PROVE  FaultCause'
BY DEF FaultCause

(* The first connection that waits is taken off.                           *)
LEMMA TailFacts ==
    ASSUME NEW S, NEW s \in Seq(S), s # <<>>
    PROVE  Head(s) \in S /\ Tail(s) \in Seq(S)
BY HeadTailProperties

LEMMA CreateKeeps ==
    ASSUME IInv, Create
    PROVE  IInv'
<1> USE DEF IInv, TypeOK
<1>1. /\ stage = "new" /\ bootstrap = "server" /\ fault = "none"
      /\ UNCHANGED <<config, listenFd, reuseable, backlog, address, shortage, waiting, got, stolen>>
  BY DEF Create
<1>2. UNCHANGED <<bootstrap, started>>
  BY <1>1 DEF config
<1>3. CASE \E f \in Fd : /\ IsFree(f)
                         /\ stage' = "created"
                         /\ devnull' = f
                         /\ table' = [table EXCEPT ![f] = "spare"]
                         /\ UNCHANGED fault
  <2>1. PICK f \in Fd : /\ IsFree(f) /\ stage' = "created" /\ devnull' = f
                        /\ table' = [table EXCEPT ![f] = "spare"]
                        /\ fault' = fault
    BY <1>3
  <2>2. FdInv'
    BY <1>1, <2>1, NoneAssumption DEF FdInv
  <2>3. StartInv'
    BY <1>1, <1>2, <2>1 DEF StartInv
  <2>4. FaultCause'
    BY <1>1, <2>1, NoFault
  <2>5. table' \in [Fd -> {"free", "spare", "listen", "channel", "other"}]
    BY <2>1
  <2> QED BY <1>1, <2>1, <2>2, <2>3, <2>4, <2>5, FrozenKeeps
<1>4. CASE (Full \/ shortage) /\ fault' = "devnull" /\ UNCHANGED <<stage, devnull, table>>
  <2>1. FdInv'
    BY <1>1, <1>4 DEF FdInv
  <2>2. StartInv'
    BY <1>1, <1>2, <1>4 DEF StartInv
  <2>3. FaultCause'
    BY <1>1, <1>4 DEF FaultCause, Full, IsFree
  <2> QED BY <1>1, <1>4, <2>1, <2>2, <2>3, FrozenKeeps
<1> QED BY <1>3, <1>4 DEF Create

LEMMA ListenKeeps ==
    ASSUME IInv, Listen
    PROVE  IInv'
<1> USE DEF IInv, TypeOK
<1>1. /\ stage = "started" /\ fault = "none"
      /\ address' \in {"free", "lingers", "listened", "denied"}
      /\ UNCHANGED <<config, devnull, reuseable, backlog, shortage, waiting, got, stolen>>
  BY DEF Listen
<1>2. UNCHANGED <<bootstrap, started, asked>>
  BY <1>1 DEF config
<1>3. CASE \E f \in Fd : /\ IsFree(f)
                         /\ stage' = "listening"
                         /\ listenFd' = f
                         /\ table' = [table EXCEPT ![f] = "listen"]
                         /\ UNCHANGED fault
  <2>1. PICK f \in Fd : /\ IsFree(f) /\ stage' = "listening" /\ listenFd' = f
                        /\ table' = [table EXCEPT ![f] = "listen"]
                        /\ fault' = fault
    BY <1>3
  <2>2. FdInv'
    BY <1>1, <2>1, NoneAssumption DEF FdInv, IsFree
  <2>3. StartInv'
    BY <1>1, <1>2, <2>1 DEF StartInv
  <2>4. FaultCause'
    BY <1>1, <2>1, NoFault
  <2>5. table' \in [Fd -> {"free", "spare", "listen", "channel", "other"}]
    BY <2>1
  <2> QED BY <1>1, <2>1, <2>2, <2>3, <2>4, <2>5, FrozenKeeps
<1>4. CASE /\ \/ Full \/ shortage
              \/ address' \in {"listened", "denied"}
              \/ address' = "lingers" /\ reuseable = 0
           /\ fault' = "bind"
           /\ UNCHANGED <<stage, listenFd, table>>
  <2>1. FdInv'
    BY <1>1, <1>4 DEF FdInv
  <2>2. StartInv'
    BY <1>1, <1>2, <1>4 DEF StartInv
  <2>3. bootstrap = "server" /\ started
    BY <1>1 DEF StartInv, ConfigTypeOK
  <2>4. reuseable = 0 => SwitchedOn(OPT_REUSEPORT) = {}
    BY <2>3 DEF OptionsReach
  <2>5. Full' = Full /\ SwitchedOn(OPT_REUSEPORT)' = SwitchedOn(OPT_REUSEPORT)
    BY <1>2, <1>4 DEF Full, IsFree, SwitchedOn
  <2>6. FaultCause'
    BY <1>1, <1>4, <2>4, <2>5 DEF FaultCause
  <2> QED BY <1>1, <1>4, <2>1, <2>2, <2>6, FrozenKeeps
<1> QED BY <1>3, <1>4 DEF Listen

LEMMA ArriveKeeps ==
    ASSUME IInv, NEW c \in Client, Arrive(c)
    PROVE  IInv'
<1> USE DEF IInv, TypeOK
<1>1. /\ fault = "none"
      /\ UNCHANGED <<config, stage, table, devnull, listenFd, reuseable, backlog, address, shortage, fault, stolen>>
  BY DEF Arrive
<1>2. UNCHANGED <<bootstrap, started>>
  BY <1>1 DEF config
<1>3. /\ waiting' \in Seq(Client)
      /\ waiting # <<>> => waiting' # <<>>
      /\ got' \in [Client -> {"none", "waiting", "accepted", "dropped", "refused"}]
  <2>1. Append(waiting, c) \in Seq(Client) /\ Append(waiting, c) # <<>>
    BY AppendProperties
  <2> QED BY <2>1 DEF Arrive
<1>4. FdInv'
  BY <1>1, <1>3 DEF FdInv
<1>5. StartInv'
  BY <1>1, <1>2 DEF StartInv
<1> QED BY <1>1, <1>3, <1>4, <1>5, NoFault, FrozenKeeps

LEMMA NewChannelKeeps ==
    ASSUME IInv, NewChannel
    PROVE  IInv'
<1> USE DEF IInv, TypeOK
<1>1. /\ stage = "listening" /\ fault = "none" /\ waiting # <<>>
      /\ waiting' = Tail(waiting)
      /\ got' = [got EXCEPT ![Head(waiting)] = "accepted"]
      /\ UNCHANGED <<config, stage, devnull, listenFd, reuseable, backlog, address, shortage, fault, stolen>>
  BY DEF NewChannel, Errno
<1>2. UNCHANGED <<bootstrap, started>>
  BY <1>1 DEF config
<1>3. PICK f \in Fd : IsFree(f) /\ table' = [table EXCEPT ![f] = "channel"]
  BY DEF NewChannel
<1>4. FdInv'
  BY <1>1, <1>3, NoneAssumption DEF FdInv, IsFree
<1>5. StartInv'
  BY <1>1, <1>2 DEF StartInv
<1>6. waiting' \in Seq(Client) /\ got' \in [Client -> {"none", "waiting", "accepted", "dropped", "refused"}]
  BY <1>1, TailFacts
<1>7. table' \in [Fd -> {"free", "spare", "listen", "channel", "other"}]
  BY <1>3
<1> QED BY <1>1, <1>4, <1>5, <1>6, <1>7, NoFault, FrozenKeeps

(* The spare descriptor, where there is one, is closed, and no other.      *)
LEMMA Closed ==
    ASSUME IInv, CloseDevnull, stage \in {"listening", "holding"}
    PROVE  /\ fault' = fault
           /\ table' \in [Fd -> {"free", "spare", "listen", "channel", "other"}]
           /\ devnull # None => table'[devnull] = "free"
           /\ table'[listenFd] = "listen"
<1> USE DEF IInv, TypeOK
<1>1. listenFd # None /\ table[listenFd] = "listen"
  BY DEF FdInv
<1>2. CASE devnull = None
  BY <1>1, <1>2 DEF CloseDevnull
<1>3. CASE devnull # None
  <2>1. devnull \in Fd /\ table[devnull] = "spare"
    BY <1>3 DEF FdInv
  <2> QED BY <1>1, <1>3, <2>1 DEF CloseDevnull
<1> QED BY <1>2, <1>3

LEMMA ExceptionCaughtKeeps ==
    ASSUME IInv, ExceptionCaught
    PROVE  IInv'
<1>1. /\ stage = "listening" /\ fault = "none" /\ waiting # <<>>
      /\ UNCHANGED <<config, devnull, listenFd, reuseable, backlog, address, shortage, waiting, got>>
  BY DEF ExceptionCaught, Errno
<1>2. CASE Errno = "EMFILE"
  <2>1. CloseDevnull /\ stage' = "caught" /\ stolen' = (stolen \/ shortage)
    BY <1>2 DEF ExceptionCaught
  <2>2. /\ fault' = fault
        /\ table' \in [Fd -> {"free", "spare", "listen", "channel", "other"}]
        /\ devnull # None => table'[devnull] = "free"
        /\ table'[listenFd] = "listen"
    BY <1>1, <2>1, Closed
  <2>3. stolen' \in BOOLEAN /\ (stolen => stolen') /\ (shortage => stolen')
    BY <2>1
  <2> USE DEF IInv, TypeOK
  <2>4. FdInv'
    BY <1>1, <2>1, <2>2, <2>3 DEF FdInv
  <2>5. StartInv'
    BY <1>1, <2>1 DEF StartInv, config
  <2> QED BY <1>1, <2>1, <2>2, <2>3, <2>4, <2>5, NoFault, FrozenKeeps
<1>3. CASE Errno # "EMFILE"
  <2>1. UNCHANGED <<table, fault, stage, stolen>>
    BY <1>3 DEF ExceptionCaught
  <2> USE DEF IInv, TypeOK
  <2>2. FdInv' /\ StartInv'
    BY <1>1, <2>1 DEF FdInv, StartInv, config
  <2> QED BY <1>1, <2>1, <2>2, NoFault, FrozenKeeps
<1> QED BY <1>2, <1>3

LEMMA AcceptSpareKeeps ==
    ASSUME IInv, AcceptSpare
    PROVE  IInv'
<1> USE DEF IInv, TypeOK
<1>1. /\ stage = "caught" /\ fault = "none" /\ stage' = "holding"
      /\ UNCHANGED <<config, listenFd, reuseable, backlog, address, shortage, fault, stolen>>
  BY DEF AcceptSpare
<1>2. StartInv'
  BY <1>1 DEF StartInv, config
<1>3. waiting # <<>>
  BY <1>1 DEF FdInv
<1>4. CASE \E f \in Fd : /\ IsFree(f) /\ Errno = "none"
                         /\ table' = [table EXCEPT ![f] = "spare"]
                         /\ devnull' = f
                         /\ waiting' = Tail(waiting)
                         /\ got' = [got EXCEPT ![Head(waiting)] = "dropped"]
  <2>1. PICK f \in Fd : /\ IsFree(f)
                        /\ table' = [table EXCEPT ![f] = "spare"]
                        /\ devnull' = f
                        /\ waiting' = Tail(waiting)
                        /\ got' = [got EXCEPT ![Head(waiting)] = "dropped"]
    BY <1>4
  <2>2. FdInv'
    BY <1>1, <2>1, NoneAssumption DEF FdInv, IsFree
  <2>3. waiting' \in Seq(Client) /\ got' \in [Client -> {"none", "waiting", "accepted", "dropped", "refused"}]
    BY <1>3, <2>1, TailFacts
  <2>4. table' \in [Fd -> {"free", "spare", "listen", "channel", "other"}]
    BY <2>1
  <2> QED BY <1>1, <1>2, <2>1, <2>2, <2>3, <2>4, NoFault, FrozenKeeps
<1>5. CASE /\ Errno # "none"
           /\ devnull' = None
           /\ UNCHANGED <<table, waiting, got>>
  <2>1. stolen
    BY <1>1, <1>3, <1>5 DEF FdInv, Errno, Full, IsFree
  <2>2. FdInv'
    BY <1>1, <1>5, <2>1 DEF FdInv
  <2> QED BY <1>1, <1>2, <1>5, <2>2, NoFault, FrozenKeeps
<1> QED BY <1>4, <1>5 DEF AcceptSpare

LEMMA CloseSpareKeeps ==
    ASSUME IInv, CloseSpare
    PROVE  IInv'
<1>1. /\ stage = "holding" /\ fault = "none" /\ stage' = "reopening"
      /\ CloseDevnull
      /\ UNCHANGED <<config, devnull, listenFd, reuseable, backlog, address, shortage, waiting, got, stolen>>
  BY DEF CloseSpare
<1>2. /\ fault' = fault
      /\ table' \in [Fd -> {"free", "spare", "listen", "channel", "other"}]
      /\ devnull # None => table'[devnull] = "free"
      /\ table'[listenFd] = "listen"
  BY <1>1, Closed
<1> USE DEF IInv, TypeOK
<1>3. FdInv'
  BY <1>1, <1>2 DEF FdInv
<1>4. StartInv'
  BY <1>1 DEF StartInv, config
<1> QED BY <1>1, <1>2, <1>3, <1>4, NoFault, FrozenKeeps

LEMMA ReopenKeeps ==
    ASSUME IInv, Reopen
    PROVE  IInv'
<1> USE DEF IInv, TypeOK
<1>1. /\ stage = "reopening" /\ fault = "none" /\ stage' = "listening"
      /\ UNCHANGED <<config, listenFd, reuseable, backlog, address, shortage, waiting, got, fault, stolen>>
  BY DEF Reopen
<1>2. StartInv'
  BY <1>1 DEF StartInv, config
<1>3. CASE \E f \in Fd : IsFree(f) /\ devnull' = f /\ table' = [table EXCEPT ![f] = "spare"]
  <2>1. PICK f \in Fd : IsFree(f) /\ devnull' = f /\ table' = [table EXCEPT ![f] = "spare"]
    BY <1>3
  <2>2. FdInv'
    BY <1>1, <2>1, NoneAssumption DEF FdInv, IsFree
  <2>3. table' \in [Fd -> {"free", "spare", "listen", "channel", "other"}]
    BY <2>1
  <2> QED BY <1>1, <1>2, <2>1, <2>2, <2>3, NoFault, FrozenKeeps
<1>4. CASE (Full \/ shortage) /\ devnull' = None /\ UNCHANGED table
  <2>1. stolen
    BY <1>1, <1>4 DEF FdInv, Full, IsFree
  <2>2. FdInv'
    BY <1>1, <1>4, <2>1 DEF FdInv
  <2> QED BY <1>1, <1>2, <1>4, <2>2, NoFault, FrozenKeeps
<1> QED BY <1>3, <1>4 DEF Reopen

LEMMA ScarceKeeps ==
    ASSUME IInv, Scarce
    PROVE  IInv'
<1>1. /\ fault = "none"
      /\ shortage' \in BOOLEAN
      /\ stolen' = (stolen \/ stage \in {"caught", "holding", "reopening"})
      /\ UNCHANGED <<config, stage, table, devnull, listenFd, reuseable, backlog, address, waiting, got, fault>>
  BY DEF Scarce
<1> USE DEF IInv, TypeOK
<1>2. stolen' \in BOOLEAN /\ (stolen => stolen') /\ (stage \in {"caught", "holding", "reopening"} => stolen')
  BY <1>1
<1>3. FdInv'
  BY <1>1, <1>2 DEF FdInv
<1>4. StartInv'
  BY <1>1 DEF StartInv, config
<1> QED BY <1>1, <1>2, <1>3, <1>4, NoFault, FrozenKeeps

LEMMA DestroyKeeps ==
    ASSUME IInv, Destroy
    PROVE  IInv'
<1> USE DEF IInv, TypeOK
<1>1. /\ stage \in {"created", "listening"} /\ fault = "none" /\ stage' = "freed"
      /\ table' = [f \in Fd |-> IF f \in {devnull, listenFd} THEN "free" ELSE table[f]]
      /\ devnull' = None /\ listenFd' = None /\ waiting' = <<>>
      /\ got' = [c \in Client |-> IF got[c] = "waiting" THEN "dropped" ELSE got[c]]
      /\ UNCHANGED <<config, reuseable, backlog, address, shortage, fault, stolen>>
  BY DEF Destroy
<1>2. StartInv'
  BY <1>1 DEF StartInv, config
<1>3. FdInv'
  BY <1>1 DEF FdInv
<1>4. waiting' \in Seq(Client)
  BY <1>1, EmptySeq
<1>5. table' \in [Fd -> {"free", "spare", "listen", "channel", "other"}]
  BY <1>1
<1>6. got' \in [Client -> {"none", "waiting", "accepted", "dropped", "refused"}]
  BY <1>1
<1> QED BY <1>1, <1>2, <1>3, <1>4, <1>5, <1>6, NoFault, FrozenKeeps

LEMMA OthersKeep ==
    ASSUME IInv, NEW f \in Fd, OtherOpens(f) \/ OtherCloses(f)
    PROVE  IInv'
<1> USE DEF IInv, TypeOK
<1>1. /\ fault = "none" /\ stage # "freed" /\ bootstrap = "server"
      /\ UNCHANGED <<config, stage, devnull, listenFd, reuseable, backlog, address, shortage, waiting, got, fault>>
  BY DEF OtherOpens, OtherCloses
<1>2. StartInv'
  BY <1>1 DEF StartInv, config
<1>3. CASE OtherOpens(f)
  <2>1. /\ table[f] = "free" /\ table' = [table EXCEPT ![f] = "other"]
        /\ stolen' = (stolen \/ stage \in {"caught", "reopening"})
    BY <1>3 DEF OtherOpens, IsFree
  <2>2. \A g \in Fd : table[g] # "free" => table'[g] = table[g]
    BY <2>1
  <2>3. stolen => stolen'
    BY <2>1
  <2>4. stage \in {"caught", "reopening"} => stolen'
    BY <2>1
  <2>5. FdInv'
    BY <1>1, <2>2, <2>3, <2>4 DEF FdInv
  <2>6. table' \in [Fd -> {"free", "spare", "listen", "channel", "other"}] /\ stolen' \in BOOLEAN
    BY <2>1
  <2> QED BY <1>1, <1>2, <2>5, <2>6, NoFault, FrozenKeeps
<1>4. CASE OtherCloses(f)
  <2>1. /\ table[f] \in {"other", "channel"} /\ table' = [table EXCEPT ![f] = "free"]
        /\ stolen' = stolen
    BY <1>4 DEF OtherCloses
  <2>2. \A g \in Fd : table[g] \notin {"other", "channel"} => table'[g] = table[g]
    BY <2>1
  <2>3. FdInv'
    BY <1>1, <2>1, <2>2 DEF FdInv
  <2>4. table' \in [Fd -> {"free", "spare", "listen", "channel", "other"}]
    BY <2>1
  <2> QED BY <1>1, <1>2, <2>1, <2>3, <2>4, NoFault, FrozenKeeps
<1> QED BY <1>3, <1>4
-----------------------------------------------------------------------------
(* The Listener                                                            *)

LEMMA InitInv == Init => IInv
<1> SUFFICES ASSUME Init PROVE IInv
  OBVIOUS
<1> USE DEF Init, ConfigInit
<1>1. DOMAIN asked = {} /\ DOMAIN listenerOps = {}
  OBVIOUS
<1>2. \A o : Set(o) = {} /\ SwitchedOn(o) = {} /\ Under(o) = {}
  BY <1>1 DEF Set, SwitchedOn, Under
<1>3. TypeOK
  <2>1. /\ listenerOps \in Seq((0..14) \X Int) /\ waiting \in Seq(Client)
        /\ asked \in Seq([opt : 0..14, optval : Int, call : {"bool", "int"}])
    BY EmptySeq
  <2>2. /\ bootstrap \in {"server", "client"} /\ cacheOps \subseteq (0..14) \X Int
        /\ wheel \in Int
    OBVIOUS
  <2>3. table \in [Fd -> {"free", "spare", "listen", "channel", "other"}]
    OBVIOUS
  <2>4. backlog \in Int
    BY BackLogAssumption
  <2>5. got \in [Client -> {"none", "waiting", "accepted", "dropped", "refused"}]
    OBVIOUS
  <2>6. /\ stage \in {"new", "created", "started", "listening", "caught", "holding", "reopening", "freed"}
        /\ devnull \in Fd \cup {None} /\ listenFd \in Fd \cup {None} /\ reuseable \in Int
        /\ address \in {"free", "lingers", "listened", "denied"} /\ fault \in {"none", "devnull", "bind", "alien"}
    OBVIOUS
  <2>7. stolen \in BOOLEAN /\ started \in BOOLEAN /\ shortage \in BOOLEAN
    BY Zenon
  <2> QED BY ONLY <2>1, <2>2, <2>3, <2>4, <2>5, <2>6, <2>7, Zenon DEF TypeOK, ConfigTypeOK
<1>4. CacheInv /\ ValuesInv
  BY <1>1, <1>2 DEF CacheInv, ValuesInv
<1>5. BacklogInv /\ ReuseInv
  BY <1>1, <1>2 DEF BacklogInv, ReuseInv
<1>6. StartInv /\ FdInv
  BY DEF StartInv, FdInv
<1>7. OptionsReach /\ FaultCause
  BY DEF OptionsReach, FaultCause
<1> QED BY <1>3, <1>4, <1>5, <1>6, <1>7 DEF IInv

LEMMA NextKeeps == IInv /\ [Next]_vars => IInv'
<1> SUFFICES ASSUME IInv, [Next]_vars PROVE IInv'
  OBVIOUS
<1>1. CASE Option
  BY <1>1, OptionKeeps
<1>2. CASE Create
  BY <1>2, CreateKeeps
<1>3. CASE Start
  BY <1>3, StartKeeps
<1>4. CASE Listen
  BY <1>4, ListenKeeps
<1>5. CASE Serve
  BY <1>5, NewChannelKeeps, ExceptionCaughtKeeps, AcceptSpareKeeps, CloseSpareKeeps, ReopenKeeps DEF Serve
<1>6. CASE Destroy
  BY <1>6, DestroyKeeps
<1>7. CASE \E c \in Client : Arrive(c)
  BY <1>7, ArriveKeeps
<1>8. CASE \E f \in Fd : OtherOpens(f) \/ OtherCloses(f)
  BY <1>8, OthersKeep
<1>10. CASE Scarce
  BY <1>10, ScarceKeeps
<1>9. CASE UNCHANGED vars
  <2>1. /\ UNCHANGED <<config, reuseable, backlog>>
        /\ UNCHANGED <<bootstrap, started, asked>>
        /\ UNCHANGED <<stage, table, devnull, listenFd, address, shortage, waiting, got, fault, stolen>>
    BY <1>9 DEF vars, config
  <2>2. StartInv' /\ FdInv'
    BY <2>1 DEF IInv, StartInv, FdInv
  <2>3. FaultCause'
    BY <2>1 DEF IInv, FaultCause, Full, IsFree, SwitchedOn
  <2> QED BY <2>1, <2>2, <2>3, FrozenKeeps DEF IInv, TypeOK
<1> QED BY <1>1, <1>2, <1>3, <1>4, <1>5, <1>6, <1>7, <1>8, <1>9, <1>10 DEF Next

LEMMA SpecInv == Spec => []IInv
BY InitInv, NextKeeps, PTL DEF Spec

(* ServerBootstrap and ClientBootstrap, option() to start() and connect(): *)
(* whatever is set, in any order and through either overload, the wheel    *)
(* and the Listener get what OptionsReach says they do.                    *)
THEOREM OptionsReachListener == Spec => []OptionsReach
<1>1. IInv => OptionsReach
  BY DEF IInv
<1> QED BY <1>1, SpecInv, PTL

(* Listener::exceptionCaught(): the spare descriptor is there whenever the *)
(* loop comes back to accept(), unless another thread opened a descriptor  *)
(* while it was out.                                                       *)
THEOREM SpareKept == Spec => []ReserveKept
<1>1. IInv => ReserveKept
  BY DEF IInv, FdInv, ReserveKept
<1> QED BY <1>1, SpecInv, PTL

(* Listener() and Listener::listen(): the assertions fail for the causes   *)
(* that FaultCause names, and exceptionCaught() closes only its own        *)
(* descriptor, however many there are and whoever else opens and closes.   *)
THEOREM ListenerFaults == Spec => []FaultCause
<1>1. IInv => FaultCause
  BY DEF IInv
<1> QED BY <1>1, SpecInv, PTL
=============================================================================

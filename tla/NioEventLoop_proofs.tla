-------------------------- MODULE NioEventLoop_proofs --------------------------
(***************************************************************************)
(* Theorems about NioEventLoop for any timers, delays and callers.         *)
(*                                                                         *)
(* The books of the events are kept by the place of an event alone: a      *)
(* deleted Functor is in no queue, a freed event has a TimerId only when   *)
(* it was copied, and what a callback is owed never exceeds what the base  *)
(* still waits by more than the base's time was old when the event was     *)
(* made, however late the runs before it were.                             *)
(***************************************************************************)
EXTENDS NioEventLoop, FiniteSetTheorems, FunctionTheorems, SequenceTheorems, TLAPS

Pending(t) == place[t] \in {"heap", "active"}

(* The events that were made are finitely many.                            *)
Made == {t \in Timer : kind[t] # "none"}

MadeInv ==
    /\ IsFiniteSet(Made)
    /\ \A t \in Timer : kind[t] = "none" => place[t] = "none"
    /\ \A t \in Timer : kind[t] = "every" => period[t] >= 0

(* A sequence that has each member of A once and nothing else.             *)
Lists(s, A) ==
    /\ \A i \in DOMAIN s : s[i] \in A
    /\ \A a \in A : \E i \in DOMAIN s : s[i] = a
    /\ \A i, j \in DOMAIN s : s[i] = s[j] => i = j

Active == {t \in Timer : place[t] = "active"}

QueueInv == Lists(order, Active)

(* A Functor that is deleted waits for nothing; shutdownGracefully() has   *)
(* none, and what a periodic one waits for is lost for a known reason.     *)
FunctorInv ==
    /\ \A t \in Timer : functor[t] = "deleted" => ~Pending(t) /\ kind[t] # "none"
    /\ \A t \in Timer : kind[t] \in {"none", "exit"} => functor[t] = "none"
    /\ \A t \in Timer : kind[t] = "every" /\ ~Pending(t) =>
          t \in cancelled \/ loop = "freed" \/ period[t] = 0
    /\ \A t \in Timer : functor[t] = "alive" /\ ~Pending(t) /\ running # t =>
          t \in cancelled \/ loop = "freed" \/ (kind[t] = "every" /\ period[t] = 0)

(* What is on the stack, under the loop, has left the queue.               *)
RunningInv ==
    running # None =>
        /\ kind[running] \in {"once", "after", "every"}
        /\ kind[running] # "every" => ~Pending(running)

CancelledInv == \A t \in cancelled : place[t] = "freed"

(* Who can still cancel what.                                              *)
HandleInv ==
    \A t \in Timer :
        /\ handles[t] # {} => kind[t] \in {"after", "every"}
        /\ "copy" \in handles[t] => t \in copied
        /\ place[t] = "freed" /\ handles[t] # {} => t \in copied

(* The base waits at least for what is owed, but for the age of its time   *)
(* when it was asked, and for a shutdown after whole seconds.              *)
OwedInv ==
    \A t \in Timer : Pending(t) =>
        owed[t] <= left[t] + backdated[t] \/ (kind[t] = "exit" /\ period[t] % PerSecond = 0)

IInv ==
    /\ TypeOK
    /\ MadeInv
    /\ QueueInv
    /\ FunctorInv
    /\ RunningInv
    /\ CancelledInv
    /\ HandleInv
    /\ OwedInv
    /\ NeverEarly
    /\ FaultCause
-----------------------------------------------------------------------------
(* Queues                                                                  *)

LEMMA EmptyLists == ASSUME NEW S PROVE <<>> \in Seq(S) /\ Lists(<<>>, {})
<1>1. <<>> \in Seq(S) /\ DOMAIN <<>> = {}
  BY EmptySeq
<1> QED BY <1>1 DEF Lists

LEMMA AppendLists ==
    ASSUME NEW S, NEW s \in Seq(S), NEW A, Lists(s, A), NEW e \in S, e \notin A
    PROVE  Append(s, e) \in Seq(S) /\ Lists(Append(s, e), A \cup {e})
<1> DEFINE u == Append(s, e)
<1>1. u \in Seq(S) /\ Len(u) = Len(s) + 1 /\ Len(s) \in Nat
  BY AppendProperties
<1>2. DOMAIN u = 1..Len(s) + 1 /\ DOMAIN s = 1..Len(s)
  BY <1>1
<1>3. \A i \in 1..Len(s) : u[i] = s[i]
  BY AppendProperties
<1>4. u[Len(s) + 1] = e
  BY AppendProperties
<1>5. \A i \in DOMAIN u : i \in DOMAIN s \/ i = Len(s) + 1
  BY <1>1, <1>2
<1> HIDE DEF u
<1>6. \A i \in DOMAIN u : u[i] \in A \cup {e}
  BY <1>2, <1>3, <1>4, <1>5 DEF Lists
<1>7. \A a \in A \cup {e} : \E i \in DOMAIN u : u[i] = a
  <2>1. ASSUME NEW a \in A PROVE \E i \in DOMAIN u : u[i] = a
    <3>1. PICK i \in DOMAIN s : s[i] = a
      BY DEF Lists
    <3> QED BY <3>1, <1>1, <1>2, <1>3
  <2>2. Len(s) + 1 \in DOMAIN u
    BY <1>1, <1>2
  <2> QED BY <2>1, <2>2, <1>4
<1>8. ASSUME NEW i \in DOMAIN u, NEW j \in DOMAIN u, u[i] = u[j] PROVE i = j
  <2>1. CASE i \in DOMAIN s /\ j \in DOMAIN s
    BY <2>1, <1>8, <1>2, <1>3 DEF Lists
  <2>2. CASE i = Len(s) + 1 /\ j \in DOMAIN s
    BY <2>2, <1>8, <1>2, <1>3, <1>4 DEF Lists
  <2>3. CASE i \in DOMAIN s /\ j = Len(s) + 1
    BY <2>3, <1>8, <1>2, <1>3, <1>4 DEF Lists
  <2>4. CASE i = Len(s) + 1 /\ j = Len(s) + 1
    BY <2>4
  <2> QED BY <2>1, <2>2, <2>3, <2>4, <1>5
<1>9. Lists(u, A \cup {e})
  BY <1>6, <1>7, <1>8 DEF Lists
<1> QED BY <1>1, <1>9 DEF u

LEMMA TailLists ==
    ASSUME NEW S, NEW s \in Seq(S), NEW A, Lists(s, A), s # <<>>
    PROVE  /\ Head(s) \in A
           /\ Tail(s) \in Seq(S)
           /\ Lists(Tail(s), A \ {Head(s)})
<1> DEFINE u == Tail(s)
<1>1. u \in Seq(S) /\ Len(u) = Len(s) - 1 /\ Len(s) \in Nat \ {0} /\ Head(s) = s[1]
  BY HeadTailProperties, EmptySeq
<1>2. \A i \in 1..Len(u) : u[i] = s[i + 1]
  BY HeadTailProperties
<1>3. DOMAIN u = 1..Len(s) - 1 /\ DOMAIN s = 1..Len(s)
  BY <1>1
<1> HIDE DEF u
<1>4. \A i \in DOMAIN u : u[i] = s[i + 1] /\ i + 1 \in DOMAIN s /\ i + 1 # 1 /\ i \in Nat
  BY <1>1, <1>2, <1>3
<1>5. 1 \in DOMAIN s
  BY <1>1, <1>3
<1>6. \A i \in DOMAIN u : u[i] \in A \ {Head(s)}
  BY <1>1, <1>4, <1>5 DEF Lists
<1>7. ASSUME NEW a \in A, a # Head(s) PROVE \E i \in DOMAIN u : u[i] = a
  <2>1. PICK k \in DOMAIN s : s[k] = a
    BY DEF Lists
  <2>2. k # 1
    BY <2>1, <1>1, <1>7
  <2>3. k - 1 \in DOMAIN u /\ (k - 1) + 1 = k
    BY <2>2, <1>1, <1>3
  <2> QED BY <2>1, <2>3, <1>4
<1>8. ASSUME NEW i \in DOMAIN u, NEW j \in DOMAIN u, u[i] = u[j] PROVE i = j
  <2>1. i + 1 = j + 1
    BY <1>8, <1>4 DEF Lists
  <2> QED BY <2>1, <1>4
<1>9. Lists(u, A \ {Head(s)})
  BY <1>6, <1>7, <1>8 DEF Lists
<1> QED BY <1>1, <1>5, <1>9 DEF u, Lists

(* event_del() takes its event out and leaves the others in their order.   *)
LEMMA RemoveLists ==
    ASSUME NEW S, NEW s \in Seq(S), NEW A, Lists(s, A), NEW e
    PROVE  RemoveFirst(s, e) \in Seq(S) /\ Lists(RemoveFirst(s, e), A \ {e})
<1>0. DOMAIN s = 1..Len(s) /\ Len(s) \in Nat
  OBVIOUS
<1>1. CASE ~ \E i \in 1..Len(s) : s[i] = e
  <2>1. RemoveFirst(s, e) = s
    BY <1>1 DEF RemoveFirst
  <2>2. e \notin A
    BY <1>0, <1>1 DEF Lists
  <2> QED BY <2>1, <2>2
<1>2. CASE \E i \in 1..Len(s) : s[i] = e
  <2>1. PICK k \in 1..Len(s) : s[k] = e
    BY <1>2
  <2>2. {i \in 1..Len(s) : s[i] = e} = {k}
    BY <2>1, <1>0 DEF Lists
  <2>3. Min({k}) = k
    BY DEF Min
  <2>4. SelectInSeq(s, LAMBDA v : v = e) = k
    BY <2>2, <2>3 DEF SelectInSeq
  <2>5. RemoveFirst(s, e) = RemoveAt(s, k)
    BY <1>2, <2>4 DEF RemoveFirst
  <2> DEFINE p == SubSeq(s, 1, k - 1)
             q == SubSeq(s, k + 1, Len(s))
             u == RemoveAt(s, k)
  <2>6. /\ p \in Seq(S) /\ Len(p) = k - 1
        /\ \A i \in 1..k - 1 : p[i] = s[i]
    BY <1>0
  <2>7. /\ q \in Seq(S) /\ Len(q) = Len(s) - k
        /\ \A i \in 1..Len(s) - k : q[i] = s[k + i]
    <3>0. k + 1 \in Int /\ Len(s) \in Int
      BY <1>0
    <3>1. PICK m \in Int, n \in Int : m = k + 1 /\ n = Len(s)
      BY <3>0
    <3>2. \A i \in m..n : s[i] \in S
      BY <3>1, <1>0
    <3>3. /\ SubSeq(s, m, n) \in Seq(S)
          /\ Len(SubSeq(s, m, n)) = IF m <= n THEN n - m + 1 ELSE 0
          /\ \A i \in 1..n - m + 1 : SubSeq(s, m, n)[i] = s[m + i - 1]
      BY <3>2, SubSeqProperties
    <3>4. q = SubSeq(s, m, n)
      BY <3>1
    <3>5. Len(q) = Len(s) - k
      BY <3>1, <3>3, <3>4, <1>0
    <3>6. \A i \in 1..Len(s) - k : i \in 1..n - m + 1 /\ m + i - 1 = k + i
      BY <3>1, <1>0
    <3> QED BY <3>3, <3>4, <3>5, <3>6
  <2>8. u \in Seq(S) /\ Len(u) = Len(s) - 1 /\ DOMAIN u = 1..Len(s) - 1
    <3>1. u = p \o q
      BY DEF RemoveAt
    <3> HIDE DEF u, p, q
    <3>2. u \in Seq(S) /\ Len(u) = Len(p) + Len(q)
      BY <3>1, <2>6, <2>7, ConcatProperties
    <3>3. Len(u) = Len(s) - 1
      BY <3>2, <2>6, <2>7, <1>0
    <3> QED BY <3>2, <3>3
  <2>9. \A i \in 1..Len(s) - 1 : u[i] = IF i < k THEN s[i] ELSE s[i + 1]
    <3> SUFFICES ASSUME NEW i \in 1..Len(s) - 1 PROVE u[i] = IF i < k THEN s[i] ELSE s[i + 1]
      OBVIOUS
    <3> HIDE DEF p, q
    <3>1. u = p \o q
      BY DEF RemoveAt, p, q
    <3>2. u[i] = IF i <= k - 1 THEN p[i] ELSE q[i - (k - 1)]
      BY <3>1, <2>6, <2>7, <1>0
    <3>3. CASE i < k
      BY <3>2, <3>3, <2>6, <1>0
    <3>4. CASE ~ (i < k)
      <4>1. i - (k - 1) \in 1..Len(s) - k /\ k + (i - (k - 1)) = i + 1
        BY <3>4, <1>0
      <4>2. u[i] = q[i - (k - 1)]
        BY <3>2, <3>4, <1>0
      <4> QED BY <4>1, <4>2, <3>4, <2>7
    <3> QED BY <3>3, <3>4
  <2> HIDE DEF u, p, q
  (* Where the element at a position of the shorter sequence was.          *)
  <2> DEFINE at(i) == IF i < k THEN i ELSE i + 1
  <2>10. \A i \in DOMAIN u : u[i] = s[at(i)] /\ at(i) \in DOMAIN s /\ at(i) # k
    BY <2>8, <2>9, <1>0
  <2>11. \A i, j \in DOMAIN u : at(i) = at(j) => i = j
    BY <2>8, <1>0
  <2>12. ASSUME NEW m \in DOMAIN s, m # k PROVE \E i \in DOMAIN u : at(i) = m
    <3>1. CASE m < k
      BY <3>1, <2>8, <1>0
    <3>2. CASE m > k
      <4>1. m - 1 \in DOMAIN u /\ at(m - 1) = m
        BY <3>2, <2>8, <1>0
      <4> QED BY <4>1
    <3> QED BY <3>1, <3>2, <2>12, <1>0
  <2> HIDE DEF at
  <2>13. \A i \in DOMAIN u : u[i] \in A \ {e}
    BY <2>1, <2>10, <1>0 DEF Lists
  <2>14. ASSUME NEW a \in A, a # e PROVE \E i \in DOMAIN u : u[i] = a
    <3>1. PICK m \in DOMAIN s : s[m] = a
      BY DEF Lists
    <3>2. PICK i \in DOMAIN u : at(i) = m
      BY <2>1, <2>12, <2>14, <3>1
    <3> QED BY <3>1, <3>2, <2>10
  <2>15. \A i, j \in DOMAIN u : u[i] = u[j] => i = j
    BY <2>10, <2>11 DEF Lists
  <2>16. Lists(u, A \ {e})
    BY <2>13, <2>14, <2>15 DEF Lists
  <2> QED BY <2>5, <2>8, <2>16 DEF u
<1> QED BY <1>1, <1>2

LEMMA ConcatLists ==
    ASSUME NEW S, NEW s \in Seq(S), NEW u \in Seq(S), NEW A, NEW B,
           Lists(s, A), Lists(u, B), A \cap B = {}
    PROVE  s \o u \in Seq(S) /\ Lists(s \o u, A \cup B)
<1> DEFINE w == s \o u
<1>1. w \in Seq(S) /\ Len(w) = Len(s) + Len(u) /\ Len(s) \in Nat /\ Len(u) \in Nat
  BY ConcatProperties
<1>2. /\ DOMAIN w = 1..Len(s) + Len(u)
      /\ DOMAIN s = 1..Len(s)
      /\ DOMAIN u = 1..Len(u)
  BY <1>1
<1>3. \A i \in DOMAIN s : i \in DOMAIN w /\ w[i] = s[i]
  BY <1>1, <1>2, ConcatProperties
<1>4. \A i \in DOMAIN u : Len(s) + i \in DOMAIN w /\ w[Len(s) + i] = u[i]
  <2> SUFFICES ASSUME NEW i \in DOMAIN u
               PROVE  Len(s) + i \in DOMAIN w /\ w[Len(s) + i] = u[i]
    OBVIOUS
  <2>1. Len(s) + i \in 1..Len(s) + Len(u) /\ ~ (Len(s) + i <= Len(s)) /\ (Len(s) + i) - Len(s) = i
    BY <1>1, <1>2
  <2>2. w[Len(s) + i] = IF Len(s) + i <= Len(s) THEN s[Len(s) + i] ELSE u[(Len(s) + i) - Len(s)]
    BY <2>1, ConcatProperties
  <2> QED BY <2>1, <2>2, <1>2
<1> HIDE DEF w
<1>5. ASSUME NEW i \in DOMAIN w
      PROVE  i \in DOMAIN s \/ \E m \in DOMAIN u : i = Len(s) + m
  <2>1. CASE i <= Len(s)
    BY <2>1, <1>1, <1>2
  <2>2. CASE ~ (i <= Len(s))
    <3>1. i - Len(s) \in DOMAIN u /\ i = Len(s) + (i - Len(s))
      BY <2>2, <1>1, <1>2
    <3> QED BY <3>1
  <2> QED BY <2>1, <2>2
<1>6. \A i \in DOMAIN w : w[i] \in A \cup B
  BY <1>3, <1>4, <1>5 DEF Lists
<1>7. \A a \in A \cup B : \E i \in DOMAIN w : w[i] = a
  <2>1. ASSUME NEW a \in A PROVE \E i \in DOMAIN w : w[i] = a
    BY <1>3 DEF Lists
  <2>2. ASSUME NEW a \in B PROVE \E i \in DOMAIN w : w[i] = a
    <3>1. PICK i \in DOMAIN u : u[i] = a
      BY DEF Lists
    <3> QED BY <3>1, <1>4
  <2> QED BY <2>1, <2>2
<1>8. ASSUME NEW i \in DOMAIN w, NEW j \in DOMAIN w, w[i] = w[j] PROVE i = j
  <2>1. CASE i \in DOMAIN s /\ j \in DOMAIN s
    BY <2>1, <1>3, <1>8 DEF Lists
  <2>2. ASSUME NEW m \in DOMAIN u, i = Len(s) + m, j \in DOMAIN s PROVE FALSE
    BY <2>2, <1>3, <1>4, <1>8 DEF Lists
  <2>3. ASSUME NEW m \in DOMAIN u, j = Len(s) + m, i \in DOMAIN s PROVE FALSE
    BY <2>3, <1>3, <1>4, <1>8 DEF Lists
  <2>4. ASSUME NEW m \in DOMAIN u, NEW n \in DOMAIN u, i = Len(s) + m, j = Len(s) + n
        PROVE  i = j
    BY <2>4, <1>4, <1>8 DEF Lists
  <2> QED BY <2>1, <2>2, <2>3, <2>4, <1>5
<1>9. Lists(w, A \cup B)
  BY <1>6, <1>7, <1>8 DEF Lists
<1> QED BY <1>1, <1>9 DEF w

(* The heap gives each timer of a finite set once.                         *)
LEMMA OrdersList ==
    ASSUME NEW S, NEW B \in SUBSET S, IsFiniteSet(B), NEW u \in SetToSeqs(B)
    PROVE  u \in Seq(S) /\ Lists(u, B)
<1>1. PICK n \in Nat : n = Cardinality(B)
  BY FS_CardinalityType
<1>2. u \in [1..n -> B] /\ \A i, j \in 1..n : i # j => u[i] # u[j]
  BY <1>1 DEF SetToSeqs
<1>3. u \in Injection(1..n, B)
  BY <1>2 DEF Injection, IsInjective
<1>4. IsFiniteSet(1..n) /\ Cardinality(1..n) = n
  <2>1. PICK m \in Int : m = 1
    OBVIOUS
  <2>2. IsFiniteSet(m..n) /\ Cardinality(m..n) = IF m > n THEN 0 ELSE n - m + 1
    BY FS_Interval
  <2> QED BY <2>1, <2>2
<1>5. u \in Surjection(1..n, B)
  BY <1>1, <1>3, <1>4, FS_Injection
<1>6. \A b \in B : \E i \in 1..n : u[i] = b
  BY <1>5 DEF Surjection
<1>7. u \in Seq(S) /\ DOMAIN u = 1..n
  BY <1>2
<1> QED BY <1>2, <1>6, <1>7 DEF Lists
-----------------------------------------------------------------------------
(* The invariant                                                           *)

LEMMA InitInv == Init => IInv
<1> SUFFICES ASSUME Init PROVE IInv
  OBVIOUS
<1>1. TypeOK
  <2>1. order \in Seq(Timer)
    BY EmptySeq DEF Init
  <2>2. /\ kind \in [Timer -> Kinds]
        /\ place \in [Timer -> {"none", "heap", "active", "out", "freed"}]
        /\ functor \in [Timer -> {"none", "alive", "deleted"}]
        /\ handles \in [Timer -> SUBSET {"own", "copy"}]
    BY DEF Init, Kinds
  <2>3. left \in [Timer -> Int] /\ period \in [Timer -> Int] /\ owed \in [Timer -> Int]
    BY DEF Init
  <2>5. backdated \in [Timer -> Nat] /\ lag \in Nat
    BY DEF Init
  <2>4. /\ loop \in {"fresh", "waiting", "busy", "left", "freed"}
        /\ gotterm \in BOOLEAN
        /\ running \in Timer \cup {None}
        /\ fault \in {"none", "event", "base", "functor"}
        /\ copied \subseteq Timer
        /\ cancelled \subseteq Timer
    BY DEF Init
  <2> QED BY <2>1, <2>2, <2>3, <2>4, <2>5 DEF TypeOK
<1>2. MadeInv
  <2>1. Made = {}
    BY DEF Init, Made
  <2>2. \A t \in Timer : kind[t] = "none" /\ place[t] = "none"
    BY DEF Init
  <2> QED BY <2>1, <2>2, FS_EmptySet DEF MadeInv
<1>3. QueueInv
  <2>1. Active = {} /\ order = <<>>
    BY DEF Init, Active
  <2> QED BY <2>1, EmptyLists DEF QueueInv
<1>4. FunctorInv /\ RunningInv /\ CancelledInv /\ HandleInv /\ OwedInv /\ NeverEarly /\ FaultCause
  BY DEF Init, FunctorInv, RunningInv, CancelledInv, HandleInv, OwedInv, NeverEarly, FaultCause, Pending
<1> QED BY <1>1, <1>2, <1>3, <1>4 DEF IInv

LEMMA MakeKeeps ==
    ASSUME IInv, NEW t \in Timer, NEW k \in {"once", "after", "every", "exit"}, NEW d \in Int,
           NEW immediate \in BOOLEAN, Make(t, k, d, immediate),
           k = "every" => d >= 0,
           immediate => (k = "once" /\ d = 0) \/ (k = "exit" /\ d % PerSecond = 0)
    PROVE  IInv'
<1>1. /\ kind[t] = "none" /\ place[t] = "none" /\ functor[t] = "none" /\ handles[t] = {}
      /\ fault = "none" /\ loop # "freed" /\ running # t /\ t \notin cancelled
  BY NoneAssumption DEF IInv, TypeOK, MadeInv, FunctorInv, HandleInv, RunningInv, CancelledInv, Make
<1>2. /\ kind' = [kind EXCEPT ![t] = k]
      /\ period' = [period EXCEPT ![t] = IF k \in {"every", "exit"} THEN d ELSE 0]
      /\ functor' = [functor EXCEPT ![t] = IF k = "exit" THEN "none" ELSE "alive"]
      /\ handles' = [handles EXCEPT ![t] = IF k \in {"after", "every"} THEN {"own"} ELSE {}]
      /\ owed' = [owed EXCEPT ![t] = d]
      /\ backdated' = [backdated EXCEPT ![t] = lag]
      /\ place' = [place EXCEPT ![t] = IF immediate THEN "active" ELSE "heap"]
      /\ order' = IF immediate THEN Append(order, t) ELSE order
      /\ left' = [left EXCEPT ![t] = IF immediate THEN 0 ELSE d - lag]
      /\ UNCHANGED <<base, running, fault, copied, cancelled>>
  BY DEF Make, Arm
<1>3. /\ \A u \in Timer : u # t =>
            /\ kind'[u] = kind[u] /\ period'[u] = period[u] /\ functor'[u] = functor[u]
            /\ handles'[u] = handles[u] /\ owed'[u] = owed[u] /\ place'[u] = place[u]
            /\ left'[u] = left[u] /\ backdated'[u] = backdated[u]
  BY <1>2 DEF IInv, TypeOK
<1>4. /\ kind'[t] = k
      /\ period'[t] = IF k \in {"every", "exit"} THEN d ELSE 0
      /\ functor'[t] = IF k = "exit" THEN "none" ELSE "alive"
      /\ handles'[t] = IF k \in {"after", "every"} THEN {"own"} ELSE {}
      /\ owed'[t] = d
      /\ backdated'[t] = lag
      /\ place'[t] = IF immediate THEN "active" ELSE "heap"
      /\ left'[t] = IF immediate THEN 0 ELSE d - lag
  BY <1>2 DEF IInv, TypeOK
<1>5. QueueInv' /\ order' \in Seq(Timer)
  <2>1. t \notin Active /\ order \in Seq(Timer) /\ Lists(order, Active)
    BY <1>1 DEF Active, IInv, QueueInv, TypeOK
  <2>2. CASE immediate
    <3>1. Active' = Active \cup {t}
      BY <1>3, <1>4, <2>2 DEF Active
    <3> QED BY <3>1, <2>1, <2>2, <1>2, AppendLists DEF QueueInv
  <2>3. CASE ~immediate
    <3>1. Active' = Active
      BY <1>1, <1>3, <1>4, <2>3 DEF Active
    <3> QED BY <3>1, <2>1, <2>3, <1>2 DEF QueueInv
  <2> QED BY <2>2, <2>3
<1>6. TypeOK'
  <2>1. kind' \in [Timer -> Kinds] /\ functor' \in [Timer -> {"none", "alive", "deleted"}]
    BY <1>2 DEF IInv, TypeOK, Kinds
  <2>2. handles' \in [Timer -> SUBSET {"own", "copy"}]
    BY <1>2 DEF IInv, TypeOK
  <2>3. place' \in [Timer -> {"none", "heap", "active", "out", "freed"}]
    BY <1>2 DEF IInv, TypeOK
  <2>4. d - lag \in Int
    BY DEF IInv, TypeOK
  <2>5. left' \in [Timer -> Int] /\ owed' \in [Timer -> Int] /\ period' \in [Timer -> Int]
    BY <1>2, <2>4 DEF IInv, TypeOK
  <2>6. backdated' \in [Timer -> Nat]
    BY <1>2 DEF IInv, TypeOK
  <2> QED BY <1>2, <1>5, <2>1, <2>2, <2>3, <2>5, <2>6 DEF IInv, TypeOK, base
<1>7. MadeInv'
  <2>1. Made' = Made \cup {t}
    BY <1>3, <1>4 DEF Made
  <2>2. IsFiniteSet(Made \cup {t})
    BY FS_AddElement DEF IInv, MadeInv
  <2>3. \A u \in Timer : kind'[u] = "none" => place'[u] = "none"
    BY <1>3, <1>4 DEF IInv, MadeInv
  <2>4. ASSUME NEW u \in Timer, kind'[u] = "every" PROVE period'[u] >= 0
    <3>1. CASE u = t
      BY <3>1, <2>4, <1>4
    <3>2. CASE u # t
      BY <3>2, <2>4, <1>3 DEF IInv, MadeInv
    <3> QED BY <3>1, <3>2
  <2> QED BY <2>1, <2>2, <2>3, <2>4 DEF MadeInv
<1>8. FunctorInv'
  <2>1. UNCHANGED <<cancelled, loop, running>>
    BY <1>2 DEF base
  <2> SUFFICES ASSUME NEW u \in Timer
               PROVE  /\ functor'[u] = "deleted" => ~Pending(u)' /\ kind'[u] # "none"
                      /\ kind'[u] \in {"none", "exit"} => functor'[u] = "none"
                      /\ kind'[u] = "every" /\ ~Pending(u)' =>
                            u \in cancelled \/ loop = "freed" \/ period'[u] = 0
                      /\ functor'[u] = "alive" /\ ~Pending(u)' /\ running # u =>
                            u \in cancelled \/ loop = "freed" \/ (kind'[u] = "every" /\ period'[u] = 0)
    BY <2>1 DEF FunctorInv
  <2>2. CASE u = t
    BY <2>2, <1>4 DEF Pending
  <2>3. CASE u # t
    BY <2>3, <1>3 DEF IInv, FunctorInv, Pending
  <2> QED BY <2>2, <2>3
<1>9. RunningInv' /\ CancelledInv' /\ FaultCause'
  <2>1. UNCHANGED <<cancelled, loop, running, fault>>
    BY <1>2 DEF base
  <2>2. running # None => running \in Timer /\ running # t
    BY <1>1 DEF IInv, TypeOK
  <2>3. RunningInv'
    BY <2>1, <2>2, <1>3 DEF IInv, RunningInv, Pending
  <2>4. CancelledInv'
    BY <2>1, <1>1, <1>3 DEF IInv, TypeOK, CancelledInv
  <2> QED BY <2>1, <2>3, <2>4, <1>1 DEF FaultCause
<1>10. HandleInv'
  BY <1>2, <1>3, <1>4 DEF IInv, HandleInv
<1>11. OwedInv'
  <2> SUFFICES ASSUME NEW u \in Timer, Pending(u)'
               PROVE  owed'[u] <= left'[u] + backdated'[u] \/ (kind'[u] = "exit" /\ period'[u] % PerSecond = 0)
    BY DEF OwedInv
  <2>1. CASE u # t
    BY <2>1, <1>3 DEF IInv, OwedInv, Pending
  <2>2. CASE u = t
    <3>1. lag \in Nat
      BY DEF IInv, TypeOK
    <3>2. CASE ~immediate
      BY <3>1, <3>2, <2>2, <1>4
    <3>3. CASE immediate /\ k = "once" /\ d = 0
      BY <3>1, <3>3, <2>2, <1>4
    <3>4. CASE immediate /\ k = "exit" /\ d % PerSecond = 0
      BY <3>4, <2>2, <1>4
    <3> QED BY <3>2, <3>3, <3>4
  <2> QED BY <2>1, <2>2
<1>12. NeverEarly'
  <2> SUFFICES ASSUME NEW u \in Timer, place'[u] = "active"
               PROVE  owed'[u] <= backdated'[u] \/ (kind'[u] = "exit" /\ period'[u] % PerSecond = 0)
    BY DEF NeverEarly
  <2>1. CASE u # t
    BY <2>1, <1>3 DEF IInv, NeverEarly
  <2>2. CASE u = t
    <3>1. lag \in Nat
      BY DEF IInv, TypeOK
    <3>2. CASE ~immediate
      BY <3>2, <2>2, <1>4
    <3>3. CASE immediate /\ k = "once" /\ d = 0
      BY <3>1, <3>3, <2>2, <1>4
    <3>4. CASE immediate /\ k = "exit" /\ d % PerSecond = 0
      BY <3>4, <2>2, <1>4
    <3> QED BY <3>2, <3>3, <3>4
  <2> QED BY <2>1, <2>2
<1> QED BY <1>5, <1>6, <1>7, <1>8, <1>9, <1>10, <1>11, <1>12 DEF IInv

LEMMA CopyTimerIdKeeps == ASSUME IInv, NEW t \in Timer, CopyTimerId(t) PROVE IInv'
<1>1. /\ handles' = [handles EXCEPT ![t] = {"own", "copy"}] /\ handles[t] = {"own"}
      /\ copied' = copied \cup {t}
      /\ fault = "none"
      /\ UNCHANGED <<loop, gotterm, lag, order, running, kind, left, period, functor, owed, backdated, place, fault,
                     cancelled>>
  BY DEF CopyTimerId, base, events
<1>2. TypeOK'
  BY <1>1 DEF IInv, TypeOK
<1>3. HandleInv'
  <2> SUFFICES ASSUME NEW u \in Timer
               PROVE  /\ handles'[u] # {} => kind[u] \in {"after", "every"}
                      /\ "copy" \in handles'[u] => u \in copied'
                      /\ place[u] = "freed" /\ handles'[u] # {} => u \in copied'
    BY <1>1 DEF HandleInv
  <2>1. CASE u = t
    BY <2>1, <1>1 DEF IInv, HandleInv
  <2>2. CASE u # t
    <3>1. handles'[u] = handles[u]
      BY <2>2, <1>1 DEF IInv, TypeOK
    <3> QED BY <3>1, <1>1 DEF IInv, HandleInv
  <2> QED BY <2>1, <2>2
<1>4. MadeInv' /\ QueueInv'
  BY <1>1 DEF IInv, MadeInv, Made, QueueInv, Active
<1>5. FunctorInv' /\ RunningInv' /\ CancelledInv'
  BY <1>1 DEF IInv, FunctorInv, RunningInv, CancelledInv, Pending
<1>6. OwedInv' /\ NeverEarly'
  BY <1>1 DEF IInv, OwedInv, NeverEarly, Pending
<1>7. FaultCause'
  BY <1>1 DEF FaultCause
<1> QED BY <1>2, <1>3, <1>4, <1>5, <1>6, <1>7 DEF IInv

(* TimerId::cancel() and cancle() differ in what becomes of the TimerIds:  *)
(* the one loses its own, the other leaves a copy.                         *)
LEMMA CancelKeeps ==
    ASSUME IInv, NEW t \in Timer, fault = "none", handles[t] # {}, CancelEvent(t),
           \/ /\ \E h \in handles[t] : handles' = [handles EXCEPT ![t] = @ \ {h}]
              /\ copied' = copied
           \/ /\ handles' = handles
              /\ copied' = copied \cup {t},
           UNCHANGED <<base, running, kind, period, functor>>
    PROVE  IInv'
<1>1. /\ handles' \in [Timer -> SUBSET {"own", "copy"}]
      /\ copied' \subseteq Timer
      /\ copied \subseteq copied'
      /\ \A u \in Timer : handles'[u] \subseteq handles[u]
      /\ t \notin copied' => "copy" \notin handles[t] /\ handles'[t] = {}
  <2>1. handles[t] \subseteq {"own", "copy"} /\ ("copy" \in handles[t] => t \in copied)
    BY DEF IInv, TypeOK, HandleInv
  <2>2. CASE handles' = handles /\ copied' = copied \cup {t}
    BY <2>1, <2>2 DEF IInv, TypeOK
  <2>3. ASSUME NEW h \in handles[t], handles' = [handles EXCEPT ![t] = @ \ {h}], copied' = copied
        PROVE  /\ handles' \in [Timer -> SUBSET {"own", "copy"}]
               /\ copied' \subseteq Timer
               /\ copied \subseteq copied'
               /\ \A u \in Timer : handles'[u] \subseteq handles[u]
               /\ t \notin copied' => "copy" \notin handles[t] /\ handles'[t] = {}
    <3>1. handles'[t] = handles[t] \ {h} /\ \A u \in Timer : u # t => handles'[u] = handles[u]
      BY <2>3 DEF IInv, TypeOK
    <3>2. handles' \in [Timer -> SUBSET {"own", "copy"}]
      BY <2>1, <2>3 DEF IInv, TypeOK
    <3>3. t \notin copied => h = "own" /\ handles[t] = {"own"}
      BY <2>1
    <3>4. t \notin copied => handles'[t] = {}
      BY <3>1, <3>3
    <3>5. copied \subseteq Timer
      BY DEF IInv, TypeOK
    <3> QED BY <2>1, <2>3, <3>1, <3>2, <3>4, <3>5
  <2> QED BY <2>2, <2>3
<1>2. HandleInv' <=> \A u \in Timer :
            place'[u] = "freed" /\ handles'[u] # {} => u \in copied'
  <2>1. \A u \in Timer : /\ handles'[u] # {} => kind'[u] \in {"after", "every"}
                         /\ "copy" \in handles'[u] => u \in copied'
    BY <1>1 DEF IInv, HandleInv
  <2> QED BY <2>1 DEF HandleInv
<1>3. CASE /\ fault' \in {"event", "base"}
           /\ fault' = "event" => place[t] = "freed"
           /\ fault' = "base" => loop = "freed"
           /\ UNCHANGED <<place, order, left, owed, backdated, cancelled>>
  <2>1. TypeOK'
    BY <1>1, <1>3 DEF IInv, TypeOK, base
  <2>2. HandleInv'
    BY <1>1, <1>2, <1>3 DEF IInv, HandleInv
  <2>3. MadeInv' /\ QueueInv'
    BY <1>3 DEF IInv, MadeInv, Made, QueueInv, Active
  <2>4. FunctorInv' /\ RunningInv' /\ CancelledInv'
    BY <1>3 DEF IInv, FunctorInv, RunningInv, CancelledInv, Pending, base
  <2>5. OwedInv' /\ NeverEarly'
    BY <1>3 DEF IInv, OwedInv, NeverEarly, Pending
  <2>6. FaultCause'
    <3>1. place[t] = "freed" => t \in copied
      BY DEF IInv, HandleInv
    <3> QED BY <3>1, <1>1, <1>3 DEF FaultCause, base
  <2> QED BY <2>1, <2>2, <2>3, <2>4, <2>5, <2>6 DEF IInv
<1>4. CASE /\ place[t] # "freed" /\ loop # "freed"
           /\ Deleted(t)
           /\ cancelled' = cancelled \cup {t}
           /\ UNCHANGED fault
  <2>1. /\ place' = [place EXCEPT ![t] = "freed"]
        /\ order' = RemoveFirst(order, t)
        /\ left' = [left EXCEPT ![t] = 0]
        /\ owed' = [owed EXCEPT ![t] = 0]
        /\ backdated' = [backdated EXCEPT ![t] = 0]
    BY <1>4 DEF Deleted, Settled
  <2>2. /\ place'[t] = "freed"
        /\ \A u \in Timer : u # t => /\ place'[u] = place[u] /\ left'[u] = left[u]
                                     /\ owed'[u] = owed[u] /\ backdated'[u] = backdated[u]
    BY <2>1 DEF IInv, TypeOK
  <2>3. QueueInv' /\ order' \in Seq(Timer)
    <3>1. Active' = Active \ {t}
      BY <2>2 DEF Active
    <3>2. order \in Seq(Timer) /\ Lists(order, Active)
      BY DEF IInv, TypeOK, QueueInv
    <3>3. RemoveFirst(order, t) \in Seq(Timer) /\ Lists(RemoveFirst(order, t), Active \ {t})
      BY <3>2, RemoveLists
    <3> QED BY <3>1, <3>3, <2>1 DEF QueueInv
  <2>4. TypeOK'
    <3>1. place' \in [Timer -> {"none", "heap", "active", "out", "freed"}]
      BY <2>1 DEF IInv, TypeOK
    <3>2. left' \in [Timer -> Int] /\ owed' \in [Timer -> Int] /\ backdated' \in [Timer -> Nat]
      BY <2>1 DEF IInv, TypeOK
    <3> QED BY <3>1, <3>2, <2>3, <1>1, <1>4 DEF IInv, TypeOK, base
  <2>5. kind[t] \in {"after", "every"} /\ kind' = kind /\ running' = running /\ loop' = loop
    BY DEF IInv, HandleInv, base
  <2>6. HandleInv'
    BY <1>1, <1>2, <2>2 DEF IInv, HandleInv
  <2>7. MadeInv'
    BY <2>2, <2>5 DEF IInv, MadeInv, Made
  <2>8. FunctorInv'
    <3> SUFFICES ASSUME NEW u \in Timer
                 PROVE  /\ functor[u] = "deleted" => ~Pending(u)' /\ kind[u] # "none"
                        /\ kind[u] \in {"none", "exit"} => functor[u] = "none"
                        /\ kind[u] = "every" /\ ~Pending(u)' =>
                              u \in cancelled' \/ loop = "freed" \/ period[u] = 0
                        /\ functor[u] = "alive" /\ ~Pending(u)' /\ running # u =>
                              u \in cancelled' \/ loop = "freed" \/ (kind[u] = "every" /\ period[u] = 0)
      BY <2>5 DEF FunctorInv
    <3>1. CASE u = t
      BY <3>1, <1>4, <2>2 DEF IInv, FunctorInv, Pending
    <3>2. CASE u # t
      BY <3>2, <1>4, <2>2 DEF IInv, FunctorInv, Pending
    <3> QED BY <3>1, <3>2
  <2>9. RunningInv'
    BY <2>2, <2>5 DEF IInv, TypeOK, RunningInv, Pending
  <2>10. CancelledInv'
    BY <2>2, <1>4 DEF IInv, TypeOK, CancelledInv
  <2>11. OwedInv'
    BY <2>2, <2>5 DEF IInv, OwedInv, Pending
  <2>12. NeverEarly'
    BY <2>2, <2>5 DEF IInv, NeverEarly
  <2>13. FaultCause'
    BY <1>4 DEF FaultCause
  <2> QED BY <2>3, <2>4, <2>6, <2>7, <2>8, <2>9, <2>10, <2>11, <2>12, <2>13 DEF IInv
<1> QED BY <1>3, <1>4 DEF CancelEvent

LEMMA TickKeeps == ASSUME IInv, Tick PROVE IInv'
<1>1. /\ fault = "none"
      /\ UNCHANGED <<loop, gotterm, order, running, kind, place, period, functor, handles,
                     backdated, fault, copied, cancelled>>
  BY DEF Tick
<1>2. lag' \in Nat
  BY DEF Tick, IInv, TypeOK
<1>3. MaxLate \in Nat
  BY BoundsAssumption
<1>4. \A m \in Int : Passed(m) \in Int /\ Passed(m) <= m
  BY <1>3 DEF Passed
<1>5. \A m, n \in Int, b \in Nat : m <= n + b => Passed(m) <= Passed(n) + b
  BY <1>3 DEF Passed
<1>6. \A t \in Timer : left[t] \in Int /\ owed[t] \in Int /\ backdated[t] \in Nat
  BY DEF IInv, TypeOK
<1>7. \A t \in Timer : Pending(t) => left'[t] = Passed(left[t]) /\ owed'[t] = Passed(owed[t])
  BY DEF Tick, Pending
<1>8. left' \in [Timer -> Int] /\ owed' \in [Timer -> Int]
  BY <1>4, <1>6 DEF Tick
<1>9. TypeOK'
  BY <1>1, <1>2, <1>8 DEF IInv, TypeOK
<1>10. MadeInv' /\ QueueInv'
  BY <1>1 DEF IInv, MadeInv, Made, QueueInv, Active
<1>11. FunctorInv' /\ RunningInv' /\ CancelledInv' /\ HandleInv'
  BY <1>1 DEF IInv, FunctorInv, RunningInv, CancelledInv, HandleInv, Pending
<1>12. OwedInv'
  <2> SUFFICES ASSUME NEW t \in Timer, Pending(t), ~(kind[t] = "exit" /\ period[t] % PerSecond = 0)
               PROVE  owed'[t] <= left'[t] + backdated[t]
    BY <1>1 DEF OwedInv, Pending
  <2>1. owed[t] <= left[t] + backdated[t]
    BY DEF IInv, OwedInv
  <2> QED BY <2>1, <1>5, <1>6, <1>7
<1>13. NeverEarly'
  <2> SUFFICES ASSUME NEW t \in Timer, place[t] = "active", ~(kind[t] = "exit" /\ period[t] % PerSecond = 0)
               PROVE  owed'[t] <= backdated[t]
    BY <1>1 DEF NeverEarly
  <2>1. owed[t] <= backdated[t]
    BY DEF IInv, NeverEarly
  <2>2. Passed(owed[t]) <= owed[t] /\ Passed(owed[t]) \in Int /\ owed[t] \in Int
    BY <1>4, <1>6
  <2>3. owed'[t] = Passed(owed[t])
    BY <1>7 DEF Pending
  <2> QED BY <2>1, <2>2, <2>3, <1>6
<1>14. FaultCause'
  BY <1>1 DEF FaultCause
<1> QED BY <1>9, <1>10, <1>11, <1>12, <1>13, <1>14 DEF IInv

(* loop() is entered, or goes on to wait or to return.                     *)
LEMMA LoopKeeps == ASSUME IInv, Loop \/ EndIteration PROVE IInv'
<1>1. /\ fault = "none" /\ loop # "freed" /\ loop' \in {"waiting", "left"}
      /\ lag' \in Nat
      /\ UNCHANGED <<gotterm, order, running, kind, left, period, functor, owed, backdated, place, handles,
                     fault, copied, cancelled>>
  <2>1. CASE Loop
    BY <2>1 DEF Loop, events, IInv, TypeOK
  <2>2. CASE EndIteration
    BY <2>2 DEF EndIteration, events, IInv, TypeOK
  <2> QED BY <2>1, <2>2
<1>2. TypeOK'
  BY <1>1 DEF IInv, TypeOK
<1>3. MadeInv' /\ QueueInv'
  BY <1>1 DEF IInv, MadeInv, Made, QueueInv, Active
<1>4. FunctorInv' /\ RunningInv' /\ CancelledInv' /\ HandleInv'
  BY <1>1 DEF IInv, FunctorInv, RunningInv, CancelledInv, HandleInv, Pending
<1>5. OwedInv' /\ NeverEarly'
  BY <1>1 DEF IInv, OwedInv, NeverEarly, Pending
<1>6. FaultCause'
  BY <1>1 DEF FaultCause
<1> QED BY <1>2, <1>3, <1>4, <1>5, <1>6 DEF IInv

LEMMA WakeKeeps == ASSUME IInv, Wake PROVE IInv'
<1>1. /\ fault = "none" /\ loop = "waiting" /\ loop' = "busy"
      /\ place' = [t \in Timer |-> IF t \in Due THEN "active" ELSE place[t]]
      /\ UNCHANGED <<gotterm, lag, running, kind, left, period, functor, owed, backdated, handles,
                     fault, copied, cancelled>>
  BY DEF Wake, events
<1>2. PICK s \in ByTime(Due) : order' = order \o s
  BY DEF Wake
<1>3. \A t \in Timer : /\ t \in Due => place[t] = "heap" /\ left[t] <= 0 /\ place'[t] = "active"
                       /\ t \notin Due => place'[t] = place[t]
  BY <1>1 DEF Due
<1>4. \A t \in Timer : Pending(t)' <=> Pending(t)
  BY <1>3 DEF Pending
<1>5. QueueInv' /\ order' \in Seq(Timer)
  <2>1. Due \subseteq Made
    BY DEF Due, Made, IInv, MadeInv
  <2>2. IsFiniteSet(Due)
    BY <2>1, FS_Subset DEF IInv, MadeInv
  <2>3. s \in SetToSeqs(Due) /\ Due \subseteq Timer
    BY <1>2 DEF ByTime, Due
  <2>4. s \in Seq(Timer) /\ Lists(s, Due)
    BY <2>2, <2>3, OrdersList
  <2>5. order \in Seq(Timer) /\ Lists(order, Active) /\ Active \cap Due = {}
    BY DEF IInv, TypeOK, QueueInv, Active, Due
  <2>6. order \o s \in Seq(Timer) /\ Lists(order \o s, Active \cup Due)
    BY <2>4, <2>5, ConcatLists
  <2>7. Active' = Active \cup Due
    BY <1>3 DEF Active, Due
  <2> QED BY <1>2, <2>6, <2>7 DEF QueueInv
<1>6. TypeOK'
  <2>1. place' \in [Timer -> {"none", "heap", "active", "out", "freed"}]
    BY <1>1 DEF IInv, TypeOK
  <2> QED BY <1>1, <1>5, <2>1 DEF IInv, TypeOK
<1>7. MadeInv'
  BY <1>1, <1>3 DEF IInv, MadeInv, Made
<1>8. FunctorInv' /\ RunningInv'
  BY <1>1, <1>4 DEF IInv, TypeOK, FunctorInv, RunningInv
<1>9. CancelledInv' /\ HandleInv'
  BY <1>1, <1>3 DEF IInv, TypeOK, CancelledInv, HandleInv
<1>10. OwedInv'
  BY <1>1, <1>4 DEF IInv, OwedInv
<1>11. NeverEarly'
  <2> SUFFICES ASSUME NEW t \in Timer, place'[t] = "active"
               PROVE  owed[t] <= backdated[t] \/ (kind[t] = "exit" /\ period[t] % PerSecond = 0)
    BY <1>1 DEF NeverEarly
  <2>1. CASE t \notin Due
    BY <2>1, <1>3 DEF IInv, NeverEarly
  <2>2. CASE t \in Due
    <3>1. left[t] <= 0 /\ left[t] \in Int /\ owed[t] \in Int /\ backdated[t] \in Nat
      BY <2>2, <1>3 DEF IInv, TypeOK
    <3>2. owed[t] <= left[t] + backdated[t] => owed[t] <= backdated[t]
      BY <3>1
    <3> QED BY <3>2, <2>2, <1>3 DEF IInv, OwedInv, Pending
  <2> QED BY <2>1, <2>2
<1>12. FaultCause'
  BY <1>1 DEF FaultCause
<1> QED BY <1>5, <1>6, <1>7, <1>8, <1>9, <1>10, <1>11, <1>12 DEF IInv

(* The timer at the head of the queue, which Begin takes out of it.        *)
LEMMA HeadFacts ==
    ASSUME IInv, order # <<>>, NEW t, t = Head(order)
    PROVE  /\ t \in Timer /\ place[t] = "active" /\ t \notin cancelled
           /\ Tail(order) \in Seq(Timer)
           /\ Lists(Tail(order), Active \ {t})
<1>1. order \in Seq(Timer) /\ Lists(order, Active)
  BY DEF IInv, TypeOK, QueueInv
<1>2. Head(order) \in Active /\ Tail(order) \in Seq(Timer) /\ Lists(Tail(order), Active \ {Head(order)})
  BY <1>1, TailLists
<1> QED BY <1>2 DEF Active, IInv, CancelledInv

LEMMA BeginKeeps == ASSUME IInv, Begin PROVE IInv'
<1>1. PICK t : t = Head(order)
  OBVIOUS
<1>2. /\ t \in Timer /\ place[t] = "active" /\ t \notin cancelled
      /\ Tail(order) \in Seq(Timer)
      /\ Lists(Tail(order), Active \ {t})
  BY <1>1, HeadFacts DEF Begin
<1>3. /\ fault = "none" /\ loop = "busy" /\ running = None
      /\ order' = Tail(order)
      /\ UNCHANGED <<loop, lag, kind, period, functor, handles, copied, cancelled>>
  BY DEF Begin
<1>4. functor[t] # "deleted"
  BY <1>2 DEF IInv, FunctorInv, Pending
<1>5. fault' = "none"
  BY <1>1, <1>3, <1>4 DEF Begin
<1>6. gotterm' \in BOOLEAN
  BY DEF Begin, IInv, TypeOK
<1>7. ASSUME NEW p \in {"heap", "out", "freed"}, place' = [place EXCEPT ![t] = p]
      PROVE  /\ QueueInv' /\ order' \in Seq(Timer)
             /\ place' \in [Timer -> {"none", "heap", "active", "out", "freed"}]
             /\ place'[t] = p
             /\ \A u \in Timer : u # t => place'[u] = place[u]
             /\ MadeInv'
             /\ CancelledInv'
  <2>1. /\ place'[t] = p
        /\ \A u \in Timer : u # t => place'[u] = place[u]
        /\ place' \in [Timer -> {"none", "heap", "active", "out", "freed"}]
    BY <1>2, <1>7 DEF IInv, TypeOK
  <2>2. Active' = Active \ {t}
    BY <2>1 DEF Active
  <2>3. MadeInv'
    BY <1>2, <1>3, <2>1 DEF IInv, MadeInv, Made
  <2>4. CancelledInv'
    BY <1>2, <1>3, <2>1 DEF IInv, TypeOK, CancelledInv
  <2> QED BY <1>2, <1>3, <2>1, <2>2, <2>3, <2>4 DEF QueueInv
<1>8. CASE kind[t] = "exit"
  <2>1. /\ place' = [place EXCEPT ![t] = "freed"]
        /\ left' = [left EXCEPT ![t] = 0]
        /\ owed' = [owed EXCEPT ![t] = 0]
        /\ backdated' = [backdated EXCEPT ![t] = 0]
        /\ UNCHANGED running
    BY <1>1, <1>8 DEF Begin, Settled
  <2>2. /\ QueueInv' /\ order' \in Seq(Timer)
        /\ place' \in [Timer -> {"none", "heap", "active", "out", "freed"}]
        /\ place'[t] = "freed"
        /\ \A u \in Timer : u # t => place'[u] = place[u]
        /\ MadeInv'
        /\ CancelledInv'
    BY <2>1, <1>7
  <2>3. left' \in [Timer -> Int] /\ owed' \in [Timer -> Int] /\ backdated' \in [Timer -> Nat]
    <3>1. left \in [Timer -> Int] /\ owed \in [Timer -> Int] /\ backdated \in [Timer -> Nat]
      BY DEF IInv, TypeOK
    <3> QED BY <1>2, <2>1, <3>1
  <2>4. \A u \in Timer : u # t => left'[u] = left[u] /\ owed'[u] = owed[u] /\ backdated'[u] = backdated[u]
    BY <2>1 DEF IInv, TypeOK
  <2>5. TypeOK'
    BY <1>3, <1>5, <1>6, <2>1, <2>2, <2>3 DEF IInv, TypeOK
  <2>6. FunctorInv'
    BY <1>3, <1>8, <2>1, <2>2 DEF IInv, FunctorInv, Pending
  <2>7. RunningInv' /\ FaultCause'
    BY <1>3, <1>5, <2>1 DEF RunningInv, FaultCause
  <2>8. HandleInv'
    BY <1>3, <1>8, <2>2 DEF IInv, HandleInv
  <2>9. OwedInv'
    BY <1>3, <2>2, <2>4 DEF IInv, OwedInv, Pending
  <2>10. NeverEarly'
    BY <1>3, <2>2, <2>4 DEF IInv, NeverEarly
  <2> QED BY <2>2, <2>5, <2>6, <2>7, <2>8, <2>9, <2>10 DEF IInv
<1>9. CASE kind[t] = "every" /\ period[t] > 0
  <2>1. /\ place' = [place EXCEPT ![t] = "heap"]
        /\ left' = [left EXCEPT ![t] = Rearmed(t)]
        /\ owed' = [owed EXCEPT ![t] = @ + period[t]]
        /\ UNCHANGED backdated
        /\ running' = t
    BY <1>1, <1>9 DEF Begin
  <2>2. /\ QueueInv' /\ order' \in Seq(Timer)
        /\ place' \in [Timer -> {"none", "heap", "active", "out", "freed"}]
        /\ place'[t] = "heap"
        /\ \A u \in Timer : u # t => place'[u] = place[u]
        /\ MadeInv'
        /\ CancelledInv'
    BY <2>1, <1>7
  <2>3. left[t] \in Int /\ owed[t] \in Int /\ period[t] \in Int /\ lag \in Int /\ backdated[t] \in Int
    BY <1>2 DEF IInv, TypeOK
  <2>4. owed[t] <= left[t] + backdated[t]
    BY <1>2, <1>9 DEF IInv, OwedInv, Pending
  <2>5. period[t] > 0
    BY <1>9
  <2>6. Rearmed(t) \in Int /\ owed[t] + period[t] \in Int /\ owed[t] + period[t] <= Rearmed(t) + backdated[t]
    BY <2>3, <2>4, <2>5 DEF Rearmed
  <2>7. /\ left'[t] = Rearmed(t) /\ owed'[t] = owed[t] + period[t]
        /\ \A u \in Timer : u # t => left'[u] = left[u] /\ owed'[u] = owed[u]
        /\ left' \in [Timer -> Int] /\ owed' \in [Timer -> Int]
    BY <1>2, <2>1, <2>6 DEF IInv, TypeOK
  <2>8. TypeOK'
    BY <1>2, <1>3, <1>5, <1>6, <2>1, <2>2, <2>7 DEF IInv, TypeOK
  <2>9. FunctorInv'
    <3> SUFFICES ASSUME NEW u \in Timer
                 PROVE  /\ functor[u] = "deleted" => ~Pending(u)' /\ kind[u] # "none"
                        /\ kind[u] \in {"none", "exit"} => functor[u] = "none"
                        /\ kind[u] = "every" /\ ~Pending(u)' =>
                              u \in cancelled \/ loop = "freed" \/ period[u] = 0
                        /\ functor[u] = "alive" /\ ~Pending(u)' /\ t # u =>
                              u \in cancelled \/ loop = "freed" \/ (kind[u] = "every" /\ period[u] = 0)
      BY <1>3, <2>1 DEF FunctorInv
    <3>1. CASE u = t
      BY <3>1, <1>4, <1>9, <2>2 DEF IInv, FunctorInv, Pending
    <3>2. CASE u # t
      BY <3>2, <1>3, <2>2, NoneAssumption DEF IInv, FunctorInv, Pending
    <3> QED BY <3>1, <3>2
  <2>10. RunningInv' /\ FaultCause'
    BY <1>3, <1>5, <1>9, <2>1 DEF RunningInv, FaultCause
  <2>11. HandleInv'
    BY <1>3, <2>2 DEF IInv, HandleInv
  <2>12. OwedInv'
    <3> SUFFICES ASSUME NEW u \in Timer, Pending(u)'
                 PROVE  owed'[u] <= left'[u] + backdated[u] \/ (kind[u] = "exit" /\ period[u] % PerSecond = 0)
      BY <1>3, <2>1 DEF OwedInv
    <3>1. CASE u = t
      BY <3>1, <2>6, <2>7
    <3>2. CASE u # t
      BY <3>2, <2>2, <2>7 DEF IInv, OwedInv, Pending
    <3> QED BY <3>1, <3>2
  <2>13. NeverEarly'
    BY <1>3, <2>1, <2>2, <2>7 DEF IInv, NeverEarly
  <2> QED BY <2>2, <2>8, <2>9, <2>10, <2>11, <2>12, <2>13 DEF IInv
<1>10. CASE kind[t] # "exit" /\ ~(kind[t] = "every" /\ period[t] > 0)
  <2>1. /\ place' = [place EXCEPT ![t] = "out"]
        /\ left' = [left EXCEPT ![t] = 0]
        /\ owed' = [owed EXCEPT ![t] = 0]
        /\ backdated' = [backdated EXCEPT ![t] = 0]
        /\ running' = t
    BY <1>1, <1>10 DEF Begin, Settled
  <2>2. /\ QueueInv' /\ order' \in Seq(Timer)
        /\ place' \in [Timer -> {"none", "heap", "active", "out", "freed"}]
        /\ place'[t] = "out"
        /\ \A u \in Timer : u # t => place'[u] = place[u]
        /\ MadeInv'
        /\ CancelledInv'
    BY <2>1, <1>7
  <2>3. left' \in [Timer -> Int] /\ owed' \in [Timer -> Int] /\ backdated' \in [Timer -> Nat]
    <3>1. left \in [Timer -> Int] /\ owed \in [Timer -> Int] /\ backdated \in [Timer -> Nat]
      BY DEF IInv, TypeOK
    <3> QED BY <1>2, <2>1, <3>1
  <2>4. \A u \in Timer : u # t => left'[u] = left[u] /\ owed'[u] = owed[u] /\ backdated'[u] = backdated[u]
    BY <2>1 DEF IInv, TypeOK
  <2>5. TypeOK'
    BY <1>2, <1>3, <1>5, <1>6, <2>1, <2>2, <2>3 DEF IInv, TypeOK
  <2>6. kind[t] = "every" => period[t] = 0
    <3>1. period[t] \in Int /\ (kind[t] = "every" => period[t] >= 0)
      BY <1>2 DEF IInv, TypeOK, MadeInv
    <3> QED BY <3>1, <1>10
  <2>7. kind[t] \in {"once", "after", "every"}
    BY <1>2, <1>10 DEF IInv, TypeOK, Kinds, MadeInv
  <2>8. FunctorInv'
    <3> SUFFICES ASSUME NEW u \in Timer
                 PROVE  /\ functor[u] = "deleted" => ~Pending(u)' /\ kind[u] # "none"
                        /\ kind[u] \in {"none", "exit"} => functor[u] = "none"
                        /\ kind[u] = "every" /\ ~Pending(u)' =>
                              u \in cancelled \/ loop = "freed" \/ period[u] = 0
                        /\ functor[u] = "alive" /\ ~Pending(u)' /\ t # u =>
                              u \in cancelled \/ loop = "freed" \/ (kind[u] = "every" /\ period[u] = 0)
      BY <1>3, <2>1 DEF FunctorInv
    <3>1. CASE u = t
      BY <3>1, <1>4, <2>2, <2>6, <2>7 DEF IInv, FunctorInv, Pending
    <3>2. CASE u # t
      BY <3>2, <1>3, <2>2, NoneAssumption DEF IInv, FunctorInv, Pending
    <3> QED BY <3>1, <3>2
  <2>9. RunningInv' /\ FaultCause'
    BY <1>2, <1>3, <1>5, <2>1, <2>2, <2>7 DEF RunningInv, FaultCause, Pending
  <2>10. HandleInv'
    BY <1>3, <2>2 DEF IInv, HandleInv
  <2>11. OwedInv'
    BY <1>3, <2>2, <2>4 DEF IInv, OwedInv, Pending
  <2>12. NeverEarly'
    BY <1>3, <2>2, <2>4 DEF IInv, NeverEarly
  <2> QED BY <2>2, <2>5, <2>8, <2>9, <2>10, <2>11, <2>12 DEF IInv
<1> QED BY <1>8, <1>9, <1>10

LEMMA ReturnKeeps == ASSUME IInv, Return PROVE IInv'
<1>1. PICK t : t = running
  OBVIOUS
<1>2. /\ t \in Timer /\ running = t /\ running # None /\ fault = "none" /\ running' = None
      /\ functor' = Executed(t)
      /\ place' = IF kind[t] = "once" THEN [place EXCEPT ![t] = "freed"] ELSE place
      /\ UNCHANGED <<loop, gotterm, lag, order, kind, left, period, owed, backdated, handles, fault, copied, cancelled>>
  BY <1>1 DEF Return, base, IInv, TypeOK
<1>3. /\ kind[t] \in {"once", "after", "every"}
      /\ kind[t] # "every" => ~Pending(t)
  BY <1>2 DEF IInv, RunningInv
<1>4. /\ \A u \in Timer : u # t => functor'[u] = functor[u] /\ place'[u] = place[u]
      /\ functor'[t] = IF kind[t] = "every" THEN functor[t] ELSE "deleted"
      /\ place'[t] = IF kind[t] = "once" THEN "freed" ELSE place[t]
      /\ functor' \in [Timer -> {"none", "alive", "deleted"}]
      /\ place' \in [Timer -> {"none", "heap", "active", "out", "freed"}]
  BY <1>2 DEF IInv, TypeOK, Executed, Persists
<1>5. \A u \in Timer : Pending(u)' <=> Pending(u)
  BY <1>3, <1>4 DEF Pending
<1>6. TypeOK'
  BY <1>2, <1>4 DEF IInv, TypeOK
<1>7. MadeInv' /\ QueueInv'
  <2>1. Active' = Active
    BY <1>3, <1>4 DEF Active, Pending
  <2> QED BY <2>1, <1>2, <1>3, <1>4 DEF IInv, MadeInv, Made, QueueInv
<1>8. FunctorInv'
  <2> SUFFICES ASSUME NEW u \in Timer
               PROVE  /\ functor'[u] = "deleted" => ~Pending(u) /\ kind[u] # "none"
                      /\ kind[u] \in {"none", "exit"} => functor'[u] = "none"
                      /\ kind[u] = "every" /\ ~Pending(u) =>
                            u \in cancelled \/ loop = "freed" \/ period[u] = 0
                      /\ functor'[u] = "alive" /\ ~Pending(u) =>
                            u \in cancelled \/ loop = "freed" \/ (kind[u] = "every" /\ period[u] = 0)
    BY <1>2, <1>5 DEF FunctorInv
  <2>1. CASE u = t
    BY <2>1, <1>2, <1>3, <1>4 DEF IInv, FunctorInv
  <2>2. CASE u # t
    BY <2>2, <1>2, <1>4 DEF IInv, FunctorInv
  <2> QED BY <2>1, <2>2
<1>9. RunningInv' /\ FaultCause'
  BY <1>2 DEF RunningInv, FaultCause
<1>10. CancelledInv'
  BY <1>2, <1>4 DEF IInv, TypeOK, CancelledInv
<1>11. HandleInv'
  BY <1>2, <1>3, <1>4 DEF IInv, HandleInv
<1>12. OwedInv'
  BY <1>2, <1>5 DEF IInv, OwedInv
<1>13. NeverEarly'
  BY <1>2, <1>4 DEF IInv, NeverEarly
<1> QED BY <1>6, <1>7, <1>8, <1>9, <1>10, <1>11, <1>12, <1>13 DEF IInv

LEMMA DestroyKeeps == ASSUME IInv, Destroy PROVE IInv'
<1>1. /\ fault = "none" /\ loop' = "freed" /\ order' = <<>>
      /\ place' = [t \in Timer |-> IF Pending(t)
                                   THEN IF kind[t] \in {"once", "exit"} THEN "freed" ELSE "out"
                                   ELSE place[t]]
      /\ UNCHANGED <<gotterm, lag, running, kind, left, period, functor, owed, backdated, handles, fault,
                     copied, cancelled>>
  BY DEF Destroy, events, Pending
<1>2. \A t \in Timer : /\ ~Pending(t)'
                       /\ ~Pending(t) => place'[t] = place[t]
                       /\ place'[t] = "freed" => place[t] = "freed" \/ kind[t] \in {"once", "exit"}
  BY <1>1 DEF Pending
<1>3. place' \in [Timer -> {"none", "heap", "active", "out", "freed"}]
  BY <1>1 DEF IInv, TypeOK
<1>4. order' \in Seq(Timer)
  BY <1>1, EmptySeq
<1>5. TypeOK'
  BY <1>1, <1>3, <1>4 DEF IInv, TypeOK
<1>6. QueueInv'
  <2>1. Active' = {}
    BY <1>2 DEF Active, Pending
  <2> QED BY <2>1, <1>1, EmptyLists DEF QueueInv
<1>7. MadeInv'
  BY <1>1, <1>2 DEF IInv, MadeInv, Made, Pending
<1>8. FunctorInv' /\ OwedInv'
  BY <1>1, <1>2 DEF IInv, FunctorInv, OwedInv
<1>9. RunningInv'
  BY <1>1, <1>2 DEF IInv, TypeOK, RunningInv
<1>10. CancelledInv'
  BY <1>1, <1>2 DEF IInv, TypeOK, CancelledInv, Pending
<1>11. HandleInv'
  BY <1>1, <1>2 DEF IInv, HandleInv
<1>12. NeverEarly' /\ FaultCause'
  BY <1>1, <1>2 DEF NeverEarly, FaultCause, Pending
<1> QED BY <1>5, <1>6, <1>7, <1>8, <1>9, <1>10, <1>11, <1>12 DEF IInv

LEMMA NextKeeps == ASSUME IInv, [Next]_vars PROVE IInv'
<1>1. CASE Calls
  <2>1. ASSUME NEW t \in Timer, NEW d \in Delays,
               \/ ScheduleOnce(t, d) \/ SchedualAfter(t, d)
               \/ \E time \in {d, -d} : SchedualAt(t, time)
               \/ SchedualEvery(t, d) \/ ShutdownGracefully(t, d)
        PROVE  IInv'
    <3>1. d \in Nat /\ d \in Int /\ d >= 0 /\ -d \in Int
      BY DelaysAssumption
    <3>2. CASE ScheduleOnce(t, d)
      <4>1. CASE d = 0
        BY <3>1, <3>2, <4>1, MakeKeeps DEF ScheduleOnce
      <4>2. CASE d # 0
        BY <3>1, <3>2, <4>2, MakeKeeps DEF ScheduleOnce
      <4> QED BY <4>1, <4>2
    <3>3. CASE SchedualAfter(t, d)
      BY <3>1, <3>3, MakeKeeps DEF SchedualAfter
    <3>4. ASSUME NEW time \in {d, -d}, SchedualAt(t, time) PROVE IInv'
      BY <3>1, <3>4, MakeKeeps DEF SchedualAt
    <3>5. CASE SchedualEvery(t, d)
      BY <3>1, <3>5, MakeKeeps DEF SchedualEvery
    <3>6. CASE ShutdownGracefully(t, d)
      <4>1. PICK m \in BOOLEAN : m = ~Valid(d)
        OBVIOUS
      <4>2. m => d % PerSecond = 0
        <5>1. d % PerSecond \in Nat
          <6>1. PerSecond \in Nat /\ PerSecond > 0
            BY BoundsAssumption
          <6> QED BY <3>1, <6>1
        <5>2. d % PerSecond > 0 \/ d % PerSecond = 0
          BY <5>1
        <5> QED BY <4>1, <5>2 DEF Valid
      <4>3. Make(t, "exit", d, m)
        BY <3>6, <4>1 DEF ShutdownGracefully
      <4> QED BY <3>1, <4>2, <4>3, MakeKeeps
    <3> QED BY <2>1, <3>2, <3>3, <3>4, <3>5, <3>6
  <2>2. ASSUME NEW t \in Timer, Cancle(t) PROVE IInv'
    BY <2>2, CancelKeeps DEF Cancle
  <2>3. ASSUME NEW t \in Timer, NEW h \in handles[t], Cancel(h, t) PROVE IInv'
    BY <2>3, CancelKeeps DEF Cancel
  <2> QED BY <1>1, <2>1, <2>2, <2>3, CopyTimerIdKeeps DEF Calls
<1>2. CASE UNCHANGED vars
  <2>1. UNCHANGED <<loop, gotterm, lag, order, running, kind, left, period, functor, owed, backdated, place,
                    handles, fault, copied, cancelled>>
    BY <1>2 DEF vars, base, events
  <2>2. TypeOK'
    BY <2>1 DEF IInv, TypeOK
  <2>3. MadeInv' /\ QueueInv'
    BY <2>1 DEF IInv, MadeInv, Made, QueueInv, Active
  <2>4. FunctorInv' /\ RunningInv' /\ CancelledInv' /\ HandleInv'
    BY <2>1 DEF IInv, FunctorInv, RunningInv, CancelledInv, HandleInv, Pending
  <2>5. OwedInv' /\ NeverEarly' /\ FaultCause'
    BY <2>1 DEF IInv, OwedInv, NeverEarly, FaultCause, Pending
  <2> QED BY <2>2, <2>3, <2>4, <2>5 DEF IInv
<1> QED BY <1>1, <1>2, TickKeeps, LoopKeeps, WakeKeeps, BeginKeeps, ReturnKeeps, DestroyKeeps
        DEF Next, Iteration

LEMMA SpecInv == Spec => []IInv
<1> QED BY InitInv, NextKeeps, PTL DEF Spec

(* For any timers and callers: an event is freed twice only through a copy *)
(* of its TimerId, a base is used after its end only by a late cancel(),   *)
(* and no callback runs on a deleted Functor.                              *)
THEOREM FaultsHaveCauses == Spec => []FaultCause
<1>1. IInv => FaultCause
  BY DEF IInv
<1> QED BY <1>1, SpecInv, PTL

(* Whatever the delays, the moments and the number of timers, and however  *)
(* late the runs before it: no callback is active before the real time its *)
(* caller asked for, but by the age of the base's time when it was made,   *)
(* and but for a shutdown after whole seconds.                             *)
THEOREM NothingIsEarly == Spec => []NeverEarly
<1>1. IInv => NeverEarly
  BY DEF IInv
<1> QED BY <1>1, SpecInv, PTL

(* The active queue, the heap, the cancelled events and the Functors agree *)
(* for any timers, and a Functor is lost for a known reason only.          *)
THEOREM BooksAgree == Spec => []EventsAccounted
<1>1. IInv => EventsAccounted
  <2> SUFFICES ASSUME IInv PROVE EventsAccounted
    OBVIOUS
  <2>1. \A t \in Timer : place[t] = "active" <=> \E i \in DOMAIN order : order[i] = t
    BY DEF IInv, QueueInv, Lists, Active
  <2>2. \A i, j \in DOMAIN order : order[i] = order[j] => i = j
    BY DEF IInv, QueueInv, Lists
  <2>3. \A t \in cancelled : place[t] = "freed"
    BY DEF IInv, CancelledInv
  <2>4. \A t \in Timer :
          functor[t] = "alive" /\ place[t] \notin {"heap", "active"} /\ running # t =>
              t \in cancelled \/ loop = "freed" \/ (kind[t] = "every" /\ period[t] = 0)
    BY DEF IInv, FunctorInv, Pending
  <2> QED BY <2>1, <2>2, <2>3, <2>4 DEF EventsAccounted, IInv
<1> QED BY <1>1, SpecInv, PTL
=============================================================================

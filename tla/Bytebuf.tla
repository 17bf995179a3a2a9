------------------------------- MODULE Bytebuf -------------------------------
(***************************************************************************)
(* Bytebufs: which of them owns which evbuffer through construction, moves, *)
(* assignment, swap() and destruction, and how many bytes go where.        *)
(*                                                                         *)
(* One evbuffer, Lent, is a bufferevent's: the pipeline wraps it without   *)
(* owning it.  Of a byte it is only known whether it is shared with        *)
(* another evbuffer; the cleanup functions of appendReference() are in     *)
(* NioSocketChannel.  Peeks leave all as it is and have no action.         *)
(***************************************************************************)
EXTENDS Naturals, Sequences, SequencesExt, FiniteSetsExt

CONSTANTS
    Buf,      \* the Bytebuf objects
    Ev,       \* the evbuffers
    Lent,     \* the one that belongs to a bufferevent
    None,     \* no evbuffer, a null pointer
    MaxOp,    \* bound: bytes in one operation
    MaxData   \* bound: bytes in one evbuffer

ASSUME EvAssumption == Lent \in Ev /\ None \notin Ev
ASSUME BoundsAssumption == MaxOp \in Nat /\ MaxData \in Nat

VARIABLES
    built,      \* the Bytebufs that exist
    evbuffer,   \* evbuffer_
    alloc,      \* alloc_
    live,       \* evbuffers that are not freed
    bytes,      \* what an evbuffer contains: "own" bytes and "shared" ones
    fault,      \* how the program broke
    overwritten \* history: whether Lent was in a Bytebuf that was assigned to

vars == <<built, evbuffer, alloc, live, bytes, fault, overwritten>>

TypeOK ==
    /\ built \subseteq Buf
    /\ evbuffer \in [Buf -> Ev \cup {None}]
    /\ alloc \in [Buf -> BOOLEAN]
    /\ live \subseteq Ev
    /\ bytes \in [Ev -> Seq({"own", "shared"})]
    /\ fault \in {"none", "null", "freed", "overrun", "lost"}
    /\ overwritten \in BOOLEAN

Init ==
    /\ built = {}
    /\ evbuffer = [b \in Buf |-> None]
    /\ alloc = [b \in Buf |-> FALSE]
    /\ live = {Lent}
    /\ bytes = [e \in Ev |-> <<>>]
    /\ fault = "none"
    /\ overwritten = FALSE
-----------------------------------------------------------------------------
(* Faulty variants of the definitions below.                               *)

(* A swap() that leaves alloc_ where it was.                               *)
Swap_PointersOnly(a, b) ==
    /\ fault = "none" /\ {a, b} \subseteq built /\ a # b
    /\ evbuffer' = [evbuffer EXCEPT ![a] = evbuffer[b], ![b] = evbuffer[a]]
    /\ UNCHANGED <<built, alloc, live, bytes, fault, overwritten>>

(* A destructor that does not look at alloc_.                              *)
Frees_Always(b) == evbuffer[b] # None
-----------------------------------------------------------------------------
(* Helpers                                                                 *)

(* The destructor frees its evbuffer.                                      *)
Frees(b) == alloc[b] /\ evbuffer[b] # None

(* evbuffer_free() of every evbuffer in S.                                 *)
FreeEvbuffers(S) ==
    /\ live' = live \ S
    /\ bytes' = [e \in Ev |-> IF e \in S THEN <<>> ELSE bytes[e]]
    /\ fault' = IF S \subseteq live THEN fault ELSE "freed"

Usable(b) == evbuffer[b] \in live

(* Bytebufs of B are used without a look at the pointer.                   *)
Misused(B) ==
    /\ fault' = IF \E b \in B : evbuffer[b] = None THEN "null" ELSE "freed"
    /\ UNCHANGED <<built, evbuffer, alloc, live, bytes, overwritten>>

Content(b) == bytes[evbuffer[b]]

AtMost(b, n) == Min({n, Len(Content(b))})

(* All but the first n bytes.                                              *)
Rest(s, n) == SubSeq(s, n + 1, Len(s))

(* b contains s from now on, and a contains t, if that is not too much.    *)
Contain(a, t, b, s) ==
    /\ Len(t) <= MaxData /\ evbuffer[a] # evbuffer[b]
    /\ bytes' = [bytes EXCEPT ![evbuffer[a]] = t, ![evbuffer[b]] = s]
    /\ UNCHANGED <<built, evbuffer, alloc, live, fault, overwritten>>
-----------------------------------------------------------------------------
(* Construction, moves and destruction                                     *)

(* Bytebuf() and Bytebuf(ef).                                              *)
Construct(b) ==
    /\ fault = "none" /\ b \notin built
    /\ \E e \in Ev \ (live \cup {Lent}) :
          /\ live' = live \cup {e}
          /\ evbuffer' = [evbuffer EXCEPT ![b] = e]
    /\ built' = built \cup {b}
    /\ alloc' = [alloc EXCEPT ![b] = TRUE]
    /\ UNCHANGED <<bytes, fault, overwritten>>

(* Bytebuf(ef, false), once for each bufferevent.                          *)
Wrap(b) ==
    /\ fault = "none" /\ b \notin built
    /\ Lent \in live /\ \A a \in built : evbuffer[a] # Lent
    /\ evbuffer' = [evbuffer EXCEPT ![b] = Lent]
    /\ built' = built \cup {b}
    /\ alloc' = [alloc EXCEPT ![b] = FALSE]
    /\ UNCHANGED <<live, bytes, fault, overwritten>>

(* Bytebuf(Bytebuf&&)                                                      *)
MoveConstruct(a, b) ==
    /\ fault = "none" /\ b \in built /\ a \notin built
    /\ built' = built \cup {a}
    /\ evbuffer' = [evbuffer EXCEPT ![a] = evbuffer[b], ![b] = None]
    /\ alloc' = [alloc EXCEPT ![a] = alloc[b]]
    /\ UNCHANGED <<live, bytes, fault, overwritten>>

(* operator=(Bytebuf&&) frees what a had, its own or not.                  *)
Assign(a, b) ==
    /\ fault = "none" /\ {a, b} \subseteq built /\ a # b
    /\ FreeEvbuffers({evbuffer[a]} \ {None})
    /\ evbuffer' = [evbuffer EXCEPT ![a] = evbuffer[b], ![b] = None]
    /\ alloc' = [alloc EXCEPT ![a] = alloc[b]]
    /\ overwritten' = (overwritten \/ evbuffer[a] = Lent)
    /\ UNCHANGED built

Swap(a, b) ==
    /\ fault = "none" /\ {a, b} \subseteq built /\ a # b
    /\ evbuffer' = [evbuffer EXCEPT ![a] = evbuffer[b], ![b] = evbuffer[a]]
    /\ alloc' = [alloc EXCEPT ![a] = alloc[b], ![b] = alloc[a]]
    /\ UNCHANGED <<built, live, bytes, fault, overwritten>>

(* ~Bytebuf()                                                              *)
Destroy(b) ==
    /\ fault = "none" /\ b \in built
    /\ FreeEvbuffers(IF Frees(b) THEN {evbuffer[b]} ELSE {})
    /\ built' = built \ {b}
    /\ evbuffer' = [evbuffer EXCEPT ![b] = None]
    /\ alloc' = [alloc EXCEPT ![b] = FALSE]
    /\ UNCHANGED overwritten
-----------------------------------------------------------------------------
(* Contents                                                                *)

(* Any call of the Bytebufs in B when one of them cannot be used.          *)
Misuse(B) ==
    /\ fault = "none" /\ B \subseteq built /\ \E b \in B : ~Usable(b)
    /\ Misused(B)

Ready(B) == fault = "none" /\ B \subseteq built /\ \A b \in B : Usable(b)

(* append() and appendReference() of n bytes.                              *)
AppendBytes(b, n) ==
    /\ Ready({b}) /\ Len(Content(b)) + n <= MaxData
    /\ bytes' = [bytes EXCEPT ![evbuffer[b]] = @ \o [i \in 1..n |-> "own"]]
    /\ UNCHANGED <<built, evbuffer, alloc, live, fault, overwritten>>

(* append(const Bytebuf&) empties the other one.                           *)
AppendBytebuf(a, b) ==
    /\ Ready({a, b})
    /\ Contain(a, Content(a) \o Content(b), b, <<>>)

(* readBytes(Bytebuf&, len)                                                *)
ReadBytebuf(a, b, n) ==
    /\ Ready({a, b})
    /\ Contain(a, Content(a) \o SubSeq(Content(b), 1, AtMost(b, n)), b, Rest(Content(b), AtMost(b, n)))

(* peekBytes(Bytebuf&, len) hands out a copy of everything.                *)
PeekBytebuf(a, b) ==
    /\ Ready({a, b})
    /\ Contain(a, Content(a) \o [i \in DOMAIN Content(b) |-> "own"], b, Content(b))

(* discardBytest(), readBytes(void*, len) and readBytes(Buffer&, len).     *)
DiscardBytes(b, n) ==
    /\ Ready({b})
    /\ bytes' = [bytes EXCEPT ![evbuffer[b]] = Rest(@, AtMost(b, n))]
    /\ UNCHANGED <<built, evbuffer, alloc, live, fault, overwritten>>

(* readBytes(std::string&, len) makes room for len bytes and takes all.    *)
ReadString(b, n) ==
    /\ Ready({b})
    /\ bytes' = [bytes EXCEPT ![evbuffer[b]] = <<>>]
    /\ fault' = IF n < Len(Content(b)) THEN "overrun" ELSE fault
    /\ UNCHANGED <<built, evbuffer, alloc, live, overwritten>>

(* appendReference(Bytebuf&&): a shares the bytes of b, which is moved     *)
(* from and lets go of what it owns.  An evbuffer with shared bytes cannot *)
(* be shared again: nobody looks, and the bytes are lost.                  *)
AppendReferenceBytebuf(a, b) ==
    /\ Ready({a, b}) /\ evbuffer[a] # evbuffer[b]
    /\ Len(Content(a) \o Content(b)) <= MaxData
    /\ LET shareable == "shared" \notin ToSet(Content(b))
           more == IF shareable THEN [i \in DOMAIN Content(b) |-> "shared"] ELSE <<>>
           gone == IF alloc[b] THEN {evbuffer[b]} ELSE {}
       IN  /\ live' = live \ gone
           /\ bytes' = [e \in Ev |-> IF e = evbuffer[a] THEN bytes[e] \o more
                                     ELSE IF e \in gone THEN <<>> ELSE bytes[e]]
           /\ fault' = IF shareable THEN fault ELSE "lost"
    /\ evbuffer' = [evbuffer EXCEPT ![b] = None]
    /\ UNCHANGED <<built, alloc, overwritten>>

(* The bufferevent reads from its socket.                                  *)
Arrive(n) ==
    /\ fault = "none"
    /\ IF Lent \in live
       THEN /\ Len(bytes[Lent]) + n <= MaxData
            /\ bytes' = [bytes EXCEPT ![Lent] = @ \o [i \in 1..n |-> "own"]]
            /\ UNCHANGED fault
       ELSE fault' = "freed" /\ UNCHANGED bytes
    /\ UNCHANGED <<built, evbuffer, alloc, live, overwritten>>

Next ==
    \/ \E b \in Buf :
        \/ Construct(b) \/ Wrap(b) \/ Destroy(b) \/ Misuse({b})
        \/ \E n \in 1..MaxOp : AppendBytes(b, n) \/ DiscardBytes(b, n) \/ ReadString(b, n)
    \/ \E a, b \in Buf :
        \/ MoveConstruct(a, b) \/ Assign(a, b) \/ Swap(a, b) \/ Misuse({a, b})
        \/ AppendBytebuf(a, b) \/ PeekBytebuf(a, b) \/ AppendReferenceBytebuf(a, b)
        \/ \E n \in 1..MaxOp : ReadBytebuf(a, b, n)
    \/ \E n \in 1..MaxOp : Arrive(n)

Spec == Init /\ [][Next]_vars
-----------------------------------------------------------------------------
(* Properties                                                              *)

(* Through any moves, swaps and assignments an evbuffer has one Bytebuf at *)
(* most, each of the Bytebufs' own evbuffers has exactly one that will     *)
(* free it, and nobody frees the bufferevent's except an assignment to the *)
(* Bytebuf that wraps it (and the variables have their types).             *)
EvbuffersOwned ==
    LET Holders(e) == {b \in built : evbuffer[b] = e} IN
    /\ TypeOK
    /\ fault = "none" =>
        /\ \A e \in Ev : \A a, b \in Holders(e) : a = b
        /\ \A e \in Ev \ {Lent} : e \in live <=> \E b \in Holders(e) : alloc[b]
        /\ \A b \in Holders(Lent) : ~alloc[b]
        /\ Lent \in live \/ overwritten

(* A Bytebuf is used with a null pointer only after it was moved from; a   *)
(* freed evbuffer is used only by the bufferevent that an assignment took  *)
(* it from.  (What readBytes() overruns and what is lost needs neither.)   *)
FaultCause ==
    /\ fault = "null" => \E b \in built : evbuffer[b] = None
    /\ fault = "freed" => overwritten /\ Lent \notin live
=============================================================================

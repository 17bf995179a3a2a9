------------------------------- MODULE Buffer -------------------------------
(***************************************************************************)
(* One Buffer: a window of dataSize_ bytes at beginIndex_ in memory of     *)
(* capacity_ bytes, moved, grown and shrunk by reallocate() and            *)
(* deallocate().  The model keeps the bytes of the window and the          *)
(* positions; whatever comes into the window without being written, or is  *)
(* read from memory that has moved, is Junk.  The history variable    *)
(* queue is what a user expects to find.                                   *)
(*                                                                         *)
(* notAlloc_ is never true and readIndex_ is never used.  Copies and       *)
(* swap() take a Buffer as it is and are left out.  The names are such     *)
(* that a module can extend Buffer and Bytebuf together.                   *)
(***************************************************************************)
EXTENDS Naturals, Sequences

CONSTANTS
    Byte,        \* the bytes that users append
    Junk,        \* a byte nobody has written
    Page,        \* PAGE_SIZE
    InitSizes,   \* the sizes given to the constructor; 0 is also Buffer()
    MaxBytes,    \* bound: bytes in one operation
    MaxWindow,   \* bound: bytes in the buffer
    MaxBegin     \* bound: how far beginIndex_ runs past the memory's end

ASSUME BufferAssumption ==
    /\ Junk \notin Byte
    /\ Page \in Nat \ {0}
    /\ InitSizes \subseteq Nat
    /\ MaxBytes \in Nat /\ MaxWindow \in Nat /\ MaxBegin \in Nat

VARIABLES
    data,      \* the window; its length is dataSize_
    cap,       \* capacity_
    begin,     \* beginIndex_
    null,      \* whether buffer_ is null
    init,      \* initSize_
    sustain,   \* sustain_
    broken,    \* how the program broke
    queue,     \* history: what the buffer should contain
    spoiled    \* history: calls after which the buffer cannot be relied on

bufferVars == <<data, cap, begin, null, init, sustain, broken, queue, spoiled>>

Spoils == {"read", "readBuffer", "moved", "short", "self"}

BufferTypeOK ==
    /\ data \in Seq(Byte \cup {Junk})
    /\ cap \in Nat
    /\ begin \in Nat
    /\ null \in BOOLEAN
    /\ init \in InitSizes
    /\ sustain \in BOOLEAN
    /\ broken \in {"none", "null", "overrun", "hang", "underflow", "freed"}
    /\ queue \in Seq(Byte \cup {Junk})
    /\ spoiled \subseteq Spoils
    /\ "moved" \notin spoiled => (null <=> cap = 0)

Unwritten(n) == [i \in 1..n |-> Junk]

(* All but the first n bytes, and all but the last n.                      *)
After(s, n) == SubSeq(s, n + 1, Len(s))
Before(s, n) == SubSeq(s, 1, Len(s) - n)

(* data() and size(): a null buffer shows nothing.                         *)
Visible == IF null THEN <<>> ELSE data

(* What a loop makes of a size in n rounds.                                *)
Rounds(n, size, round) ==
    LET after[k \in 0..n] == IF k = 0 THEN size ELSE round[after[k - 1]]
    IN  after[n]

(* What reallocate() doubles up to: the first size that is enough.         *)
Doubled(size, need) == Rounds(need, size, [n \in Nat |-> IF need > n THEN n * 2 ELSE n])
Grown(need) == Doubled(IF cap < Page THEN Page ELSE cap, need)

BufferInit ==
    /\ init \in InitSizes
    /\ sustain \in BOOLEAN
    /\ data = <<>>
    /\ begin = 0
    /\ null = (init = 0)
    /\ cap = IF init = 0 THEN 0 ELSE Doubled(Page, init)
    /\ broken = "none"
    /\ queue = <<>>
    /\ spoiled = {}
-----------------------------------------------------------------------------
(* Faulty variants of the definitions below.                               *)

(* discard() that takes the bytes from the end.                            *)
Discard_FromEnd(n) ==
    /\ broken = "none"
    /\ data' = Before(data, IF n > Len(data) THEN Len(data) ELSE n)
    /\ queue' = IF n > Len(queue) THEN <<>> ELSE After(queue, n)
    /\ UNCHANGED <<cap, begin, null, broken, init, sustain, spoiled>>

(* deallocate() that does not look at sustain_ and initSize_.              *)
Deallocates_Always(need) == need > 0
-----------------------------------------------------------------------------
(* Helpers                                                                 *)

(* Whether the contents of the buffer can be relied on.                    *)
Trusted == spoiled \cap (Spoils \ {"readBuffer"}) = {}

(* What a user expects from now on; nothing of a spoiled buffer.           *)
Expect(q) == queue' = IF Trusted' THEN q ELSE <<>>

(* capacity_ - beginIndex_ wraps when the window starts past the end.      *)
Fits(need) == begin > cap \/ need <= cap - begin

(* Copying the window out of its memory reads what is not there.           *)
Torn(d, b) == d # <<>> /\ b + Len(d) > cap

(* reallocate(): the window stays, moves to the front or goes to new       *)
(* memory, which gets nothing from a null buffer.                          *)
Reallocate(need) ==
    LET Memory(c, b, z, d, f) == [cap |-> c, begin |-> b, null |-> z, data |-> d, broken |-> f]
    IN  IF Fits(need) THEN Memory(cap, begin, null, data, "none")
        ELSE IF need <= cap
        THEN Memory(cap, 0, null, data,
                    IF data = <<>> THEN "none"
                    ELSE IF null THEN "null"
                    ELSE IF Torn(data, begin) THEN "overrun" ELSE "none")
        ELSE Memory(Grown(need), 0, FALSE, IF null THEN Unwritten(Len(data)) ELSE data,
                    IF ~null /\ Torn(data, begin) THEN "overrun" ELSE "none")

(* When deallocate() does anything.                                        *)
Deallocates(need) == need > 0 /\ ~sustain /\ cap > init

(* What deallocate() halves down to: the first size below twice the need.  *)
Shrunk(need) == Rounds(cap, cap, [n \in Nat |-> IF n >= need * 2 THEN n \div 2 ELSE n])

(* deallocate(need) of a window d at b.  A need below the window counts as *)
(* initSize_: the loop does not end at 0 and stops below the window else.  *)
Deallocate(need, d, b) ==
    LET r == IF need < Len(d) THEN init ELSE need IN
    \/ /\ ~Deallocates(need) \/ (r > 0 /\ Shrunk(r) = cap)
       /\ data' = d /\ begin' = b
       /\ UNCHANGED <<cap, null, broken>>
    \/ /\ Deallocates(need) /\ r = 0
       /\ broken' = "hang"
       /\ data' = d /\ begin' = b
       /\ UNCHANGED <<cap, null>>
    \/ /\ Deallocates(need) /\ r > 0 /\ Shrunk(r) # cap
       /\ cap' = Shrunk(r)
       /\ begin' = 0
       /\ null' = FALSE
       /\ data' = IF null THEN Unwritten(Len(d)) ELSE d
       /\ broken' = IF ~null /\ (Torn(d, b) \/ Len(d) > Shrunk(r)) THEN "overrun" ELSE broken

Broken(f) ==
    /\ broken' = f
    /\ UNCHANGED <<data, cap, begin, null, init, sustain, queue, spoiled>>

(* Room behind the window for a tail, whose first n bytes are written.     *)
Extend(tail, n) ==
    LET m == Reallocate(Len(data) + Len(tail)) IN
    /\ data' = m.data \o tail
    /\ cap' = m.cap
    /\ begin' = m.begin
    /\ null' = m.null
    /\ broken' = IF m.broken # "none" \/ n = 0 THEN m.broken
                ELSE IF m.null THEN "null"
                ELSE IF m.begin + Len(data) + n > m.cap THEN "overrun" ELSE "none"
    /\ UNCHANGED <<init, sustain>>
    /\ Expect(queue \o tail)
-----------------------------------------------------------------------------
(* Actions                                                                 *)

AppendData(s) ==
    /\ broken = "none"
    /\ Len(data) + Len(s) <= MaxWindow
    /\ spoiled' = spoiled
    /\ Extend(s, Len(s))

(* append() of n bytes of an evbuffer, of which it gives s: all of them,   *)
(* or fewer or none when it holds fewer or its front is frozen.  What came *)
(* is not looked at and the window grows by n.                             *)
AppendEvbuffer(s, n) ==
    /\ broken = "none"
    /\ Len(data) + n <= MaxWindow
    /\ spoiled' = IF Len(s) < n THEN spoiled \cup {"short"} ELSE spoiled
    /\ Extend(s \o Unwritten(n - Len(s)), Len(s))

(* append() of the buffer's own bytes (`b += b'): reallocate() may move    *)
(* them, or free their memory, before they are copied.                     *)
AppendSelf ==
    LET size == Len(data)
        stays == Fits(2 * size)
    IN  /\ broken = "none"
        /\ ~null /\ size > 0
        /\ 2 * size <= MaxWindow
        /\ spoiled' = IF stays THEN spoiled ELSE spoiled \cup {"self"}
        /\ \/ Extend(IF stays THEN data ELSE Unwritten(size), size)
           \/ /\ ~stays /\ 2 * size > cap
              /\ broken' = "freed"
              /\ UNCHANGED <<data, cap, begin, null, init, sustain, queue>>

(* ensureWrite(): room that the user has not filled yet.                   *)
EnsureWrite(n) ==
    /\ broken = "none"
    /\ Len(data) + n <= MaxWindow
    /\ spoiled' = spoiled
    /\ Extend(Unwritten(n), 0)

(* The user writes a byte through beginWrite(i - 1).                       *)
BeginWrite(i, x) ==
    /\ broken = "none"
    /\ ~null /\ i \in DOMAIN data
    /\ IF begin + i > cap
       THEN Broken("overrun")
       ELSE /\ data' = [data EXCEPT ![i] = x]
            /\ UNCHANGED <<cap, begin, null, broken, init, sustain, spoiled>>
            /\ Expect([queue EXCEPT ![i] = x])

Unwrite(n) ==
    /\ broken = "none"
    /\ LET d == Before(data, IF n > Len(data) THEN Len(data) ELSE n)
       IN  Deallocate(Len(d), d, begin)
    /\ UNCHANGED <<init, sustain, spoiled>>
    /\ Expect(IF n > Len(queue) THEN <<>> ELSE Before(queue, n))

Discard(n) ==
    /\ broken = "none"
    /\ n > 0
    /\ begin <= cap + MaxBegin
    /\ LET k == IF n > Len(data) THEN Len(data) ELSE n
       IN  Deallocate(Len(data) - k, After(data, k), begin + k)
    /\ UNCHANGED <<init, sustain, spoiled>>
    /\ Expect(IF n > Len(queue) THEN <<>> ELSE After(queue, n))

Clear ==
    /\ broken = "none"
    /\ Deallocate(0, <<>>, 0)
    /\ UNCHANGED <<init, sustain, spoiled>>
    /\ Expect(<<>>)

(* read() leaves the size it read as the size of the window, which is then *)
(* right only when half was read.  Too large a size throws DATA_LACK.      *)
Read(n) ==
    /\ broken = "none"
    /\ n <= Len(data)
    /\ IF n > 0 /\ (null \/ begin + n > cap)
       THEN Broken(IF null THEN "null" ELSE "overrun")
       ELSE /\ LET d == IF n = 0 THEN data ELSE SubSeq(After(data, n) \o Unwritten(n), 1, n)
               IN  Deallocate(Len(d), d, begin + n)
            /\ spoiled' = IF n > 0 /\ 2 * n # Len(data) THEN spoiled \cup {"read"} ELSE spoiled
            /\ UNCHANGED <<init, sustain>>
            /\ Expect(After(queue, n))

(* readBuffer() does not compare, and tells deallocate() what it took.     *)
ReadBuffer(n) ==
    /\ broken = "none"
    /\ IF n > 0 /\ (null \/ n > Len(data) \/ begin + n > cap)
       THEN Broken(IF n > Len(data) THEN "underflow" ELSE IF null THEN "null" ELSE "overrun")
       ELSE /\ Deallocate(n, After(data, n), begin + n)
            /\ spoiled' = IF n > 0 /\ 2 * n < Len(data) THEN spoiled \cup {"readBuffer"} ELSE spoiled
            /\ UNCHANGED <<init, sustain>>
            /\ Expect(After(queue, n))

(* The buffer is moved from: only the pointer goes.                        *)
Move ==
    /\ broken = "none"
    /\ null' = TRUE
    /\ spoiled' = IF cap > 0 THEN spoiled \cup {"moved"} ELSE spoiled
    /\ queue' = <<>>
    /\ UNCHANGED <<data, cap, begin, init, sustain, broken>>

BufferNext ==
    \/ \E n \in 1..MaxBytes : \E s \in [1..n -> Byte] : AppendData(s)
    \/ \E n \in 1..MaxBytes : \E k \in 0..n : \E s \in [1..k -> Byte] : AppendEvbuffer(s, n)
    \/ AppendSelf
    \/ \E n \in 1..MaxBytes : EnsureWrite(n)
    \/ \E i \in 1..MaxWindow, x \in Byte : BeginWrite(i, x)
    \/ \E n \in 0..MaxBytes : Unwrite(n) \/ Discard(n) \/ Read(n) \/ ReadBuffer(n)
    \/ Clear \/ Move

BufferSpec == BufferInit /\ [][BufferNext]_bufferVars
-----------------------------------------------------------------------------
(* Properties                                                              *)

(* Across every compaction, growth and shrinking the buffer contains what  *)
(* was appended and not yet taken, in order, and the window lies inside    *)
(* the memory: reallocate() and deallocate() never copy past either end    *)
(* of the old or the new memory.  That needs users who read() the half     *)
(* only, never use a moved-from buffer, never append a buffer to itself    *)
(* without room for it and take from an evbuffer no more than it gives.    *)
(* And the fields are consistent.                                          *)
ContentsKept ==
    /\ BufferTypeOK
    /\ broken = "none" /\ Trusted =>
          Visible = queue /\ begin + Len(data) <= cap

(* What breaks the program: readBuffer() of more than there is; readBuffer *)
(* of less than half, which hangs in deallocate() when initSize_ is 0 and  *)
(* overruns the shrunk memory otherwise; a read() of anything but half; a  *)
(* moved-from buffer; and a buffer appended to itself.  An evbuffer that   *)
(* gives less than was asked of it spoils the contents and breaks nothing. *)
BrokenCause ==
    /\ broken = "null" => "moved" \in spoiled
    /\ broken = "overrun" => spoiled \cap {"read", "readBuffer"} # {}
    /\ broken = "hang" => "readBuffer" \in spoiled /\ init = 0 /\ ~sustain
    /\ broken = "freed" => "self" \in spoiled
=============================================================================

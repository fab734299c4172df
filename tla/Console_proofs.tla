--------------------------- MODULE Console_proofs ---------------------------
(***************************************************************************)
(* Proofs about the console's ring, for every size: its type, that main    *)
(* pulls in the order of typing, and that no character is left behind.     *)
(***************************************************************************)
EXTENDS Console, SequenceTheorems, TLAPS

(* Remainders.                                                             *)

\* A positive multiple of Size is at least Size.
LEMMA Multiple ==
    ASSUME NEW d \in Int, d >= 1
    PROVE  Size * d >= Size
  <1>1. Size * (d - 1) >= 0
    BY ConsoleAssumption
  <1>2. Size * d = Size * (d - 1) + Size
    BY ConsoleAssumption
  <1> QED BY <1>1, <1>2, ConsoleAssumption

\* Quotient and remainder of a division by the size of the ring.
LEMMA Division ==
    ASSUME NEW n \in Int
    PROVE  /\ n = Size * (n \div Size) + (n % Size)
           /\ n \div Size \in Int
           /\ n % Size \in Slots
  BY ConsoleAssumption DEF Slots

\* Quotient and remainder are unique.
LEMMA Remainder ==
    ASSUME NEW q \in Int, NEW r \in Slots
    PROVE  (Size * q + r) % Size = r
  <1> DEFINE m == Size * q + r
             p == m \div Size
  <1>1. m \in Int
    BY ConsoleAssumption DEF Slots
  <1>2. m = Size * p + (m % Size) /\ p \in Int /\ m % Size \in Slots
    BY <1>1, Division
  <1> HIDE DEF p
  <1>3. CASE q - p >= 1
    <2>1. Size * (q - p) >= Size
      BY <1>2, <1>3, Multiple
    <2>2. Size * (q - p) = Size * q - Size * p
      BY <1>2, ConsoleAssumption
    <2> QED BY <2>1, <2>2, <1>2, ConsoleAssumption DEF Slots
  <1>4. CASE p - q >= 1
    <2>1. Size * (p - q) >= Size
      BY <1>2, <1>4, Multiple
    <2>2. Size * (p - q) = Size * p - Size * q
      BY <1>2, ConsoleAssumption
    <2> QED BY <2>1, <2>2, <1>2, ConsoleAssumption DEF Slots
  <1>5. CASE p = q
    BY <1>2, <1>5, ConsoleAssumption DEF Slots
  <1> QED BY <1>2, <1>3, <1>4, <1>5

\* Counting on by one moves to the next slot, with a wrap at the end.
LEMMA NextSlot ==
    ASSUME NEW n \in Nat
    PROVE  (n + 1) % Size = Wrap((n % Size) + 1)
  <1> DEFINE q == n \div Size
             r == n % Size
  <1>1. n = Size * q + r /\ q \in Int /\ r \in Slots
    BY Division
  <1> HIDE DEF q, r
  <1>2. CASE r = Size - 1
    <2>1. n + 1 = Size * (q + 1) + 0
      BY <1>1, <1>2, ConsoleAssumption
    <2>2. (Size * (q + 1) + 0) % Size = 0
      BY <1>1, ConsoleAssumption, Remainder DEF Slots
    <2> QED BY <1>2, <2>1, <2>2, <1>1, ConsoleAssumption DEF r, Wrap
  <1>3. CASE r # Size - 1
    <2>1. n + 1 = Size * q + (r + 1) /\ r + 1 \in Slots
      BY <1>1, <1>3, ConsoleAssumption DEF Slots
    <2>2. (Size * q + (r + 1)) % Size = r + 1
      BY <2>1, <1>1, Remainder
    <2> QED BY <1>1, <1>3, <2>1, <2>2, ConsoleAssumption DEF r, Wrap, Slots
  <1> QED BY <1>2, <1>3

\* Two numbers with the same slot are equal or at least Size apart.
LEMMA SameSlot ==
    ASSUME NEW a \in Nat, NEW b \in Nat, a <= b, a % Size = b % Size, b < a + Size
    PROVE  a = b
  <1> DEFINE p == a \div Size
             q == b \div Size
  <1>1. a = Size * p + (a % Size) /\ p \in Int
    BY Division
  <1>2. b = Size * q + (b % Size) /\ q \in Int
    BY Division
  <1>3. a % Size \in Nat /\ b % Size \in Nat
    BY Division, ConsoleAssumption DEF Slots
  <1> HIDE DEF p, q
  <1>4. b - a = Size * (q - p)
    BY <1>1, <1>2, <1>3, ConsoleAssumption
  <1>5. CASE q - p >= 1
    BY <1>4, <1>5, <1>1, <1>2, Multiple, ConsoleAssumption
  <1>6. CASE p - q >= 1
    <2>1. Size * (p - q) >= Size
      BY <1>1, <1>2, <1>6, Multiple
    <2>2. Size * (p - q) = -(b - a)
      BY <1>1, <1>2, <1>4, ConsoleAssumption
    <2> QED BY <2>1, <2>2, ConsoleAssumption
  <1>7. CASE p = q
    BY <1>1, <1>2, <1>3, <1>7, ConsoleAssumption
  <1> QED BY <1>1, <1>2, <1>5, <1>6, <1>7

\* Size further on is the same slot again.
LEMMA FullTurn ==
    ASSUME NEW n \in Nat
    PROVE  (n + Size) % Size = n % Size
  <1> DEFINE q == n \div Size
             r == n % Size
  <1>1. n = Size * q + r /\ q \in Int /\ r \in Slots
    BY Division
  <1> HIDE DEF q, r
  <1>2. n + Size = Size * (q + 1) + r
    BY <1>1, ConsoleAssumption DEF Slots
  <1>3. (Size * (q + 1) + r) % Size = r
    BY <1>1, Remainder
  <1> QED BY <1>2, <1>3 DEF r

-----------------------------------------------------------------------------
(* The inductive invariant.                                                *)

Pulling == {"wrap", "compare", "flag"}

\* The indices follow from the numbers of the last characters in and out.
IndexInv == /\ pusher = typed % Size
            /\ pc # "wrap" => puller = last % Size
            /\ pc = "wrap" => Wrap(puller) = last % Size

\* A slot holds a character that belongs there, and never an older one than
\* the ring has had in it; one that is unread is there unless overwritten.
RingInv == /\ \A s \in Slots : /\ ring[s] \in 0 .. typed
                               /\ ring[s] # 0 => (ring[s] - 1) % Size = s
           /\ \A j \in 1 .. typed : ring[(j - 1) % Size] >= j
           /\ ~overrun => \A j \in Unread : ring[(j - 1) % Size] = j

\* When main reads the flag, a queue that is not called empty is not.
FlagInv == /\ pc \notin Pulling /\ ~isempty => last < typed
           /\ pc = "flag" /\ ~reg => last < typed

\* Unless something was typed while main was reading, the flags are exact and
\* nothing has been overwritten.
CalmInv == ~hurried => /\ ~overrun
                       /\ typed - last <= Size
                       /\ pc \notin Pulling \cup {"unfull"} /\ ~isfull => typed - last < Size
                       /\ pc \in Pulling \cup {"unfull"} => typed - last < Size
                       /\ isempty => last = typed
                       /\ pc = "flag" /\ reg => last = typed

IInv == TypeOK /\ IndexInv /\ RingInv /\ FlagInv /\ CalmInv

\* The invariant holds when the console starts.
LEMMA InitInv == Init => IInv
  <1> SUFFICES ASSUME Init PROVE IInv
    OBVIOUS
  <1>1. TypeOK
    <2>1. ring \in [Slots -> 0 .. MaxTyped]
      BY ConsoleAssumption DEF Init
    <2>2. pusher \in Slots /\ puller \in Slots /\ i \in 0 .. Size
      BY ConsoleAssumption DEF Init, Slots
    <2>3. puller # Size
      BY <2>2, ConsoleAssumption DEF Slots
    <2>4. /\ typed \in 0 .. MaxTyped /\ newlines \subseteq 1 .. typed
          /\ last \in 0 .. typed /\ messages \in 0 .. MaxMessages
      BY ConsoleAssumption DEF Init
    <2>5. /\ input \in Seq(1 .. MaxTyped) /\ line \in Seq(1 .. MaxTyped)
          /\ shown \in Seq(0 .. MaxTyped)
      BY DEF Init
    <2> QED BY <2>1, <2>2, <2>3, <2>4, <2>5 DEF Init, TypeOK, PCs
  <1>2. IndexInv
    <2>1. (Size * 0 + 0) % Size = 0
      BY Remainder, ConsoleAssumption DEF Slots
    <2> QED BY <2>1, ConsoleAssumption DEF Init, IndexInv
  <1>3. RingInv
    BY ConsoleAssumption DEF Init, RingInv, Slots, Unread
  <1>4. FlagInv /\ CalmInv
    BY ConsoleAssumption DEF Init, FlagInv, CalmInv, Pulling
  <1> QED BY <1>1, <1>2, <1>3, <1>4 DEF IInv

-----------------------------------------------------------------------------
(* Steps that leave the ring alone and take main past no access to it.     *)

ringVars == <<queue, typed, hurried, overrun, reg, last>>

Aside == /\ UNCHANGED ringVars
         /\ pc' = pc \/ {pc, pc'} \cap (Pulling \cup {"unfull"}) = {}

\* A step that leaves the ring alone keeps what is said of it.
LEMMA AsideKeeps ==
    ASSUME IInv, Aside
    PROVE  IndexInv' /\ RingInv' /\ FlagInv' /\ CalmInv'
  <1> USE DEF IInv, Aside, ringVars, queue, flags, Pulling
  <1>1. IndexInv'
    BY DEF IndexInv
  <1>2. RingInv'
    BY DEF RingInv, Unread
  <1>3. FlagInv'
    BY DEF FlagInv
  <1>4. CalmInv'
    BY DEF CalmInv
  <1> QED BY <1>1, <1>2, <1>3, <1>4

AsideStep == \/ TypedOnFull \/ Poll \/ Line \/ Reprint \/ Await \/ ReadReturns

\* The steps that leave the ring alone.
LEMMA AsideSteps ==
    ASSUME IInv, AsideStep
    PROVE  Aside
  <1> USE DEF Aside, ringVars, Pulling, Goes, queue, flags, keys, reading, display
  <1>1. CASE TypedOnFull
    BY <1>1 DEF TypedOnFull
  <1>2. CASE Poll
    BY <1>2 DEF Poll, Message, FindInput, Ready, NotReady
  <1>3. CASE Line
    BY <1>3 DEF Line, Refill, TakeLine, HandleLine, HandleFatal
  <1>4. CASE Reprint
    BY <1>4 DEF Reprint, ReprintChar, ReprintDone, ReprintRunsOff
  <1>5. CASE Await
    BY <1>5 DEF Await
  <1>6. CASE ReadReturns
    BY <1>6 DEF ReadReturns
  <1> QED BY <1>1, <1>2, <1>3, <1>4, <1>5, <1>6 DEF AsideStep


-----------------------------------------------------------------------------
(* A pull.                                                                 *)

\* The slot main pulls from holds a character that is unread; the next one,
\* unless that one has been overwritten.
LEMMA PullFacts ==
    ASSUME IInv, PullChar
    PROVE  /\ puller = last % Size /\ puller \in Slots
           /\ last < typed
           /\ ring[puller] \in last + 1 .. typed
           /\ (ring[puller] - 1) % Size = puller
           /\ ~overrun => ring[puller] = last + 1
  <1> USE DEF IInv
  <1>1. pc = "pull" /\ ~isempty
    BY DEF PullChar, Goes
  <1>2. puller = last % Size
    BY <1>1 DEF IndexInv
  <1>3. last \in Nat /\ typed \in Nat /\ last < typed
    BY <1>1 DEF FlagInv, Pulling, TypeOK
  <1>4. puller \in Slots
    BY <1>2, <1>3, Division
  <1>5. last + 1 \in 1 .. typed /\ (last + 1) - 1 = last
    BY <1>3
  <1>6. ring[puller] >= last + 1
    BY <1>2, <1>5 DEF RingInv
  <1>7. ring[puller] \in 0 .. typed /\ (ring[puller] # 0 => (ring[puller] - 1) % Size = puller)
    BY <1>4 DEF RingInv
  <1>8. ~overrun => ring[puller] = last + 1
    BY <1>2, <1>3, <1>5 DEF RingInv, Unread
  <1> QED BY <1>2, <1>3, <1>4, <1>6, <1>7, <1>8

\* Pulling a character keeps the ring a window of the numbers typed.
LEMMA PullCharKeeps ==
    ASSUME IInv, PullChar
    PROVE  IndexInv' /\ RingInv' /\ FlagInv' /\ CalmInv'
  <1> DEFINE c == ring[puller]
  <1>1. /\ puller = last % Size /\ puller \in Slots /\ last < typed
        /\ c \in last + 1 .. typed /\ (c - 1) % Size = puller
        /\ ~overrun => c = last + 1
    BY PullFacts
  <1>2. /\ pc = "pull" /\ pc' = "wrap" /\ last' = c /\ puller' = puller + 1
        /\ UNCHANGED <<ring, pusher, isempty, isfull, reg, typed, hurried, overrun>>
        /\ ~isempty
    BY DEF PullChar, Goes, flags, keys
  <1>3. last \in Nat /\ typed \in Nat /\ c \in Nat /\ c - 1 \in Nat
    BY <1>1 DEF IInv, TypeOK
  <1> HIDE DEF c
  <1>4. IndexInv'
    <2>1. ((c - 1) + 1) % Size = Wrap(((c - 1) % Size) + 1)
      BY <1>3, NextSlot
    <2>2. (c - 1) + 1 = c
      BY <1>3
    <2> QED BY <1>1, <1>2, <2>1, <2>2 DEF IInv, IndexInv, Wrap
  <1>5. RingInv'
    BY <1>1, <1>2, <1>3 DEF IInv, RingInv, Unread
  <1>6. FlagInv'
    BY <1>2 DEF FlagInv, Pulling
  <1>7. CalmInv'
    BY <1>1, <1>2, <1>3, ConsoleAssumption DEF IInv, CalmInv, Pulling
  <1> QED BY <1>4, <1>5, <1>6, <1>7

\* The comparison of cq_pull finds the ring empty only when it is, unless the
\* handler comes in.
LEMMA PullCompareKeeps ==
    ASSUME IInv, PullCompare
    PROVE  IndexInv' /\ RingInv' /\ FlagInv' /\ CalmInv'
  <1>0. reg' <=> puller = pusher
    BY DEF PullCompare
  <1>1. /\ pc = "compare" /\ pc' = "flag"
        /\ UNCHANGED <<ring, pusher, puller, isempty, isfull, last, typed, hurried, overrun>>
    BY DEF PullCompare, Goes, queue, flags, keys
  <1>2. last \in Nat /\ typed \in Nat /\ last <= typed
    BY DEF IInv, TypeOK
  <1>3. puller = last % Size /\ pusher = typed % Size
    BY <1>1 DEF IInv, IndexInv
  <1>4. IndexInv' /\ RingInv'
    BY <1>1 DEF IInv, IndexInv, RingInv, Unread
  <1>5. FlagInv'
    <2>1. ~reg' => last < typed
      BY <1>0, <1>2, <1>3
    <2> QED BY <1>1, <2>1 DEF FlagInv, Pulling
  <1>6. CalmInv'
    <2>1. CASE hurried
      BY <1>1, <2>1 DEF CalmInv
    <2>2. CASE ~hurried
      <3>1. ~overrun /\ typed - last < Size /\ (isempty => last = typed)
        BY <1>1, <2>2 DEF IInv, CalmInv, Pulling
      <3>2. reg' => last = typed
        <4>1. typed < last + Size
          BY <1>2, <3>1, ConsoleAssumption
        <4>2. last % Size = typed % Size => last = typed
          BY <1>2, <4>1, SameSlot
        <4> QED BY <1>0, <1>3, <4>2
      <3> QED BY <1>1, <1>2, <3>1, <3>2, ConsoleAssumption DEF CalmInv, Pulling
    <2> QED BY <2>1, <2>2
  <1> QED BY <1>4, <1>5, <1>6

\* The other steps of a pull.
LEMMA PullRestKeeps ==
    ASSUME IInv, PullWrap \/ PullFlag \/ PullUnfull
    PROVE  IndexInv' /\ RingInv' /\ FlagInv' /\ CalmInv'
  <1> USE DEF IInv, Goes, keys, flags, queue, reading
  <1>1. CASE PullWrap
    <2>1. IndexInv'
      BY <1>1 DEF PullWrap, IndexInv
    <2>2. RingInv'
      BY <1>1 DEF PullWrap, RingInv, Unread
    <2>3. FlagInv' /\ CalmInv'
      BY <1>1 DEF PullWrap, FlagInv, CalmInv, Pulling
    <2> QED BY <2>1, <2>2, <2>3
  <1>2. CASE PullFlag
    <2>1. IndexInv'
      BY <1>2 DEF PullFlag, IndexInv
    <2>2. RingInv'
      BY <1>2 DEF PullFlag, RingInv, Unread
    <2>3. FlagInv' /\ CalmInv'
      BY <1>2 DEF PullFlag, FlagInv, CalmInv, Pulling
    <2> QED BY <2>1, <2>2, <2>3
  <1>3. CASE PullUnfull
    <2>1. IndexInv'
      BY <1>3 DEF PullUnfull, IndexInv
    <2>2. RingInv'
      BY <1>3 DEF PullUnfull, RingInv, Unread
    <2>3. FlagInv' /\ CalmInv'
      BY <1>3 DEF PullUnfull, FlagInv, CalmInv, Pulling
    <2> QED BY <2>1, <2>2, <2>3
  <1> QED BY <1>1, <1>2, <1>3

-----------------------------------------------------------------------------
(* A character comes in.                                                   *)

\* A character typed moves the push index around the ring.
LEMMA TypedKeepsIndices ==
    ASSUME IInv, Typed
    PROVE  IndexInv' /\ FlagInv'
  <1>1. typed \in Nat /\ last \in Nat /\ last <= typed
    BY DEF IInv, TypeOK
  <1>2. (typed + 1) % Size = Wrap((typed % Size) + 1)
    BY <1>1, NextSlot
  <1> QED BY <1>1, <1>2 DEF IInv, IndexInv, FlagInv, Typed, Push, reading

\* It takes the place of the number that is Size smaller.
LEMMA TypedKeepsRing ==
    ASSUME IInv, Typed
    PROVE  RingInv'
  <1> DEFINE n == typed + 1
  <1>1. /\ ring' = [ring EXCEPT ![pusher] = n] /\ typed' = n /\ last' = last
        /\ overrun' = (overrun \/ ring[pusher] \in Unread)
    BY DEF Typed, Push, reading
  <1>2. /\ pusher = typed % Size /\ pusher \in Slots
        /\ typed \in Nat /\ last \in Nat /\ last <= typed
        /\ ring \in [Slots -> 0 .. MaxTyped]
    BY DEF IInv, TypeOK, IndexInv
  <1>3. \A s \in Slots : ring'[s] = IF s = pusher THEN n ELSE ring[s]
    BY <1>1, <1>2
  <1>4. \A j \in 1 .. n : (j - 1) % Size \in Slots
    BY <1>2, Division
  <1>5. ASSUME NEW s \in Slots
        PROVE  ring'[s] \in 0 .. typed' /\ (ring'[s] # 0 => (ring'[s] - 1) % Size = s)
    <2>1. ring[s] \in 0 .. typed /\ (ring[s] # 0 => (ring[s] - 1) % Size = s)
      BY DEF IInv, RingInv
    <2>2. n - 1 = typed
      BY <1>2
    <2> QED BY <1>1, <1>2, <1>3, <2>1, <2>2
  <1>6. ASSUME NEW j \in 1 .. typed'
        PROVE  ring'[(j - 1) % Size] >= j
    <2>1. CASE (j - 1) % Size = pusher
      BY <1>1, <1>2, <1>3, <2>1
    <2>2. CASE (j - 1) % Size # pusher
      <3>1. j # n
        BY <1>2, <2>2
      <3>2. j \in 1 .. typed
        BY <1>1, <1>2, <3>1
      <3>3. ring[(j - 1) % Size] >= j
        BY <3>2 DEF IInv, RingInv
      <3> QED BY <1>1, <1>3, <1>4, <2>2, <3>3
    <2> QED BY <2>1, <2>2
  <1>7. ASSUME ~overrun', NEW j \in last' + 1 .. typed'
        PROVE  ring'[(j - 1) % Size] = j
    <2>1. ~overrun /\ ring[pusher] \notin Unread
      BY <1>1, <1>7
    <2>2. CASE j = n
      <3>1. j - 1 = typed
        BY <1>2, <2>2
      <3> QED BY <1>2, <1>3, <2>2, <3>1
    <2>3. CASE j # n
      <3>1. j \in Unread /\ j \in 1 .. n
        BY <1>1, <1>2, <2>3 DEF Unread
      <3>2. ring[(j - 1) % Size] = j
        BY <2>1, <3>1 DEF IInv, RingInv
      <3>3. (j - 1) % Size # pusher
        BY <2>1, <3>1, <3>2
      <3> QED BY <1>3, <1>4, <3>1, <3>2, <3>3
    <2> QED BY <2>2, <2>3
  <1> QED BY <1>5, <1>6, <1>7 DEF RingInv, Unread

\* When main does not read, it leaves the flags true.
LEMMA TypedKeepsCalm ==
    ASSUME IInv, Typed
    PROVE  CalmInv'
  <1> SUFFICES ASSUME ~hurried'
               PROVE  CalmInv'
    BY DEF CalmInv
  <1>1. ~hurried /\ ~Hurries
    BY DEF Typed
  <1>2. /\ ~overrun /\ typed - last < Size /\ pc \notin Pulling \cup {"unfull"}
    BY <1>1 DEF IInv, CalmInv, Hurries, Reading, Pulling, Typed
  <1>3. /\ pusher = typed % Size /\ puller = last % Size
        /\ typed \in Nat /\ last \in Nat /\ last <= typed
    BY <1>2 DEF IInv, IndexInv, TypeOK, Pulling
  <1>4. /\ typed' = typed + 1 /\ pusher' = Wrap(pusher + 1)
        /\ isfull' = (pusher' = puller) /\ isempty' = FALSE
        /\ overrun' = (overrun \/ ring[pusher] \in Unread)
        /\ UNCHANGED <<pc, puller, last>>
    BY DEF Typed, Push, reading
  <1>5. ring[pusher] \notin Unread
    <2> SUFFICES ASSUME ring[pusher] \in Unread
                 PROVE  FALSE
      OBVIOUS
    <2> DEFINE c == ring[pusher]
    <2>1. c \in last + 1 .. typed
      BY DEF Unread
    <2>2. pusher \in Slots
      BY DEF IInv, TypeOK
    <2>3. c # 0 => (c - 1) % Size = pusher
      BY <2>2 DEF IInv, RingInv
    <2> HIDE DEF c
    <2>4. c - 1 \in Nat /\ c - 1 < typed /\ typed < (c - 1) + Size
      BY <1>2, <1>3, <2>1, ConsoleAssumption
    <2>5. (c - 1) % Size = typed % Size
      BY <1>3, <2>1, <2>3
    <2> QED BY <1>3, <2>4, <2>5, SameSlot
  <1>6. ~isfull' => typed' - last < Size
    <2>1. (typed + 1) % Size = Wrap((typed % Size) + 1)
      BY <1>3, NextSlot
    <2>2. (last + Size) % Size = last % Size
      BY <1>3, FullTurn
    <2>3. typed + 1 # last + Size \/ isfull'
      BY <1>3, <1>4, <2>1, <2>2
    <2> QED BY <1>2, <1>3, <1>4, <2>3, ConsoleAssumption
  <1>7. ~overrun' /\ ~isempty' /\ pc' \notin Pulling \cup {"unfull"}
    BY <1>2, <1>4, <1>5
  <1>8. typed' - last' <= Size
    BY <1>2, <1>3, <1>4, ConsoleAssumption
  <1> QED BY <1>4, <1>6, <1>7, <1>8 DEF CalmInv, Pulling


-----------------------------------------------------------------------------
(* Types.                                                                  *)

\* It keeps the variables in their ranges.
LEMMA TypedKeepsType ==
    ASSUME IInv, Typed
    PROVE  TypeOK'
  <1>1. /\ typed < MaxTyped /\ typed \in 0 .. MaxTyped /\ pusher \in Slots
        /\ ring \in [Slots -> 0 .. MaxTyped] /\ last \in 0 .. typed
        /\ newlines \subseteq 1 .. typed
    BY DEF Typed, IInv, TypeOK
  <1>2. /\ typed' = typed + 1 /\ ring' = [ring EXCEPT ![pusher] = typed + 1]
        /\ newlines' \in {newlines, newlines \cup {typed + 1}}
        /\ pusher' = Wrap(pusher + 1) /\ isempty' = FALSE
        /\ isfull' = (pusher' = puller) /\ hurried' = (hurried \/ Hurries)
        /\ overrun' = (overrun \/ ring[pusher] \in Unread)
        /\ UNCHANGED <<storm, puller, pc, reading, display>>
    BY DEF Typed, Push
  <1>3. typed' \in 0 .. MaxTyped /\ last \in 0 .. typed'
    BY <1>1, <1>2, ConsoleAssumption
  <1>4. newlines' \subseteq 1 .. typed'
    BY <1>1, <1>2, ConsoleAssumption
  <1>5. ring' \in [Slots -> 0 .. MaxTyped]
    BY <1>1, <1>2, <1>3
  <1>6. pusher' \in Slots
    BY <1>1, <1>2, ConsoleAssumption DEF Wrap, Slots
  <1>7. isempty' \in BOOLEAN /\ isfull' \in BOOLEAN /\ hurried' \in BOOLEAN /\ overrun' \in BOOLEAN
    BY <1>2
  <1> QED BY <1>2, <1>3, <1>4, <1>5, <1>6, <1>7 DEF IInv, TypeOK, reading, display

\* So does the code of cq_pull.
LEMMA PullKeepsType ==
    ASSUME IInv, PullChar \/ PullWrap \/ PullCompare \/ PullFlag \/ PullUnfull
    PROVE  TypeOK'
  <1> USE DEF IInv, Goes, keys, queue, flags, reading, display
  <1>1. CASE PullChar
    <2>1. /\ puller \in Slots /\ ring[puller] \in last + 1 .. typed
      BY <1>1, PullFacts
    <2>2. ring[puller] \in 1 .. MaxTyped /\ ring[puller] \in 0 .. typed
      BY <2>1, ConsoleAssumption DEF TypeOK
    <2>3. puller + 1 \in Slots \cup {Size}
      BY <2>1, ConsoleAssumption DEF Slots
    <2>4. Append(input, ring[puller]) \in Seq(1 .. MaxTyped)
      BY <2>2 DEF TypeOK
    <2> QED BY <1>1, <2>2, <2>3, <2>4 DEF PullChar, TypeOK, PCs
  <1>2. CASE PullWrap
    <2>1. Wrap(puller) \in Slots
      BY ConsoleAssumption DEF TypeOK, Wrap, Slots
    <2>2. Wrap(puller) # Size
      BY <2>1, ConsoleAssumption DEF Slots
    <2> QED BY <1>2, <2>1, <2>2 DEF PullWrap, TypeOK, PCs
  <1>3. CASE PullCompare
    <2>1. reg' \in BOOLEAN
      BY <1>3 DEF PullCompare
    <2> QED BY <1>3, <2>1 DEF PullCompare, TypeOK, PCs
  <1>4. CASE PullFlag
    BY <1>4 DEF PullFlag, TypeOK, PCs
  <1>5. CASE PullUnfull
    BY <1>5 DEF PullUnfull, TypeOK, PCs
  <1> QED BY <1>1, <1>2, <1>3, <1>4, <1>5

\* So do the steps that leave the ring alone.
LEMMA AsideKeepsType ==
    ASSUME IInv, AsideStep
    PROVE  TypeOK'
  <1> USE DEF IInv, Goes, keys, queue, flags, reading, display
  <1>1. CASE TypedOnFull
    BY <1>1 DEF TypedOnFull, TypeOK
  <1>2. CASE Message
    <2>1. puller \in 0 .. Size /\ messages + 1 \in 0 .. MaxMessages
      BY <1>2, ConsoleAssumption DEF Message, TypeOK, Slots
    <2> QED BY <1>2, <2>1 DEF Message, ReprintFrom, TypeOK, PCs
  <1>3. CASE FindInput
    <2>1. pusher \in 0 .. Size
      BY ConsoleAssumption DEF TypeOK, Slots
    <2> QED BY <1>3, <2>1 DEF FindInput, TypeOK, PCs
  <1>4. CASE Ready \/ NotReady
    BY <1>4 DEF Ready, NotReady, TypeOK, PCs
  <1>5. CASE Await \/ ReadReturns
    BY <1>5 DEF Await, ReadReturns, TypeOK, PCs
  <1>6. CASE Refill \/ HandleLine \/ HandleFatal
    BY <1>6 DEF Refill, HandleLine, HandleFatal, TypeOK, PCs
  <1>7. CASE TakeLine
    <2>1. input \in Seq(1 .. MaxTyped)
      BY DEF TypeOK
    <2>2. PICK k \in 1 .. Len(input) : line' = SubSeq(input, 1, k - 1)
      BY <1>7 DEF TakeLine
    <2>3. \A m \in 1 .. Len(input) : input[m] \in 1 .. MaxTyped
      BY <2>1, ElementOfSeq
    <2>4. k - 1 \in Int /\ \A m \in 1 .. k - 1 : m \in 1 .. Len(input)
      BY <2>1
    <2>5. SubSeq(input, 1, k - 1) \in Seq(1 .. MaxTyped)
      BY <2>3, <2>4, SubSeqProperties
    <2> QED BY <1>7, <2>2, <2>5 DEF TakeLine, TypeOK, PCs
  <1>8. CASE ReprintChar
    <2>1. i + 1 \in 0 .. Size /\ ring[i] \in 0 .. MaxTyped
      BY <1>8, ConsoleAssumption DEF ReprintChar, TypeOK, Slots
    <2>2. Append(shown, ring[i]) \in Seq(0 .. MaxTyped)
      BY <2>1 DEF TypeOK
    <2> QED BY <1>8, <2>1, <2>2 DEF ReprintChar, TypeOK, PCs
  <1>9. CASE ReprintDone \/ ReprintRunsOff
    BY <1>9 DEF ReprintDone, ReprintRunsOff, TypeOK, PCs
  <1> QED BY <1>1, <1>2, <1>3, <1>4, <1>5, <1>6, <1>7, <1>8, <1>9
          DEF AsideStep, Poll, Line, Reprint

-----------------------------------------------------------------------------
\* Every step keeps the invariant.
LEMMA NextKeeps ==
    ASSUME IInv, [Next]_vars
    PROVE  IInv'
  <1>1. CASE Typed
    BY <1>1, TypedKeepsType, TypedKeepsIndices, TypedKeepsRing, TypedKeepsCalm DEF IInv
  <1>2. CASE AsideStep
    BY <1>2, AsideKeepsType, AsideSteps, AsideKeeps DEF IInv
  <1>3. CASE PullChar
    BY <1>3, PullKeepsType, PullCharKeeps DEF IInv
  <1>4. CASE PullCompare
    BY <1>4, PullKeepsType, PullCompareKeeps DEF IInv
  <1>5. CASE PullWrap \/ PullFlag \/ PullUnfull
    BY <1>5, PullKeepsType, PullRestKeeps DEF IInv
  <1>6. CASE UNCHANGED vars
    <2>1. Aside
      BY <1>6 DEF Aside, ringVars, vars, keys, reading
    <2>2. TypeOK'
      BY <1>6 DEF IInv, TypeOK, vars, queue, flags, keys, reading, display
    <2> QED BY <2>1, <2>2, AsideKeeps DEF IInv
  <1> QED BY <1>1, <1>2, <1>3, <1>4, <1>5, <1>6 DEF Next, Main, Read, AsideStep

\* The invariant of ring, indices and flags holds always.
THEOREM Invariance == Spec => []IInv
  <1>1. IInv /\ [Next]_vars => IInv'
    BY NextKeeps
  <1> QED BY <1>1, InitInv, PTL DEF Spec

\* For every size of the ring, every line length and every number of characters
\* and messages, the indices stay inside the array while handler and main
\* interleave.
THEOREM TypeCorrect == Spec => []TypeOK
  <1>1. IInv => TypeOK
    BY DEF IInv
  <1> QED BY <1>1, Invariance, PTL

\* The empty flag never hides a character that did not race a pull.
THEOREM NeverStranded == Spec => []NoneStranded
  <1>1. IInv => NoneStranded
    BY DEF IInv, CalmInv, NoneStranded
  <1> QED BY <1>1, Invariance, PTL

\* Main pulls every character after those typed before it, at most once and,
\* until the handler overwrites one, all of them.
THEOREM PullsInOrder == Spec => InOrder
  <1>1. ASSUME IInv, PullChar
        PROVE  ring[puller] > last /\ (ring[puller] = last + 1 \/ overrun)
    <2>1. last \in Nat /\ typed \in Nat
      BY <1>1 DEF IInv, TypeOK
    <2> QED BY <1>1, <2>1, PullFacts
  <1>2. IInv /\ [Next]_vars
          => [PullChar => ring[puller] > last /\ (ring[puller] = last + 1 \/ overrun)]_vars
    BY <1>1
  <1> QED BY <1>2, Invariance, PTL DEF Spec, InOrder


-----------------------------------------------------------------------------
(* The reprint.                                                            *)

\* What is unread and has not been overrun is in the ring, in its own slot.
LEMMA UnreadInRing ==
    ASSUME IInv, NEW j \in Unread, typed - last < Size
    PROVE  ring[(j - 1) % Size] = j
  <1> DEFINE c == ring[(j - 1) % Size]
  <1>1. typed \in Nat /\ last \in Nat /\ j \in Nat /\ j - 1 \in Nat /\ j > last /\ j <= typed
    BY DEF IInv, TypeOK, Unread
  <1>2. (j - 1) % Size \in Slots
    BY <1>1, Division
  <1>3. c \in 0 .. typed /\ (c # 0 => (c - 1) % Size = (j - 1) % Size) /\ c >= j
    BY <1>1, <1>2 DEF IInv, RingInv
  <1> HIDE DEF c
  <1>4. c - 1 \in Nat /\ j - 1 <= c - 1 /\ c - 1 < (j - 1) + Size
    BY <1>1, <1>3, ConsoleAssumption
  <1>5. j - 1 = c - 1
    BY <1>1, <1>3, <1>4, SameSlot
  <1> QED BY <1>1, <1>3, <1>5 DEF c

\* Unless the queue has filled up, the reprint has shown what comes first.
ReprintInv == pc = "reprint" /\ typed - last < Size =>
                 /\ Len(shown) <= typed - last
                 /\ i = (last % Size) + Len(shown)
                 /\ \A k \in 1 .. Len(shown) : shown[k] = last + k

\* While it has not wrapped, the loop's index is the slot of the next one.
LEMMA ReprintSlot ==
    ASSUME IInv, ReprintInv, pc = "reprint", typed - last < Size, i \in Slots
    PROVE  /\ Len(shown) \in Nat /\ last + Len(shown) \in Nat
           /\ (last + Len(shown)) % Size = i
           /\ i = pusher => last + Len(shown) = typed
  <1> DEFINE n == Len(shown)
  <1>1. /\ n \in Nat /\ last \in Nat /\ typed \in Nat /\ n <= typed - last
        /\ i = (last % Size) + n
    BY DEF IInv, TypeOK, ReprintInv
  <1>2. /\ last = Size * (last \div Size) + (last % Size)
        /\ last \div Size \in Int /\ last % Size \in Slots
    BY <1>1, Division
  <1> HIDE DEF n
  <1>3. last + n = Size * (last \div Size) + i
    BY <1>1, <1>2, ConsoleAssumption DEF Slots
  <1>4. (last + n) % Size = i
    BY <1>2, <1>3, Remainder
  <1>5. ASSUME i = pusher PROVE last + n = typed
    <2>1. (last + n) % Size = typed % Size
      BY <1>4, <1>5 DEF IInv, IndexInv
    <2>2. last + n \in Nat /\ last + n <= typed /\ typed < (last + n) + Size
      BY <1>1, ConsoleAssumption
    <2> QED BY <1>1, <2>1, <2>2, SameSlot
  <1> QED BY <1>1, <1>4, <1>5 DEF n

\* A turn of the reprint shows the number after those it has shown.
LEMMA ReprintCharKeeps ==
    ASSUME IInv, ReprintInv, ReprintChar
    PROVE  ReprintInv'
  <1> SUFFICES ASSUME typed - last < Size
               PROVE  ReprintInv'
    BY DEF ReprintInv, ReprintChar, Goes, keys, reading
  <1> DEFINE n == Len(shown)
             c == ring[i]
  <1>1. /\ pc = "reprint" /\ i \in Slots /\ i # pusher
        /\ i' = i + 1 /\ shown' = Append(shown, c) /\ UNCHANGED <<typed, last>>
    BY DEF ReprintChar, Goes, keys, reading
  <1>2. n \in Nat /\ last + n \in Nat /\ (last + n) % Size = i
    BY <1>1, ReprintSlot
  <1>3. /\ typed \in Nat /\ last \in Nat /\ shown \in Seq(0 .. MaxTyped)
        /\ n <= typed - last /\ i = (last % Size) + n
        /\ \A k \in 1 .. n : shown[k] = last + k
    BY <1>1 DEF IInv, TypeOK, ReprintInv
  <1>4. last + n # typed
    BY <1>1, <1>2 DEF IInv, IndexInv
  <1>5. (last + n) + 1 \in Unread
    BY <1>2, <1>3, <1>4 DEF Unread
  <1>6. c = (last + n) + 1
    <2>1. ((last + n) + 1) - 1 = last + n
      BY <1>2
    <2> QED BY <1>2, <1>5, <2>1, UnreadInRing
  <1>7. last % Size \in Nat
    BY <1>3, Division, ConsoleAssumption DEF Slots
  <1> HIDE DEF c
  <1>8. Len(shown') = n + 1 /\ \A k \in 1 .. n + 1 : shown'[k] = IF k = n + 1 THEN c ELSE shown[k]
    BY <1>1, <1>3
  <1>9. \A k \in 1 .. Len(shown') : shown'[k] = last + k
    <2> SUFFICES ASSUME NEW k \in 1 .. n + 1
                 PROVE  shown'[k] = last + k
      BY <1>8
    <2> HIDE DEF n
    <2>1. CASE k = n + 1
      BY <1>2, <1>3, <1>6, <1>8, <2>1
    <2>2. CASE k # n + 1
      <3>1. k \in 1 .. n
        BY <1>2, <2>2
      <3>2. shown[k] = last + k
        BY <1>3, <3>1
      <3>3. shown'[k] = shown[k]
        BY <1>8, <2>2
      <3> QED BY <3>2, <3>3
    <2> QED BY <2>1, <2>2
  <1> HIDE DEF n
  <1>10. Len(shown') <= typed - last
    BY <1>2, <1>3, <1>4, <1>8
  <1>11. i' = (last % Size) + Len(shown')
    BY <1>1, <1>2, <1>3, <1>7, <1>8
  <1> QED BY <1>1, <1>9, <1>10, <1>11 DEF ReprintInv

\* Every step keeps what is said of the reprint.
LEMMA ReprintKeeps ==
    ASSUME IInv, ReprintInv, [Next]_vars
    PROVE  ReprintInv'
  <1> USE DEF Goes, keys, reading, display
  <1>1. CASE ReprintChar
    BY <1>1, ReprintCharKeeps
  <1>2. CASE Message
    <2>1. shown' = << >> /\ i' = last % Size /\ UNCHANGED <<typed, last>>
      BY <1>2 DEF Message, ReprintFrom, IInv, IndexInv
    <2>2. typed \in Nat /\ last \in Nat /\ last <= typed /\ last % Size \in Nat
      BY Division, ConsoleAssumption DEF IInv, TypeOK, Slots
    <2> QED BY <2>1, <2>2 DEF ReprintInv
  <1>3. CASE Typed
    <2>1. typed' = typed + 1 /\ UNCHANGED <<pc, last, i, shown>>
      BY <1>3 DEF Typed
    <2>2. typed \in Nat /\ last \in Nat /\ Len(shown) \in Nat
      BY DEF IInv, TypeOK
    <2> QED BY <2>1, <2>2, ConsoleAssumption DEF ReprintInv
  <1>4. CASE TypedOnFull \/ UNCHANGED vars
    BY <1>4 DEF TypedOnFull, vars, ReprintInv
  <1>5. CASE pc' # "reprint"
    BY <1>5 DEF ReprintInv
  <1>6. Main => pc' # "reprint" \/ Message \/ ReprintChar
    BY DEF Main, Poll, FindInput, Ready, NotReady, Read, Await, PullChar,
           PullWrap, PullCompare, PullFlag, PullUnfull, ReadReturns, Line,
           Refill, TakeLine, HandleLine, HandleFatal, Reprint, ReprintDone,
           ReprintRunsOff
  <1> QED BY <1>1, <1>2, <1>3, <1>4, <1>5, <1>6 DEF Next

\* However the ring has wrapped and whatever is typed meanwhile, a reprint that
\* ends has shown every unread character, in order, if the queue is not full.
THEOREM ReprintsAll == Spec => ReprintWhole
  <1>1. Init => ReprintInv
    BY DEF Init, ReprintInv
  <1>2. IInv /\ ReprintInv /\ [Next]_vars => ReprintInv'
    BY ReprintKeeps
  <1>3. ASSUME IInv, ReprintInv, ReprintDone
        PROVE  shown = [k \in 1 .. typed - last |-> last + k] \/ typed - last >= Size
    <2>0. typed - last < Size \/ typed - last >= Size
      BY <1>3, ConsoleAssumption DEF IInv, TypeOK
    <2> SUFFICES ASSUME typed - last < Size
                 PROVE  shown = [k \in 1 .. typed - last |-> last + k]
      BY <2>0
    <2>1. pc = "reprint" /\ i = pusher /\ i \in Slots
      BY <1>3 DEF ReprintDone, Goes, IInv, TypeOK
    <2>2. /\ typed \in Nat /\ last \in Nat /\ shown \in Seq(0 .. MaxTyped)
          /\ \A k \in 1 .. Len(shown) : shown[k] = last + k
      BY <1>3, <2>1 DEF IInv, TypeOK, ReprintInv
    <2>3. Len(shown) \in Nat /\ last + Len(shown) = typed
      BY <1>3, <2>1, ReprintSlot
    <2>4. Len(shown) = typed - last
      BY <2>2, <2>3
    <2>5. shown = [k \in 1 .. Len(shown) |-> shown[k]]
      BY <2>2
    <2> QED BY <2>2, <2>4, <2>5
  <1>4. IInv /\ ReprintInv /\ [Next]_vars
          => [ReprintDone => \/ shown = [k \in 1 .. typed - last |-> last + k]
                             \/ typed - last >= Size]_vars
    BY <1>3
  <1> QED BY <1>1, <1>2, <1>4, Invariance, PTL DEF Spec, ReprintWhole

-----------------------------------------------------------------------------
(* Lines.                                                                  *)

\* The character before those that fgets has not used.
Base == last - Len(input)

\* Unless something was typed while main read, or behind a line not yet read,
\* what main has read starts after a newline and has no gap, the only newline
\* after it is the character typed last, and main reads only when there is one.
LineInv == ~hurried => /\ Base >= 0 /\ (Base = 0 \/ Base \in newlines)
                       /\ \A k \in 1 .. Len(input) : input[k] = Base + k
                       /\ newlines \cap (Base + 1 .. typed) \subseteq {typed}
                       /\ ~Reading => input = << >>
                       /\ Reading => typed \in newlines /\ Base < typed
                       /\ pc = "last" => \E t \in Unread : i = t % Size
                       /\ pc = "scan" => last = typed

\* A step that changes nothing the line depends on.
Quiet == /\ UNCHANGED <<input, last, typed, newlines, hurried>>
         /\ Reading' <=> Reading
         /\ pc' \notin {"last", "scan"} \/ UNCHANGED <<pc, i>>

\* Such a step keeps what is said of the line.
LEMMA QuietKeeps ==
    ASSUME LineInv, Quiet
    PROVE  LineInv'
  <1>1. Base' = Base /\ Unread' = Unread
    BY DEF Quiet, Base, Unread
  <1> QED BY <1>1 DEF LineInv, Quiet

\* The steps of that kind.
LEMMA QuietSteps ==
    ASSUME \/ TypedOnFull \/ UNCHANGED vars \/ Message \/ NotReady \/ Await
           \/ PullWrap \/ PullCompare \/ PullFlag \/ PullUnfull
           \/ HandleLine \/ HandleFatal \/ Reprint
    PROVE  Quiet
  <1> USE DEF Quiet, Reading, Goes, keys, reading, display
  <1>1. CASE TypedOnFull \/ UNCHANGED vars
    BY <1>1 DEF TypedOnFull, vars
  <1>2. CASE Message \/ NotReady
    BY <1>2 DEF Message, NotReady
  <1>3. CASE Await \/ PullWrap \/ PullCompare \/ PullFlag \/ PullUnfull
    BY <1>3 DEF Await, PullWrap, PullCompare, PullFlag, PullUnfull
  <1>4. CASE HandleLine \/ HandleFatal
    BY <1>4 DEF HandleLine, HandleFatal
  <1>5. CASE Reprint
    BY <1>5 DEF Reprint, ReprintChar, ReprintDone, ReprintRunsOff
  <1> QED BY <1>1, <1>2, <1>3, <1>4, <1>5

\* A character that does not hurry main comes behind no newline.
LEMMA TypedKeepsLine ==
    ASSUME IInv, LineInv, Typed
    PROVE  LineInv'
  <1> SUFFICES ASSUME ~hurried'
               PROVE  LineInv'
    BY DEF LineInv
  <1>1. /\ typed' = typed + 1 /\ newlines' \in {newlines, newlines \cup {typed + 1}}
        /\ UNCHANGED <<pc, input, last, i>>
        /\ ~hurried /\ ~Reading /\ Unread \cap newlines = {}
    BY DEF Typed, Hurries, reading, display
  <1>2. /\ typed \in Nat /\ last \in Nat /\ last <= typed /\ newlines \subseteq 1 .. typed
    BY DEF IInv, TypeOK
  <1>3. input = << >> /\ Base = last /\ Base' = last /\ ~Reading'
    BY <1>1, <1>2 DEF LineInv, Base, Reading
  <1>4. Base' = 0 \/ Base' \in newlines'
    BY <1>1, <1>3 DEF LineInv
  <1>5. newlines' \cap (Base' + 1 .. typed') \subseteq {typed'}
    BY <1>1, <1>2, <1>3 DEF Unread
  <1>6. pc' = "last" => \E t \in Unread' : i' = t % Size
    <2>1. Unread \subseteq Unread'
      BY <1>1, <1>2 DEF Unread
    <2> QED BY <1>1, <2>1 DEF LineInv
  <1>7. pc' # "scan"
    BY <1>1 DEF Reading
  <1>8. \A k \in 1 .. Len(input') : input'[k] = Base' + k
    BY <1>1, <1>3
  <1> QED BY <1>1, <1>2, <1>3, <1>4, <1>5, <1>6, <1>7, <1>8 DEF LineInv

\* A queue that is not called empty holds the character before the index.
LEMMA FindInputKeepsLine ==
    ASSUME IInv, LineInv, FindInput
    PROVE  LineInv'
  <1>1. /\ pc = "poll" /\ pc' = "last" /\ i' = pusher /\ ~isempty
        /\ UNCHANGED <<input, last, typed, newlines, hurried>>
    BY DEF FindInput, Goes, keys, reading
  <1>2. typed \in Unread /\ i' = typed % Size
    BY <1>1 DEF IInv, FlagInv, Pulling, IndexInv, TypeOK, Unread
  <1>3. Base' = Base /\ Unread' = Unread /\ ~Reading /\ ~Reading'
    BY <1>1 DEF Base, Unread, Reading
  <1> QED BY <1>1, <1>2, <1>3 DEF LineInv

\* The character uartRxReady has looked at is the one typed last: no other that
\* is unread can be a newline.
LEMMA ReadyKeepsLine ==
    ASSUME IInv, LineInv, Ready
    PROVE  LineInv'
  <1> SUFFICES ASSUME ~hurried'
               PROVE  LineInv'
    BY DEF LineInv
  <1>1. /\ pc = "last" /\ pc' = "await" /\ i > 0 /\ ring[i - 1] \in newlines
        /\ UNCHANGED <<input, last, typed, newlines, hurried>>
    BY DEF Ready, EndsLine, Goes, keys, reading, display
  <1>2. PICK t \in Unread : i = t % Size
    BY <1>1 DEF LineInv
  <1>3. /\ typed \in Nat /\ last \in Nat /\ t \in Nat /\ t - 1 \in Nat
        /\ last < t /\ t <= typed
    BY <1>2 DEF IInv, TypeOK, Unread
  <1>4. i - 1 = (t - 1) % Size
    <2>1. ((t - 1) + 1) % Size = Wrap(((t - 1) % Size) + 1) /\ (t - 1) % Size \in Slots
      BY <1>3, NextSlot, Division
    <2>2. (t - 1) + 1 = t
      BY <1>3
    <2> QED BY <1>1, <1>2, <2>1, <2>2, ConsoleAssumption DEF Wrap, Slots
  <1>5. ring[i - 1] = t
    BY <1>1, <1>4 DEF IInv, CalmInv, RingInv
  <1>6. Base = last /\ Base' = last /\ input = << >>
    BY <1>1, <1>3 DEF LineInv, Base, Reading
  <1>7. t \in newlines \cap (Base + 1 .. typed)
    BY <1>1, <1>3, <1>5, <1>6
  <1>8. typed \in newlines /\ last < typed
    BY <1>1, <1>3, <1>7 DEF LineInv
  <1> QED BY <1>1, <1>3, <1>6, <1>8 DEF LineInv, Reading

\* A character is pulled after the one before it.
LEMMA PullCharKeepsLine ==
    ASSUME IInv, LineInv, PullChar
    PROVE  LineInv'
  <1> SUFFICES ASSUME ~hurried'
               PROVE  LineInv'
    BY DEF LineInv
  <1> DEFINE n == Len(input)
             c == ring[puller]
  <1>1. /\ pc = "pull" /\ pc' = "wrap" /\ input' = Append(input, c) /\ last' = c
        /\ UNCHANGED <<typed, newlines, hurried>>
    BY DEF PullChar, Goes, keys
  <1>2. c = last + 1
    BY <1>1, PullFacts DEF IInv, CalmInv
  <1>3. input \in Seq(1 .. MaxTyped) /\ n \in Nat /\ last \in Nat /\ typed \in Nat
    BY DEF IInv, TypeOK
  <1> HIDE DEF c
  <1>4. Len(input') = n + 1 /\ \A k \in 1 .. n + 1 : input'[k] = IF k = n + 1 THEN c ELSE input[k]
    BY <1>1, <1>3
  <1>5. Base' = Base /\ Base + n = last /\ Base \in Int
    BY <1>1, <1>2, <1>3, <1>4 DEF Base
  <1>6. \A k \in 1 .. n : input[k] = Base + k
    BY <1>1 DEF LineInv
  <1> HIDE DEF n
  <1>7. \A k \in 1 .. n + 1 : input'[k] = Base + k
    <2> TAKE k \in 1 .. n + 1
    <2>1. CASE k = n + 1
      BY <1>2, <1>3, <1>4, <1>5, <2>1
    <2>2. CASE k # n + 1
      <3>1. k \in 1 .. n
        BY <1>3, <2>2
      <3> QED BY <1>4, <1>6, <2>2, <3>1
    <2> QED BY <2>1, <2>2
  <1>8. \A k \in 1 .. Len(input') : input'[k] = Base' + k
    BY <1>4, <1>5, <1>7
  <1>9. Reading /\ Reading'
    BY <1>1 DEF Reading
  <1> QED BY <1>1, <1>5, <1>8, <1>9 DEF LineInv

\* When _read returns main has pulled everything.
LEMMA ReadReturnsKeepsLine ==
    ASSUME IInv, LineInv, ReadReturns
    PROVE  LineInv'
  <1>1. /\ pc = "pull" /\ pc' = "scan" /\ isempty
        /\ UNCHANGED <<input, last, typed, newlines, hurried>>
    BY DEF ReadReturns, Goes, keys, reading
  <1>2. Base' = Base /\ Reading /\ Reading'
    BY <1>1 DEF Base, Reading
  <1>3. ~hurried => last = typed
    BY <1>1 DEF IInv, CalmInv
  <1> QED BY <1>1, <1>2, <1>3 DEF LineInv

\* What fgets looks at ends with the newline that was typed last.
LEMMA ScanFacts ==
    ASSUME IInv, LineInv, pc = "scan", ~hurried
    PROVE  /\ last = typed /\ typed \in newlines
           /\ Len(input) \in Nat /\ Len(input) >= 1
           /\ Base \in Nat /\ last = Base + Len(input) /\ Base < last
           /\ Base = 0 \/ Base \in newlines
           /\ \A k \in 1 .. Len(input) : input[k] = Base + k
           /\ \A k \in 1 .. Len(input) : input[k] \in newlines <=> k = Len(input)
  <1>1. /\ last = typed /\ typed \in newlines /\ Base < typed /\ Base >= 0
        /\ Base = 0 \/ Base \in newlines
        /\ \A k \in 1 .. Len(input) : input[k] = Base + k
    BY DEF LineInv, Reading
  <1>2. newlines \cap (Base + 1 .. typed) \subseteq {typed}
    BY DEF LineInv
  <1>3. last \in Nat /\ typed \in Nat /\ Len(input) \in Nat
    BY DEF IInv, TypeOK
  <1>4. Base \in Nat /\ last = Base + Len(input) /\ Len(input) >= 1
    BY <1>1, <1>3 DEF Base
  <1>5. ASSUME NEW k \in 1 .. Len(input)
        PROVE  Base + k \in newlines <=> k = Len(input)
    <2>1. Base + k \in Base + 1 .. typed
      BY <1>1, <1>3, <1>4
    <2>2. Base + k \in newlines => Base + k = typed
      BY <1>2, <2>1
    <2>3. k \in Nat
      BY <1>3
    <2> QED BY <1>1, <1>3, <1>4, <2>2, <2>3
  <1> QED BY <1>1, <1>3, <1>4, <1>5

\* So fgets finds a newline, and the line uses all that main has read.
LEMMA ScanKeepsLine ==
    ASSUME IInv, LineInv, Refill \/ TakeLine
    PROVE  LineInv'
  <1> SUFFICES ASSUME ~hurried'
               PROVE  LineInv'
    BY DEF LineInv
  <1>1. pc = "scan" /\ UNCHANGED <<last, typed, newlines, hurried>>
    BY DEF Refill, TakeLine, Goes, keys, reading
  <1>2. /\ last = typed /\ typed \in newlines /\ Len(input) \in Nat /\ Len(input) >= 1
        /\ \A k \in 1 .. Len(input) : input[k] \in newlines <=> k = Len(input)
    BY <1>1, ScanFacts
  <1>3. Len(input) \in Stops
    BY <1>2 DEF Stops
  <1>4. input' = << >> /\ pc' = "handle"
    BY <1>3 DEF Refill, TakeLine, Goes
  <1>5. last \in Nat
    BY DEF IInv, TypeOK
  <1>6. Base' = last /\ ~Reading'
    BY <1>1, <1>4, <1>5 DEF Base, Reading
  <1> QED BY <1>1, <1>2, <1>4, <1>5, <1>6 DEF LineInv

\* Every step keeps what is said of the line.
LEMMA LineKeeps ==
    ASSUME IInv, LineInv, [Next]_vars
    PROVE  LineInv'
  <1>1. CASE Typed
    BY <1>1, TypedKeepsLine
  <1>2. CASE FindInput
    BY <1>2, FindInputKeepsLine
  <1>3. CASE Ready
    BY <1>3, ReadyKeepsLine
  <1>4. CASE PullChar
    BY <1>4, PullCharKeepsLine
  <1>5. CASE ReadReturns
    BY <1>5, ReadReturnsKeepsLine
  <1>6. CASE Refill \/ TakeLine
    BY <1>6, ScanKeepsLine
  <1>7. CASE TypedOnFull \/ UNCHANGED vars \/ Message \/ NotReady \/ Await
    BY <1>7, QuietSteps, QuietKeeps
  <1>8. CASE PullWrap \/ PullCompare \/ PullFlag \/ PullUnfull
    BY <1>8, QuietSteps, QuietKeeps
  <1>9. CASE HandleLine \/ HandleFatal \/ Reprint
    BY <1>9, QuietSteps, QuietKeeps
  <1> QED BY <1>1, <1>2, <1>3, <1>4, <1>5, <1>6, <1>7, <1>8, <1>9
          DEF Next, Main, Poll, Read, Line

\* The line that ends with the last character begins after Base.
LEMMA FirstIs ==
    ASSUME IInv, LineInv, pc = "scan", ~hurried
    PROVE  FirstOf(last) = Base + 1
  <1> DEFINE P(f) == (f = 1 \/ f - 1 \in newlines) /\ (f .. last - 1) \cap newlines = {}
  <1>1. /\ last = typed /\ Base \in Nat /\ Base < last /\ (Base = 0 \/ Base \in newlines)
        /\ last \in Nat /\ newlines \subseteq 1 .. last
    BY ScanFacts DEF IInv, TypeOK
  <1>2. newlines \cap (Base + 1 .. last) \subseteq {last}
    BY <1>1 DEF LineInv
  <1>3. Base + 1 \in 1 .. last /\ P(Base + 1)
    BY <1>1, <1>2
  <1>4. ASSUME NEW f \in 1 .. last, P(f)
        PROVE  f = Base + 1
    <2>1. CASE f <= Base
      <3>1. Base \in newlines /\ Base \in f .. last - 1
        BY <1>1, <2>1
      <3> QED BY <1>4, <3>1
    <2>2. CASE f > Base + 1
      <3>1. f - 1 \in newlines /\ f - 1 \in Base + 1 .. last /\ f - 1 # last
        BY <1>1, <1>4, <2>2
      <3> QED BY <1>2, <3>1
    <2> QED BY <1>1, <2>1, <2>2
  <1>5. FirstOf(last) = CHOOSE f \in 1 .. last : P(f)
    BY DEF FirstOf
  <1> HIDE DEF P
  <1>6. (CHOOSE f \in 1 .. last : P(f)) = Base + 1
    BY <1>3, <1>4
  <1> QED BY <1>5, <1>6

\* For every size of the ring and every interleaving with the handler, a line
\* that was typed while main did not read, and that fits, reaches the parser
\* whole and alone.
THEOREM LinesArriveWhole == Spec => WholeLines
  <1>1. Init => LineInv
    <2> SUFFICES ASSUME Init PROVE LineInv
      OBVIOUS
    <2>1. last = 0 /\ input = << >> /\ newlines = {} /\ Base = 0
      <3>1. last = 0 /\ last \in Int
        BY DEF Init
      <3>2. input = << >> /\ newlines = {}
        BY DEF Init
      <3>3. Len(input) = 0
        BY <3>2
      <3>4. last - Len(input) = 0
        BY <3>1, <3>3
      <3> QED BY <3>1, <3>2, <3>4 DEF Base
    <2>2. pc = "poll" /\ ~Reading
      BY DEF Init, Reading
    <2> QED BY <2>1, <2>2 DEF LineInv
  <1>2. IInv /\ LineInv /\ [Next]_vars => LineInv'
    BY LineKeeps
  <1>3. ASSUME IInv, LineInv, TakeLine, ~hurried
        PROVE  /\ last \in newlines
               /\ Len(Text(last)) < MaxLine => line' = Text(last)
    <2> DEFINE n == Len(input)
    <2>1. pc = "scan"
      BY <1>3 DEF TakeLine, Goes
    <2>2. /\ last = typed /\ typed \in newlines /\ n \in Nat /\ n >= 1
          /\ Base \in Nat /\ last = Base + n
          /\ \A k \in 1 .. n : input[k] = Base + k
          /\ \A k \in 1 .. n : input[k] \in newlines <=> k = n
      BY <1>3, <2>1, ScanFacts
    <2>3. Text(last) = [k \in 1 .. n - 1 |-> Base + k]
      <3>1. FirstOf(last) = Base + 1
        BY <1>3, <2>1, FirstIs
      <3>2. last - (Base + 1) = n - 1
        BY <2>2
      <3>3. \A k \in 1 .. n - 1 : (Base + 1) + k - 1 = Base + k
        BY <2>2
      <3> QED BY <3>1, <3>2, <3>3 DEF Text
    <2>4. Len(Text(last)) = n - 1
      <3>1. n - 1 \in Nat
        BY <2>2
      <3> QED BY <2>3, <3>1
    <2>5. ASSUME Len(Text(last)) < MaxLine
          PROVE  line' = Text(last)
      <3>1. PICK k \in 1 .. n : IsFirstStop(k) /\ line' = SubSeq(input, 1, k - 1)
        BY <1>3 DEF TakeLine
      <3>2. k = n
        <4>1. k \in Nat /\ (input[k] \in newlines \/ k = MaxLine) /\ k <= n
          BY <3>1 DEF IsFirstStop, Stops
        <4>2. n <= MaxLine
          BY <2>2, <2>4, <2>5, ConsoleAssumption
        <4> QED BY <2>2, <3>1, <4>1, <4>2, ConsoleAssumption
      <3>3. SubSeq(input, 1, n - 1) = [j \in 1 .. n - 1 |-> input[j]]
        BY <1>3, <2>2 DEF IInv, TypeOK
      <3>4. \A j \in 1 .. n - 1 : input[j] = Base + j
        BY <2>2
      <3> HIDE DEF n
      <3> QED BY <2>3, <3>1, <3>2, <3>3, <3>4
    <2> QED BY <2>2, <2>5
  <1>4. IInv /\ LineInv /\ [Next]_vars
          => [TakeLine /\ ~hurried =>
                 /\ last \in newlines
                 /\ Len(Text(last)) < MaxLine => line' = Text(last)]_vars
    BY <1>3
  <1> QED BY <1>1, <1>2, <1>4, Invariance, PTL DEF Spec, WholeLines

=============================================================================

------------------------------ MODULE Console -------------------------------
(***************************************************************************)
(* The serial console of a node: the ring of typed characters              *)
(* (circular_queue.c), the handler that fills it (USART2), and the loop of *)
(* main that polls it, reads a line from it and shows what is typed again  *)
(* after it has printed a message from the network.                        *)
(*                                                                         *)
(* The handler is one step.  Main can be interrupted between any two of its*)
(* accesses to the ring, so it is cut at each of them.  A character is its *)
(* number in the order of typing; `newlines` tells which ones end a line.  *)
(***************************************************************************)
EXTENDS Integers, Sequences

CONSTANTS Size,             \* CIRCULAR_QUEUE_SIZE, 2048
          MaxLine,          \* the characters fgets takes at most, 260
          MaxTyped,         \* bound: the characters typed
          MaxMessages       \* bound: the messages received for this node

ASSUME ConsoleAssumption == /\ Size \in Nat /\ Size >= 2
                            /\ MaxLine \in Nat /\ MaxLine >= 1
                            /\ MaxTyped \in Nat /\ MaxMessages \in Nat

VARIABLES
    ring, pusher, puller,   \* the queue: buffer and indices
    isempty, isfull,        \* and its two flags
    typed, newlines,        \* the characters taken in, and the newlines of them
    storm,                  \* the handler cannot empty the data register
    pc,                     \* where main is
    reg,                    \* the result of a comparison, not yet stored
    i,                      \* a copy of an index: of pusher, or of the reprint
    input,                  \* the characters read by fgets and not yet used
    line,                   \* uartRxBuffer
    messages,               \* the messages received so far
    last,                   \* history: the character pulled last
    shown,                  \* history: the characters the reprint has sent
    hurried,                \* history: something was typed while main read
    overrun                 \* history: the handler overwrote an unread one

flags   == <<isempty, isfull>>
queue   == <<ring, pusher, puller, flags>>
keys    == <<typed, newlines, storm, hurried, overrun>>
reading == <<reg, input, line, last>>
display == <<i, messages, shown>>
vars    == <<queue, keys, pc, reading, display>>

Slots == 0 .. Size - 1

Init == /\ ring = [s \in Slots |-> 0]
        /\ pusher = 0
        /\ puller = 0
        /\ isempty = TRUE
        /\ isfull = FALSE
        /\ typed = 0
        /\ newlines = {}
        /\ storm = FALSE
        /\ pc = "poll"
        /\ reg = FALSE
        /\ i = 0
        /\ input = << >>
        /\ line = << >>
        /\ messages = 0
        /\ last = 0
        /\ shown = << >>
        /\ hurried = FALSE
        /\ overrun = FALSE

\* Slip (no part of the model, see README.md): the index is not wrapped.
WrapForgotten(k) == k

Wrap(k) == IF k = Size THEN 0 ELSE k

Unread == last + 1 .. typed

-----------------------------------------------------------------------------
(* USART2_IRQHandler and cq_push.                                          *)

\* Main waits for the user, or is between two lines.
Reading == pc \in {"await", "pull", "wrap", "compare", "flag", "unfull", "scan"}

\* Typing while main reads a line, or behind a line it has not read.
Hurries == Reading \/ Unread \cap newlines # {}

\* Slip: only the pull sets and clears the flag.
PushFlagKept(c) == /\ ring' = [ring EXCEPT ![pusher] = c]
                   /\ pusher' = Wrap(pusher + 1)
                   /\ isfull' = (pusher' = puller)
                   /\ UNCHANGED isempty

Push(c) == /\ ring' = [ring EXCEPT ![pusher] = c]
           /\ pusher' = Wrap(pusher + 1)
           /\ isfull' = (pusher' = puller)
           /\ isempty' = FALSE

Typed == /\ pc # "fault"
         /\ ~storm
         /\ ~isfull
         /\ typed < MaxTyped
         /\ typed' = typed + 1
         /\ newlines' \in {newlines, newlines \cup {typed + 1}}
         /\ Push(typed + 1)
         /\ hurried' = (hurried \/ Hurries)
         /\ overrun' = (overrun \/ ring[pusher] \in Unread)
         /\ UNCHANGED <<storm, puller, pc, reading, display>>

\* With a full queue the handler returns without reading the data register:
\* the interrupt stays pending and main never runs again.
TypedOnFull == /\ pc # "fault"
               /\ ~storm
               /\ isfull
               /\ typed < MaxTyped
               /\ storm' = TRUE
               /\ UNCHANGED <<queue, typed, newlines, hurried, overrun>>
               /\ UNCHANGED <<pc, reading, display>>

-----------------------------------------------------------------------------
(* main: the poll.  A message for another node changes nothing here.       *)

Goes(here, there) == /\ ~storm
                     /\ pc = here
                     /\ pc' = there
                     /\ UNCHANGED keys

\* Slip: the loop starts at the front of the array.
FrontOfArray == 0

ReprintFrom == puller

\* network_rx returned a message for this node, printed before the reprint.
Message == /\ messages < MaxMessages
           /\ Goes("poll", "reprint")
           /\ messages' = messages + 1
           /\ i' = ReprintFrom
           /\ shown' = << >>
           /\ UNCHANGED <<queue, reading>>

\* uartRxReady: the flag, the index, and the character before it.
FindInput == /\ ~isempty
             /\ Goes("poll", "last")
             /\ i' = pusher
             /\ UNCHANGED <<queue, reading, messages, shown>>

\* Slip: the character at the index is tested, not the one before it.
EndsLineAtIndex(k) == k \in Slots /\ ring[k] \in newlines

\* The byte before the buffer is the top byte of isfull, which is 0.
EndsLine(k) == k > 0 /\ ring[k - 1] \in newlines

Ready == /\ EndsLine(i)
         /\ Goes("last", "await")
         /\ UNCHANGED <<queue, reading, display>>

NotReady == /\ ~EndsLine(i)
            /\ Goes("last", "poll")
            /\ UNCHANGED <<queue, reading, display>>

Poll == Message \/ FindInput \/ Ready \/ NotReady

-----------------------------------------------------------------------------
(* _read: waits for a character, then pulls until the queue is empty.      *)

Await == /\ ~isempty
         /\ Goes("await", "pull")
         /\ UNCHANGED <<queue, reading, display>>

PullChar == /\ ~isempty
            /\ Goes("pull", "wrap")
            /\ input' = Append(input, ring[puller])
            /\ last' = ring[puller]
            /\ puller' = puller + 1
            /\ UNCHANGED <<ring, pusher, flags, reg, line, display>>

PullWrap == /\ Goes("wrap", "compare")
            /\ puller' = Wrap(puller)
            /\ UNCHANGED <<ring, pusher, flags, reading, display>>

PullCompare == /\ Goes("compare", "flag")
               /\ reg' = (puller = pusher)
               /\ UNCHANGED <<queue, input, line, last, display>>

\* Slip: a pull does not set the flag.
PullFlagKept == /\ Goes("flag", "unfull")
                /\ UNCHANGED <<queue, reading, display>>

PullFlag == /\ Goes("flag", "unfull")
            /\ isempty' = reg
            /\ UNCHANGED <<ring, pusher, puller, isfull, reading, display>>

PullUnfull == /\ Goes("unfull", "pull")
              /\ isfull' = FALSE
              /\ UNCHANGED <<ring, pusher, puller, isempty, reading, display>>

ReadReturns == /\ isempty
               /\ Goes("pull", "scan")
               /\ UNCHANGED <<queue, reading, display>>

Read == \/ Await \/ PullChar \/ PullWrap \/ PullCompare \/ PullFlag
        \/ PullUnfull \/ ReadReturns

-----------------------------------------------------------------------------
(* fgets, fflush and what main does with the line.                         *)

\* The places where fgets stops: a newline, or the size of the buffer.
Stops == {k \in 1 .. Len(input) : input[k] \in newlines \/ k = MaxLine}

Refill == /\ Stops = {}
          /\ Goes("scan", "await")
          /\ UNCHANGED <<queue, reading, display>>

IsFirstStop(k) == k \in Stops /\ \A j \in Stops : k <= j

\* Slip: fflush(stdin), which is undefined in C, does nothing.
TakeLineUnflushed == /\ Goes("scan", "handle")
                     /\ \E k \in 1 .. Len(input) :
                           /\ IsFirstStop(k)
                           /\ line' = SubSeq(input, 1, k - 1)
                           /\ input' = SubSeq(input, k + 1, Len(input))
                     /\ UNCHANGED <<queue, reg, last, display>>

\* fflush(stdin) drops what fgets has left, and main the line's last character.
TakeLine == /\ Goes("scan", "handle")
            /\ \E k \in 1 .. Len(input) :
                  IsFirstStop(k) /\ line' = SubSeq(input, 1, k - 1)
            /\ input' = << >>
            /\ UNCHANGED <<queue, reg, last, display>>

\* An address set, a complaint printed, or a message queued.
HandleLine == /\ Goes("handle", "poll")
              /\ UNCHANGED <<queue, reading, display>>

\* The transmit queue was full: ERROR_HANDLE_FATAL.
HandleFatal == /\ Goes("handle", "halted")
               /\ UNCHANGED <<queue, reading, display>>

Line == Refill \/ TakeLine \/ HandleLine \/ HandleFatal

-----------------------------------------------------------------------------
(* uartRxReprint: i + 1 % CIRCULAR_QUEUE_SIZE is i + 1.                    *)

ReprintChar == /\ i # pusher
               /\ i \in Slots
               /\ Goes("reprint", "reprint")
               /\ i' = i + 1
               /\ shown' = Append(shown, ring[i])
               /\ UNCHANGED <<queue, reading, messages>>

ReprintDone == /\ i = pusher
               /\ Goes("reprint", "poll")
               /\ UNCHANGED <<queue, reading, display>>

\* Past the array the loop prints what follows it, until an access faults.
ReprintRunsOff == /\ i # pusher
                  /\ i \notin Slots
                  /\ Goes("reprint", "fault")
                  /\ UNCHANGED <<queue, reading, display>>

Reprint == ReprintChar \/ ReprintDone \/ ReprintRunsOff

-----------------------------------------------------------------------------
Main == Poll \/ Read \/ Line \/ Reprint

Next == Typed \/ TypedOnFull \/ Main

\* Main runs whenever the handler does not, unless a storm starves it.
Spec == Init /\ [][Next]_vars /\ WF_vars(Main)

-----------------------------------------------------------------------------
(* Properties.                                                             *)

PCs == {"poll", "last", "await", "pull", "wrap", "compare", "flag", "unfull",
        "scan", "handle", "reprint", "halted", "fault"}

\* The handler writes inside the array; main's index leaves it only between an
\* increment and its test.
TypeOK ==
    /\ ring \in [Slots -> 0 .. MaxTyped]
    /\ pusher \in Slots
    /\ puller \in Slots \cup {Size} /\ (puller = Size => pc = "wrap")
    /\ isempty \in BOOLEAN /\ isfull \in BOOLEAN /\ reg \in BOOLEAN
    /\ storm \in BOOLEAN /\ hurried \in BOOLEAN /\ overrun \in BOOLEAN
    /\ typed \in 0 .. MaxTyped /\ newlines \subseteq 1 .. typed
    /\ pc \in PCs /\ i \in 0 .. Size
    /\ input \in Seq(1 .. MaxTyped) /\ line \in Seq(1 .. MaxTyped)
    /\ messages \in 0 .. MaxMessages
    /\ last \in 0 .. typed /\ shown \in Seq(0 .. MaxTyped)

\* _read hands out characters in the order of typing, none twice, none that
\* was never typed, whatever the handler does between two steps of cq_pull;
\* none is missing either unless the handler has overwritten one.
InOrder == [][PullChar => /\ ring[puller] > last
                          /\ ring[puller] = last + 1 \/ overrun]_vars

\* The queue is called empty only when it is: a character is left behind, unseen
\* by every later poll, only if it comes while main is pulling.
NoneStranded == isempty /\ ~hurried => last = typed

\* The characters of the line that ends at newline m, without the newline.
FirstOf(m) == CHOOSE f \in 1 .. m : /\ f = 1 \/ f - 1 \in newlines
                                    /\ (f .. m - 1) \cap newlines = {}
Text(m) == [k \in 1 .. m - FirstOf(m) |-> FirstOf(m) + k - 1]

\* A line that was typed while main was not reading, and that fits, reaches the
\* parser whole and alone, however often the ring has wrapped and whatever has
\* been received and shown in between.
WholeLines ==
    [][TakeLine /\ ~hurried => /\ last \in newlines
                               /\ Len(Text(last)) < MaxLine => line' = Text(last)]_vars

Stopped == storm \/ pc \in {"halted", "fault"}

Taken(m) == typed > m \/ (pc = "handle" /\ last = m) \/ Stopped

\* A line that is complete is taken: main neither overlooks it nor waits for
\* more.  But for the newline in the last slot of the array (LineSeen).
LineTaken ==
    \A m \in 1 .. MaxTyped :
        (typed = m /\ m \in newlines /\ last < m /\ ~hurried /\ pusher # 0) ~> Taken(m)

\* After a message, the terminal shows again all that was typed and not read,
\* in order, unless the queue is full (pusher = puller looks empty to it).
ReprintWhole ==
    [][ReprintDone => \/ shown = [k \in 1 .. typed - last |-> last + k]
                      \/ typed - last >= Size]_vars

-----------------------------------------------------------------------------
(* What the repository says and the code does not do.                      *)

\* uartRxReady: "bool if a string ending in a newline exists in the buffer",
\* so main takes every complete line.
LineSeen ==
    \A m \in 1 .. MaxTyped :
        (typed = m /\ m \in newlines /\ last < m /\ ~hurried) ~> Taken(m)

\* uartRxReprint: "allows for reprinting of message when message received in
\* the middle of typing", so the program goes on after it.
ReprintEnds == pc # "fault"

=============================================================================

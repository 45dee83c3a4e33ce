-------------------------- MODULE WebSocketParser --------------------------
(***************************************************************************)
(* The receiving half of a browser's WebSocket (class WebSocketConnection  *)
(* of server/gateway.ts): TCP chunks of any size are collected, complete   *)
(* frames taken from the front, fragments put together into messages, and  *)
(* an incomplete frame held under a deadline.                              *)
(*                                                                         *)
(* A frame is an abstract record; what is kept of its bytes is how many    *)
(* have come.  The frame budget is a free choice here, module RateBudget   *)
(* models it; so is whether a message makes the session above close.       *)
(***************************************************************************)
EXTENDS Integers, Sequences, SequencesExt

CONSTANTS
  Frames,          \* kinds of frames the browser may send: [op, fin, valid, header, len]
  MaskBytes,       \* 4
  MaxOverhead,     \* 14, the longest header with its mask
  MaxFrameBytes,   \* limits.maxFrameBytes
  MaxContinuationFrames, MaxContinuationBytes,
  ParserTimeout,   \* limits.parserTimeoutMs, in steps of the clock
  MaxFrames        \* bound: frames the browser sends

ASSUME ParserAssumption ==
  /\ \A f \in Frames :
       /\ f.op \in {"continuation", "text", "binary", "close", "ping", "pong", "reserved"}
       /\ f.fin \in BOOLEAN
       /\ f.valid \in BOOLEAN     \* masked, and no extension bit
       /\ f.header \in Nat \ {0}  \* bytes up to its length
       /\ f.len \in Nat
       /\ f.header + MaskBytes <= MaxOverhead
  /\ MaskBytes \in Nat /\ MaxOverhead \in Nat /\ MaxFrameBytes \in Nat
  /\ MaxContinuationFrames \in Nat /\ MaxContinuationBytes \in Nat
  /\ ParserTimeout \in Nat \ {0} /\ MaxFrames \in Nat

VARIABLES
  sent,           \* frames of the browser; a frame is referred to by its place
  parsed,         \* how many of them were taken from the buffer and handled
  inBuffer,       \* this.buffer: bytes received after those frames
  fragment,       \* this.fragmentBuffer: places of its frames, << >> for null
  fragmentFrames, fragmentBytes,
  parserTimer, timerAge,  \* whether the deadline is armed, and for how long
  frameAge,       \* how long the frame at the front has been incomplete
  closed, finished, cause, \* cause: why this side closed
  delivered       \* messages given to onMessage

stream  == <<sent, parsed, inBuffer>>
message == <<fragment, fragmentFrames, fragmentBytes>>
clocks  == <<timerAge, frameAge>>
closing == <<closed, finished, cause>>
parserVars == <<stream, message, parserTimer, clocks, closing, delivered>>

ParserInit ==
  /\ sent = << >> /\ parsed = 0 /\ inBuffer = 0
  /\ fragment = << >> /\ fragmentFrames = 0 /\ fragmentBytes = 0
  /\ parserTimer = FALSE /\ timerAge = 0 /\ frameAge = 0
  /\ closed = FALSE /\ finished = FALSE /\ cause = "none"
  /\ delivered = << >>

FrameSize(f) == f.header + MaskBytes + f.len

Total(s) ==
  LET sum[i \in 0..Len(s)] == IF i = 0 THEN 0 ELSE sum[i - 1] + s[i]
  IN  sum[Len(s)]

\* The bytes of the first n frames, and those of the browser that are on their way.
BytesUpTo(n) == Total([i \in 1..n |-> FrameSize(sent[i])])
InFlight == BytesUpTo(Len(sent)) - BytesUpTo(parsed) - inBuffer

IsControl(f) == f.op \in {"close", "ping", "pong", "reserved"}

-----------------------------------------------------------------------------
(* One turn of the loop of #parseFrames, on the state p of the parser:     *)
(* bytes left in the buffer, frames handled, the open message, messages    *)
(* delivered, and why the loop stopped ("no" while it goes on).            *)

Opened(frames, count, bytes) == [frames |-> frames, count |-> count, bytes |-> bytes]
NoMessage == Opened(<< >>, 0, 0)

TooLong(f) == f.len > MaxFrameBytes

\* Checked as soon as the header is there, before the rest of the frame.
BadHeader(f) == ~f.valid \/ (IsControl(f) /\ (~f.fin \/ f.len > 125))

\* Mutated form of OverContinuation: a fragment is measured against the frame limit only.
OverFrameLimit(frames, bytes) == bytes > MaxFrameBytes

\* #checkContinuationBudget and #checkContinuationBytes.
OverContinuation(frames, bytes) ==
  frames > MaxContinuationFrames \/ bytes > MaxContinuationBytes \/ bytes > MaxFrameBytes

Stopped(p, why) == [p EXCEPT !.stop = why]
Keeps(p, o) == [p EXCEPT !.open = o]

\* A message goes up; `quits` says that the session above closes because of it.
Deliver(p, m, quits) ==
  Stopped([p EXCEPT !.out = Append(@, m)], IF quits THEN "session" ELSE "no")

HandleBinary(p, f, i, quits) ==
  IF p.open.frames # << >> \/ (~f.fin /\ OverContinuation(0, f.len)) THEN Stopped(p, "error")
  ELSE IF f.fin THEN Deliver(p, <<i>>, quits)
  ELSE Keeps(p, Opened(<<i>>, 0, f.len))

HandleContinuation(p, f, i, quits) ==
  LET more == Opened(Append(p.open.frames, i), p.open.count + 1, p.open.bytes + f.len)
  IN  IF p.open.frames = << >> \/ OverContinuation(more.count, more.bytes)
      THEN Stopped(p, "error")
      ELSE IF f.fin THEN Deliver(Keeps(p, NoMessage), more.frames, quits)
      ELSE Keeps(p, more)

HandleFrame(p, f, i, quits) ==
  IF f.op \in {"ping", "pong"}    THEN p
  ELSE IF f.op = "binary"         THEN HandleBinary(p, f, i, quits)
  ELSE IF f.op = "continuation"   THEN HandleContinuation(p, f, i, quits)
  ELSE Stopped(p, IF f.op = "close" THEN "close frame" ELSE "error")

\* A frame has come whole and leaves the buffer.
Shift(p, i) == [[p EXCEPT !.left = @ - FrameSize(sent[i])] EXCEPT !.parsed = i]

\* Mutated form of ParseFrame: the loop goes on after a message closed the session.
ParseFrameOn(p, i, overBudget, quitAt) ==
  LET f == sent[i]
      q == HandleFrame(Shift(p, i), f, i, i = quitAt)
  IN  IF p.stop \notin {"no", "session"} THEN p
      ELSE IF p.left < FrameSize(f) THEN (IF p.stop = "no" THEN Stopped(p, "wait") ELSE p)
      ELSE IF p.stop = "session" THEN Stopped(q, "session") ELSE q

\* Frame i: overBudget is the frame the budget refuses, quitAt the one whose
\* message closes the session.
ParseFrame(p, i, overBudget, quitAt) ==
  LET f == sent[i]
  IN  IF p.stop # "no"                    THEN p
      ELSE IF p.left < f.header           THEN Stopped(p, "wait")
      ELSE IF BadHeader(f) \/ TooLong(f)  THEN Stopped(p, "error")
      ELSE IF p.left < FrameSize(f)       THEN Stopped(p, "wait")
      ELSE IF i = overBudget              THEN Stopped(Shift(p, i), "error")
      ELSE HandleFrame(Shift(p, i), f, i, i = quitAt)

\* The state after every frame the browser sent, which ends with the loop's.
ParseFrames(bytes, overBudget, quitAt) ==
  LET after[i \in parsed..Len(sent)] ==
        IF i = parsed
        THEN [left |-> bytes, parsed |-> parsed,
              open |-> Opened(fragment, fragmentFrames, fragmentBytes),
              out |-> delivered, stop |-> "no"]
        ELSE ParseFrame(after[i - 1], i, overBudget, quitAt)
  IN  after[Len(sent)]

-----------------------------------------------------------------------------
(* close() and #finish(): no timer is left.                                *)
CloseHere(why) ==
  /\ closed' = TRUE /\ finished' = TRUE /\ cause' = why
  /\ parserTimer' = FALSE /\ timerAge' = 0

BrowserSends(f) ==
  /\ Len(sent) < MaxFrames
  /\ sent' = Append(sent, f)
  /\ UNCHANGED <<parsed, inBuffer, message, parserTimer, clocks, closing, delivered>>

\* Mutated form of SetParserDeadline: every chunk starts the deadline anew.
RestartParserDeadline(waiting) == parserTimer' = waiting /\ timerAge' = 0

\* Mutated form of SetParserDeadline: the timer is not cleared once all is there.
KeepParserDeadline(waiting) ==
  /\ parserTimer' = (parserTimer \/ waiting)
  /\ timerAge' = IF parserTimer THEN timerAge ELSE 0

\* #setParserDeadline: an armed timer is left as it is, for whichever frame waits.
SetParserDeadline(waiting) ==
  /\ parserTimer' = waiting
  /\ timerAge' = IF waiting /\ parserTimer THEN timerAge ELSE 0

\* A chunk that does not fit the buffer while a frame waits.
Overflows(n) == parserTimer /\ inBuffer + n > MaxFrameBytes + MaxOverhead

\* A frame that waits in a buffer larger than any frame can be.
Overfull(p, waiting) == waiting /\ p.left > MaxFrameBytes + MaxOverhead

\* What #onData makes of the state p the loop ended in: an error closes the
\* connection; a Close frame marks it closed, without the onClose callback.
AfterLoop(p) ==
  LET waiting == p.left > 0 /\ p.stop \in {"no", "wait"}
      why == IF Overfull(p, waiting) THEN "error" ELSE p.stop
  IN  /\ parsed' = p.parsed /\ inBuffer' = p.left
      /\ fragment' = p.open.frames
      /\ fragmentFrames' = p.open.count /\ fragmentBytes' = p.open.bytes
      /\ delivered' = p.out
      /\ frameAge' = IF waiting /\ p.parsed = parsed THEN frameAge ELSE 0
      /\ \/ why \in {"no", "wait"} /\ SetParserDeadline(waiting) /\ UNCHANGED closing
         \/ /\ why = "close frame"
            /\ closed' = TRUE /\ cause' = why
            /\ parserTimer' = FALSE /\ timerAge' = 0
            /\ UNCHANGED finished
         \/ why \in {"session", "error"} /\ CloseHere(why)

\* #onData for a chunk of n bytes: it does not fit, or the frames are handled
\* while they are complete and nothing closed the connection.
Data(n) ==
  /\ ~closed /\ n <= InFlight
  /\ \/ /\ Overflows(n)
        /\ CloseHere("overflow")
        /\ UNCHANGED <<stream, message, frameAge, delivered>>
     \/ /\ ~Overflows(n)
        /\ \E overBudget, quitAt \in parsed..Len(sent) :  \* parsed itself: none
             AfterLoop(ParseFrames(inBuffer + n, overBudget, quitAt))
        /\ UNCHANGED sent

ParserDeadline ==
  /\ parserTimer /\ timerAge = ParserTimeout
  /\ CloseHere("deadline")
  /\ UNCHANGED <<stream, message, frameAge, delivered>>

\* Socket idle, a full send buffer, or the session above: closed from here.
Close ==
  /\ ~closed
  /\ CloseHere("other")
  /\ UNCHANGED <<stream, message, frameAge, delivered>>

\* The socket's 'error' or 'close' event.
SocketClosed ==
  /\ ~finished
  /\ closed' = TRUE /\ finished' = TRUE
  /\ parserTimer' = FALSE /\ timerAge' = 0
  /\ UNCHANGED <<stream, message, frameAge, cause, delivered>>

\* Time passes; a timer that is due fires first.
ParserElapse ==
  /\ ~closed /\ parserTimer /\ timerAge < ParserTimeout
  /\ timerAge' = timerAge + 1 /\ frameAge' = frameAge + 1
  /\ UNCHANGED <<stream, message, parserTimer, closing, delivered>>

ParserNext ==
  \/ \E f \in Frames : BrowserSends(f)
  \/ \E n \in 1..InFlight : Data(n)
  \/ ParserDeadline \/ Close \/ SocketClosed \/ ParserElapse

ParserSpec == ParserInit /\ [][ParserNext]_parserVars

-----------------------------------------------------------------------------
(* Properties.                                                             *)

\* The places of the data frames among the first n of these frames.
DataFrames(frames, n) ==
  LET among[i \in 0..n] ==
        IF i = 0 THEN << >>
        ELSE IF frames[i].op \in {"binary", "continuation"} THEN Append(among[i - 1], i)
        ELSE among[i - 1]
  IN  among[n]

\* However the frames are cut into chunks and mixed with control frames, the
\* messages are the data frames in the order they were sent, each used once:
\* a message starts with a binary frame, goes on with continuations and ends
\* with the first final frame; and the frame that closes the connection, by its
\* message or as a Close frame, is the last one handled, whatever came behind it
\* in the same chunk (#handleFrame, #parseFrames).
MessagesWhole ==
  /\ cause # "error" => FlattenSeq(delivered) \o fragment = DataFrames(sent, parsed)
  /\ \A m \in ToSet(delivered) \cup {fragment} :
       \A k \in 1..Len(m) : sent[m[k]].op = IF k = 1 THEN "binary" ELSE "continuation"
  /\ \A m \in ToSet(delivered) : \A k \in 1..Len(m) : sent[m[k]].fin <=> k = Len(m)
  /\ \A k \in 1..Len(fragment) : ~sent[fragment[k]].fin
  /\ cause = "session" => Last(Last(delivered)) = parsed
  /\ cause = "close frame" => sent[parsed].op = "close"

\* What an open connection holds between two chunks is bounded: an unfinished
\* message within all three limits, with counters that say what is held; and less
\* than one frame, whose header, if it is there, is well formed and within the
\* limit, so nothing is collected for a frame that will be refused
\* (#checkContinuationBudget, #checkContinuationBytes, #parseFrames, #onData).
MemoryBounded ==
  ~closed =>
    /\ fragmentBytes = Total([k \in DOMAIN fragment |-> sent[fragment[k]].len])
    /\ fragmentBytes <= MaxContinuationBytes /\ fragmentBytes <= MaxFrameBytes
    /\ fragmentFrames <= MaxContinuationFrames
    /\ fragment # << >> => fragmentFrames = Len(fragment) - 1
    /\ inBuffer > 0 =>
         LET f == sent[parsed + 1]
         IN  /\ inBuffer < FrameSize(f)
             /\ inBuffer >= f.header => f.valid /\ f.len <= MaxFrameBytes

\* The deadline runs exactly while an open connection waits for the rest of a
\* frame; a closed one has no timer, whichever way it closed.
DeadlineWhileWaiting == parserTimer <=> ~closed /\ inBuffer > 0

\* A client that drips one frame byte by byte does not extend the deadline
\* (gateway.ts:774 "is not extended by a client that drips one partial frame").
NoFrameOverstays == frameAge <= ParserTimeout

=============================================================================

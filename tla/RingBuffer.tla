------------------------------ MODULE RingBuffer ------------------------------
(***************************************************************************)
(* The receive path of one connection, byte by byte, with the senders of   *)
(* module SendMessage at the other end: handle_clint_data copies what recv *)
(* returned into the ring of its ClientBuffer, and the parser              *)
(* (extractMessageCircular, called by processBuffer) cuts messages out of  *)
(* it.  The constants stand for those of Protocol.h and are scaled down    *)
(* together: a byte is a digit in base Radix, the length field has         *)
(* HeaderSize digits, most significant first.                              *)
(***************************************************************************)
EXTENDS SendMessage

CONSTANTS HeaderSize,   \* PROTOCOL_HEADER_SIZE
          MaxMessage,   \* PROTOCOL_MAX_MESSAGE_SIZE
          BufferSize,   \* PROTOCOL_MAX_RECV_BUFFER_SIZE
          ChunkSize,    \* BUF_SIZE, the most one recv returns
          MayFill       \* whether what is buffered may reach BufferSize

ASSUME RingBufferAssumption ==
    /\ HeaderSize = 2 /\ MaxMessage \in 1..(Radix * Radix - 1)
    /\ BufferSize \in Nat /\ BufferSize > HeaderSize + MaxMessage
    /\ ChunkSize \in 1..BufferSize /\ MayFill \in BOOLEAN
    /\ \A m \in Messages : Len(m) \in 1..MaxMessage

VARIABLES
    buffer,     \* ClientBuffer::buffer
    head, tail, \* ClientBuffer::head, tail
    delivered,  \* messages pushed to the worker pool
    closed      \* close_clint has been called

ring == <<buffer, head, tail>>
ringVars == <<sender, ring, delivered, closed>>
others == <<sent, frame, torn>>   \* what receiving leaves alone

RingInit ==
    /\ SendInit
    /\ buffer = [i \in 0..(BufferSize - 1) |-> 0] /\ head = 0 /\ tail = 0
    /\ delivered = <<>> /\ closed = FALSE

Senders == ~closed /\ SendStep /\ UNCHANGED <<ring, delivered, closed>>

-----------------------------------------------------------------------------
(* ClientBuffer::size *)
Size == (tail - head + BufferSize) % BufferSize

Slot(i) == (head + i) % BufferSize   \* where the i-th buffered byte is

(* recv returned the next n bytes, and the ring has room for them. *)
Recv(n) ==
    /\ ~closed /\ n <= Len(wire)
    /\ n <= BufferSize - Size
    /\ MayFill \/ Size + n < BufferSize
    /\ buffer' = [i \in DOMAIN buffer |->
                    LET k == (i - tail + BufferSize) % BufferSize
                    IN  IF k < n THEN wire[k + 1] ELSE buffer[i]]
    /\ tail' = (tail + n) % BufferSize
    /\ wire' = SubSeq(wire, n + 1, Len(wire))
    /\ UNCHANGED <<others, head, delivered, closed>>

(* It has not: the connection is closed. *)
Overflow(n) ==
    /\ ~closed /\ n <= Len(wire)
    /\ n > BufferSize - Size
    /\ closed' = TRUE
    /\ UNCHANGED <<sender, ring, delivered>>

-----------------------------------------------------------------------------
(* The length field may straddle the end of the ring. *)
MsgLen == Radix * buffer[head] + buffer[Slot(1)]

HasHeader  == Size >= HeaderSize
BadLength  == MsgLen = 0 \/ MsgLen > MaxMessage

HasMessageMore == Size > HeaderSize + MsgLen   \* mutant: off by one

HasMessage == Size >= HeaderSize + MsgLen

(* Invalid length: one byte is skipped (processBuffer). *)
SkipByte ==
    /\ ~closed /\ HasHeader /\ BadLength
    /\ head' = Slot(1)
    /\ UNCHANGED <<sender, buffer, tail, delivered, closed>>

(* Mutant: the payload is copied without regard to the end of the ring. *)
ExtractFlat ==
    /\ ~closed /\ HasHeader /\ ~BadLength /\ HasMessage
    /\ delivered' = Append(delivered,
                      [i \in 1..MsgLen |->
                         IF head + HeaderSize + i - 1 < BufferSize
                         THEN buffer[head + HeaderSize + i - 1] ELSE 0])
    /\ head' = Slot(HeaderSize + MsgLen)
    /\ UNCHANGED <<sender, buffer, tail, closed>>

(* A complete message: its payload, in two pieces where it straddles the end. *)
Extract ==
    /\ ~closed /\ HasHeader /\ ~BadLength /\ HasMessage
    /\ delivered' = Append(delivered, [i \in 1..MsgLen |-> buffer[Slot(HeaderSize + i - 1)]])
    /\ head' = Slot(HeaderSize + MsgLen)
    /\ UNCHANGED <<sender, buffer, tail, closed>>

Parse == SkipByte \/ Extract

RingNext == \/ Senders
            \/ \E n \in 1..ChunkSize : Recv(n) \/ Overflow(n)
            \/ Parse

Receive == \E n \in 1..ChunkSize : Recv(n)
Sends(t) == ~closed /\ (Progress(t) \/ Retry(t) \/ GiveUp(t))
                    /\ UNCHANGED <<ring, delivered, closed>>

(* The parser is called again for every arrival (module ParserPool).         *)
RingSpec == RingInit /\ [][RingNext]_ringVars
RingFairSpec == /\ RingSpec /\ WF_ringVars(Receive) /\ WF_ringVars(Parse)
                /\ \A t \in Threads : WF_ringVars(Sends(t))

-----------------------------------------------------------------------------
RingTypeOK ==
    /\ wire \in Seq(0..(Radix - 1)) /\ sent \in Seq(Messages)
    /\ buffer \in [0..(BufferSize - 1) -> 0..(Radix - 1)]
    /\ head \in 0..(BufferSize - 1) /\ tail \in 0..(BufferSize - 1)
    /\ closed \in BOOLEAN

(* The senders and their retries, the ring, its wrap-arounds and the         *)
(* chunking implement the stream of frames: every message delivered is the   *)
(* next one sent, and every one sent is delivered, up to a frame that a      *)
(* sender gave up or into which another thread wrote.                        *)
Stream == INSTANCE FrameStream
StreamSpec == Stream!Spec
===============================================================================

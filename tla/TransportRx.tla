---------------------------- MODULE TransportRx ----------------------------
(***************************************************************************)
(* The receive half of src/src/transport.c: the UART interrupt calls       *)
(* whad_transport_data_received while the main loop is anywhere inside     *)
(* whad_transport_get_message.  The interrupt handler runs to completion   *)
(* and is one step; get_message is cut wherever it reads or moves the ring.*)
(***************************************************************************)
EXTENDS RingBuf

CONSTANTS
  Chunks,         \* byte sequences one data_received call may bring
  MaxStream,      \* bound: bytes the host sends in a behaviour
  DestSizes       \* values of *p_size get_message may be called with

HeaderSize == 4                           \* WHAD_TRANSPORT_FRAME_HEADER_SIZE
\* Faulty variant: the header is not counted.
MaxEncoded_NoHeader == RingCapacity
MaxEncoded == RingCapacity - HeaderSize   \* WHAD_MAX_ENCODED_MESSAGE_SIZE

ASSUME RxAssumption ==
  /\ RingSize > HeaderSize + 1
  /\ Byte \subseteq 0 .. 255
  /\ Chunks \subseteq Seq(Byte)
  /\ MaxStream \in Nat
  /\ DestSizes \subseteq Nat

VARIABLES
  rx,         \* gw_transport.rx_buf
  sent,       \* how many bytes the host has sent
  received,   \* the bytes the ring accepted, in order
  pc,         \* where get_message is
  dest,       \* *p_size on entry, the size of the caller's buffer
  header,     \* local header[4]
  buffer,     \* what get_message has written to p_buffer
  result,     \* result code and *p_size of the last call
  delivered   \* payloads handed to the caller, in order

isrVars == <<sent, received>>
vars == <<rx, isrVars, pc, dest, header, buffer, result, delivered>>

Init ==
  /\ rx = EmptyRing /\ sent = 0 /\ received = <<>>
  /\ pc = "idle" /\ dest = 0
  /\ header = <<>> /\ buffer = <<>>
  /\ result = <<"SUCCESS", 0>>
  /\ delivered = <<>>
-----------------------------------------------------------------------------
\* whad_transport_data_received: bytes are pushed until one is refused; the
\* ones before it stay in the ring, it and the ones after it are lost.
DataReceived(chunk) ==
  LET room == RingFree(rx)
      kept == IF Len(chunk) <= room THEN chunk ELSE SubSeq(chunk, 1, room)
  IN  /\ sent + Len(chunk) <= MaxStream
      /\ sent' = sent + Len(chunk)
      /\ received' = received \o kept
      /\ rx' = PushAll(rx, kept)
      /\ UNCHANGED <<pc, dest, header, buffer, result, delivered>>
-----------------------------------------------------------------------------
(* whad_transport_get_message.                                             *)

Return(code, n) == pc' = "idle" /\ result' = <<code, n>>

Call(n) ==
  /\ pc = "idle"
  /\ pc' = "check" /\ dest' = n
  /\ header' = <<>> /\ buffer' = <<>>
  /\ UNCHANGED <<rx, isrVars, result, delivered>>

\* Fewer bytes than a header: nothing to process.
CheckSize ==
  /\ pc = "check"
  /\ IF RingUsed(rx) >= HeaderSize
     THEN pc' = "header" /\ UNCHANGED result
     ELSE Return("SUCCESS", 0)
  /\ UNCHANGED <<rx, isrVars, dest, header, buffer, delivered>>

ReadHeader ==
  /\ pc = "header"
  /\ IF CanCopy(rx, HeaderSize)
     THEN header' = Copy(rx, HeaderSize) /\ pc' = "parse" /\ UNCHANGED result
     ELSE Return("ERROR", 0) /\ UNCHANGED header
  /\ UNCHANGED <<rx, isrVars, dest, buffer, delivered>>

HasMagic == header[1] = 172 /\ header[2] = 190        \* 0xAC 0xBE
Size == header[3] + 256 * header[4]

\* Faulty variant: always drop the two bytes that were read.
BadMagic_Two ==
  /\ pc = "parse" /\ ~HasMagic
  /\ rx' = Skip(rx, 2)
  /\ Return("SUCCESS", 0)
  /\ UNCHANGED <<isrVars, dest, header, buffer, delivered>>

\* No magic: drop one byte if the second could start a header, else two.
BadMagic ==
  /\ pc = "parse" /\ ~HasMagic
  /\ rx' = Skip(rx, IF header[2] = 172 THEN 1 ELSE 2)
  /\ Return("SUCCESS", 0)
  /\ UNCHANGED <<isrVars, dest, header, buffer, delivered>>

\* Faulty variant: drop the whole header.
BadLength_Header ==
  /\ pc = "parse" /\ HasMagic /\ Size > MaxEncoded
  /\ rx' = Skip(rx, HeaderSize)
  /\ Return("ERROR", 0)
  /\ UNCHANGED <<isrVars, dest, header, buffer, delivered>>

\* A length no message may have: drop one byte.
BadLength ==
  /\ pc = "parse" /\ HasMagic /\ Size > MaxEncoded
  /\ rx' = Skip(rx, 1)
  /\ Return("ERROR", 0)
  /\ UNCHANGED <<isrVars, dest, header, buffer, delivered>>

\* The caller's buffer is too small: report the size, consume nothing.
TooSmall ==
  /\ pc = "parse" /\ HasMagic /\ Size <= MaxEncoded
  /\ dest < Size
  /\ Return("ERROR", Size)
  /\ UNCHANGED <<rx, isrVars, dest, header, buffer, delivered>>

Incomplete ==
  /\ pc = "parse" /\ HasMagic /\ Size <= MaxEncoded
  /\ dest >= Size /\ RingUsed(rx) < Size + HeaderSize
  /\ Return("SUCCESS", 0)
  /\ UNCHANGED <<rx, isrVars, dest, header, buffer, delivered>>

\* Faulty variant: the header is counted as payload.
SkipHeader_Early ==
  /\ pc = "parse" /\ HasMagic /\ Size <= MaxEncoded
  /\ dest >= Size /\ RingUsed(rx) >= Size
  /\ rx' = Skip(rx, HeaderSize)
  /\ pc' = "copy"
  /\ UNCHANGED <<isrVars, dest, header, buffer, result, delivered>>

SkipHeader ==
  /\ pc = "parse" /\ HasMagic /\ Size <= MaxEncoded
  /\ dest >= Size /\ RingUsed(rx) >= Size + HeaderSize
  /\ rx' = Skip(rx, HeaderSize)
  /\ pc' = "copy"
  /\ UNCHANGED <<isrVars, dest, header, buffer, result, delivered>>

CopyPayload ==
  /\ pc = "copy"
  /\ buffer' = IF CanCopy(rx, Size) THEN Copy(rx, Size) ELSE buffer
  /\ pc' = "skip"
  /\ UNCHANGED <<rx, isrVars, dest, header, result, delivered>>

SkipPayload ==
  /\ pc = "skip"
  /\ rx' = IF CanSkip(rx, Size) THEN Skip(rx, Size) ELSE rx
  /\ delivered' = Append(delivered, buffer)
  /\ Return("SUCCESS", Size)
  /\ UNCHANGED <<isrVars, dest, header, buffer>>
-----------------------------------------------------------------------------
GetMessage == \/ \E n \in DestSizes : Call(n)
              \/ CheckSize \/ ReadHeader
              \/ BadMagic \/ BadLength \/ TooSmall \/ Incomplete
              \/ SkipHeader \/ CopyPayload \/ SkipPayload

Next == \/ \E chunk \in Chunks : DataReceived(chunk)
        \/ GetMessage

Spec == Init /\ [][Next]_vars

\* The main loop calls get_message over and over, and does not keep calling it
\* with a buffer smaller than a message; the host owes nothing.
FairSpec ==
  /\ Spec /\ WF_vars(GetMessage)
  /\ SF_vars(\E n \in DestSizes : n >= MaxEncoded /\ Call(n))
-----------------------------------------------------------------------------
\* Every variable keeps its type: head and tail stay inside rx_buf, and
\* get_message never copies more bytes than a frame or a header may hold.
TypeOK ==
  /\ rx \in Ring
  /\ sent \in 0 .. MaxStream
  /\ received \in Seq(Byte) /\ Len(received) <= sent
  /\ pc \in {"idle", "check", "header", "parse", "copy", "skip"}
  /\ dest \in DestSizes \cup {0}
  /\ header \in Seq(Byte) /\ Len(header) \in {0, HeaderSize}
  /\ buffer \in Seq(Byte) /\ Len(buffer) <= MaxEncoded
  /\ result \in {"SUCCESS", "ERROR"} \X (0 .. MaxEncoded)
  /\ delivered \in Seq(Seq(Byte))

\* The payload written through p_buffer is the length the header announced and
\* fits the buffer the caller said it had, even though interrupts add bytes to
\* the ring between the length test, the copy and the skip.
PayloadFits ==
  /\ pc = "copy" => Size <= dest /\ CanCopy(rx, Size)
  /\ pc = "skip" => Len(buffer) = Size /\ Len(buffer) <= dest /\ CanSkip(rx, Size)
=============================================================================

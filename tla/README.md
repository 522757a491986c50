# A TLA+ development of whad-lib

whad-lib is the firmware side of the WHAD protocol: a C library (`src/src`,
`src/inc`) that frames NanoPb messages over a UART, a set of constructors and
parsers for the messages of each radio domain, and a C++ layer of message
classes over them.  This directory holds TLA+ modules translated from that code,
the TLC configurations that check them on small instances, and TLAPS proofs of
what holds for every instance.

The documentation's communication loop (`src/docs/source/transport.rst`, lines
115-142) is the environment the transport is checked in: a main loop that retries a
pending message, polls for a received one and drains the transmit queue, with
UART interrupts falling anywhere in between.

## 1. The system

| Component | Source | State it keeps | Operations | Modules |
|---|---|---|---|---|
| ring buffer | `src/src/ringbuf.c` | `head`, `tail`, `data[]` | init, sizes, push, pull, copy, skip | `RingBuf`, `RingBufMachine`, `ByteFifo` |
| transport, transmit | `src/src/transport.c` | `gw_transport.tx_buf`, `.state`, `.config`, the static `tx_buf` of `send_pending` | `send_message`, `wait_tx_space`, `send_pending`, `data_sent` | `TransportTx`, `FrameStream` |
| transport, receive | `src/src/transport.c` | `gw_transport.rx_buf` | `data_received`, `get_message` | `TransportRx`, `FrameDecoder`, `FrameSink`, `Framing`, `Link` |
| message layer | `src/src/whad.c` | static encode and decode buffers, the heap block a message may own | `send_message`, `get_message`, `free_message_resources`, type and domain tables | `WhadSend`; `Exchange`, `Protocol` |
| C++ wrapper | `src/src/cpp/message.cpp`, `whad.cpp` | a `Message *` and `m_ownsMessage` | construction, borrowing, implicit copy, `getRaw`/`pack`, `disown`, destruction, `send` | `NanoPbMsg`; `ObjectExchange` |
| generic messages, discovery | `src/src/generic.c`, `discovery.c` | none (reads the firmware's capability table) | constructors, parsers, two table walks, encoding callbacks | `CoreCodec` |
| domain codecs | `src/src/domains/{phy,ble,dot15d4,esb,unifying}.c` | none, but for the list of a PHY message | constructors, parsers | `PhyCodec`, `BleCodec`, `Dot15d4Codec`, `EsbCodec`, `UnifyingCodec`, over `Codec` |
| board codec | `src/src/domains/board.c` | none | pack, unpack, one validator per payload | `BoardCodec` |
| C++ message classes | `src/src/cpp/domains`, `generic`, `discovery` | members copied into or out of the `Message` | constructors, accessors, `pack`, `unpack` | `CoreClasses` ... `BoardClasses`, over `Classes` |
| generated code, nanopb | `src/whad/protocol`, `src/nanopb` (empty submodule) | none | encode, decode | external |

How they interact.  The firmware calls a constructor, which fills a `Message`, and
the message layer, which encodes it into a static buffer and calls
`whad_transport_send_message`; that pushes a four-byte header and the payload into
the transmit ring.  `whad_transport_send_pending` copies a chunk of the ring into a
static buffer and calls the firmware's `pfn_data_send_buffer`; when the UART is done
its interrupt (or the callback itself, if it is synchronous) calls
`whad_transport_data_sent`.  In the other direction the receive interrupt calls
`whad_transport_data_received`, which fills the receive ring, the main loop polls
`whad_get_message`, which decodes what `whad_transport_get_message` delivers, and
the type of the message chooses its parser, or its class.  There is no lock and no
masking of interrupts anywhere in the library: the rings are shared between the
main loop and the interrupts as plain memory.

What is hard, and what makes each component correct:

- *ring buffer* - wrap-around in head, tail and in both halves of a copy, one
  slot kept free.  Correct: it is a FIFO of `RingSize - 1` bytes.
- *transmit* - interrupts between any two steps of a send or of a drain; a room
  test used many pushes later; a static buffer the UART reads while the loop runs;
  a roll-back that works on the other end of the queue; a state that must return
  to idle.  Correct: accepted frames go out whole, once, in order; a refused one
  leaves nothing; nothing waits for ever.
- *receive* - bytes arriving during `get_message`; cut, noisy and oversized
  frames; resynchronisation by one or two bytes.  Correct: what is delivered is
  what a reference decoder finds in the accepted bytes, inside the caller's buffer.
- *message layer and C++ wrapper* - who frees a message, on which result.
  Correct: every block has one owner, and no block is used after it is gone.
- *codecs* - a union that is never cleared, so that a part nobody assigns is what the
  memory held; lengths at, and over, a capacity; table walks with two different ends;
  32-bit arithmetic on timestamps; a parser and a constructor written apart.
  Correct: an accepted call sends what it was asked to, a parser reports what was
  received, the two agree on what is legal, a refused call sends nothing.
- *message classes* - virtual `pack()` and `unpack()` around the C functions, in
  constructors, through copies.  Correct: an object sends what it was built from, an
  object made from a message holds that message, and sent on it is the same message.

The complete list of hazards, each at its line and with the properties that
cover it or the reason none does, is in `PROJECT.json`.

## 2. The modules and the code

### RingBuf, RingBufMachine, ByteFifo

`RingBuf` holds the operators of `ringbuf.c` on a record `[head, tail, data]`.  A C
function that may refuse is a test (`CanPush`, `CanCopy` ...) and the ring it
leaves when the test passes.  `Copy` keeps the two `memcpy` calls apart; `PushAll` is the
loop of pushes of an interrupt handler, which nothing interrupts.  All
indices are kept modulo `RingSize`, as in the code; sizes are `int` there and never
reach the limits of an `int`.  `RingBufMachine` is a client that makes any call with any
argument, `ByteFifo` the queue the header file promises, with the same result
codes; `Contents` is the refinement mapping.

### TransportTx

A byte is `<<m, i>>`, the i-th byte of the frame of message m, so that a lost,
repeated or foreign byte is visible; the values of bytes do not matter here.
The main loop is cut between every two accesses to shared state: the two room
tests of `wait_tx_space` (`Wait`, `Rewait`) and its test of the state
(`WaitDrain`), the three parts of each `whad_ringbuf_push` (the test, with the head read
for it: `PushTest`; the byte: `PushStore`; the head: `PushHead`), the roll-back (`Rollback`), and
in `send_pending` the test of the state (`SpBusy`, `SpNothing`, `SpSize`), the copy (`SpCopy`), the
assignment of `SENDING` with the callback (`SpStart`) and the two parts of the skip (the
test: `SpSkip`; the tail: `SpTail`), which the roll-back shares.  `seen` is the head or the
tail a push or a skip has read; as both are plain members, a compiler may keep that value or
load it again, which `Reread` and the choice in `PushStore` leave open.
Interrupt handlers run to completion and are one step each: the end of a
transfer (`DataSent`), a `send_pending` (`IsrSendPending`, when `IsrDrains`) and a
whole `send_message` (`IsrSend`, `IsrMsgs` of them).  The UART reads the static buffer
byte by byte (`UartByte`).  The callback is absent, synchronous (it transmits and
calls `data_sent` before it returns, as in the tests) or asynchronous.

So an interrupt can fall inside a push or a skip.  A second sender that pushes between the
store and the head of another push writes the same slot, and its own head is overwritten; a
drain between the two halves of a skip moves the tail past the head.  Both happen in the
model when `IsrMsgs` or `IsrDrains` allow them, and the properties name the callers they
assume.  Two things stay one step: `whad_ringbuf_copy`, so that a drain inside the copy
itself is not modelled (the properties about what is copied assume that no interrupt
drains), and `SpStart`, which holds the assignment of `SENDING` and the start of the transfer
together.

Two variables are histories: `accepted`, the messages whose `send_message` returned
`WHAD_SUCCESS`, and `owed`, the bytes of their frames in the order of acceptance.
`FrameStream` is the abstract specification over `owed` and `wire`: a frame is
accepted whole, and an ever longer prefix of what is owed has been sent.  `QueueShifts` and
`NoOverlap` speak of one step of the code, so they stand in `TransportTx` itself, where the
proofs reach them.

### TransportRx, FrameDecoder, FrameSink, Framing, Link

Bytes have their values here (the magic, the length).  `DataReceived` is the
interrupt: it keeps the bytes that fit and loses the rest.  `get_message` is cut
at its size test, the copy of the header, the decision, and the header skip,
payload copy and payload skip of a complete frame.  Of this ring the interrupt moves only the
head and `get_message` only the tail, so that the test and the move of a skip are one step
without loss.  Every return path is an action: bad magic
(one byte or two dropped), a length no message may have, a caller's buffer too
small, an incomplete frame, a delivered one.  `FrameDecoder` is the reference: a decoder
that sees the whole stream at once, written as a recursive function of the place reached
so that it can be reasoned about; `MCTransportRx` gives it the streams to decode.

`FrameSink` is the abstract specification: the payloads found in what the host has sent are
never taken back, and they are handed over one at a time, each once and in order.  `Sink`
in `FrameDecoder` maps `found` to what the reference finds in the accepted bytes: a
`DataReceived` that completes frames is a `Find`, a `SkipPayload` is a `Deliver`, and every other
step of `get_message` is a stutter.

`Framing` is the other end of the line: the header `whad_transport_send_message` writes
(`Header`), the frame of a payload (`Encoded`), and the bytes of a line, which is a sequence of
payloads with noise before each (`Framed`).  The noise is `Quiet`: it does not hold the first
byte of a header, since noise that does can look like one and swallow the frame
after it, in the code as in the reference.  The payloads are `Sendable`: as long as `send_message`
accepts, and shorter than 65536 bytes, since the header keeps two bytes of the length
(`WHAD_RINGBUF_MAX_SIZE` is 1024, so the bound excludes nothing there).
`LinesArrive` compares what was put on a line with what `get_message` delivers, so that the two
halves are checked against each other and not against a decoder alone.  `Link` joins a
sender that keeps the promise of `FrameStream` and the receive half; the line may be slow, and
`LineOrder` says that what the ring accepts is what was sent, in order.

### WhadSend

`whad_send_message` on the message that owns a heap block, the list of supported
frequencies of `phy.c`.  The three results differ in who owns the list
afterwards: it is freed before the transport is asked, so both `WHAD_SUCCESS` and
`WHAD_RINGBUF_FULL` have freed it and `WHAD_ERROR` (a failed encoding) has not.
`Rebuilds` tells a firmware that constructs a refused message again from one
that hands in the same `Message`, as the documented loop does.  The transport
below is a queue of `QueueCap` messages, which messages without a list (`SendOther`) share.
The encoder's callback stops at the first range with a zero bound (`Stops`, `phy.c:40`),
where the comment at `phy.c:1155` has only {0,0} end the list; `AnnouncedToZero` says what the
host is told of any list: the ranges before the first such one.

### NanoPbMsg

Wrappers are automatic objects or nested `new`/`delete`, hence a stack.  Each is a
pointer, `m_ownsMessage`, and whether its class fills the `Message` in `pack()` (most
domains) or in its constructor (BLE).  Domain wrappers take a `NanoPbMsg &`
(`FromReference`) or a `NanoPbMsg` by value (`FromValue`, where an implicit copy is made
and destroyed); `send` takes its argument by value (`SendValue`; `whad.cpp:5` defines it as
`::send`, `whad.hpp:34` declares `whad::send`).  `Disown` clears the flag of any owning wrapper,
at any time, and does nothing else; whoever the `Message` was handed to may release it from
then on (`QueueRelease`).  Two constants are about the firmware.  `CopiesOwned` is whether it
copies wrappers that own their message; `UsesGiven` whether it goes on using a `Message`
after handing it away, which nothing in `disown()` prevents (`given` remembers it, and `MayUse`
is the guard).  Left out: a `calloc` that fails, and the static pool compiled in for one board.

### Codec, the codec modules, Protocol

The constructors and parsers of the 169 messages do the same few things, so `Codec` says once what a
constructor does to a `Message` (`Refused`, `Failed`, `Constructed`), what
`pb_encode` and `pb_decode` do to it (`Encodable`, `Transmitted`) and what a parser
does (`Rejected`, `Parsed`), as functions of a *schema*.  A codec module is the
table of the schemas of one source file: for each message the tag written and its
fields, and for each field what that code does with it.

| In a schema | Stands for |
|---|---|
| `lens`, `wider` | the sizes the type of the argument can express, and those only the wire can |
| `opt`, `absent` | there is a `has_` flag; what is assigned when the argument is not given |
| `writes` | the parts (flag, length, contents) assigned for each size |
| `cuts`, `wraps`, `spoils` | sizes cut down to the capacity, stored as another value, or stored with wrong contents |
| `under` | the fields whose contents, at full size, are written over this one |
| `refuses`, `fails`, `early` | sizes refused before the tag is written, or after, and what is assigned by then |
| `unless` | the optional field whose presence skips those checks |
| `bounded` | `pb_encode` fails over the capacity |
| `reads`, `blank`, `strays` | the parts the parser reads, what the caller finds otherwise, reading at another field's offset |
| `rejects`, `checked` | sizes the parser refuses; whether it tests the tag |

A size is what the code tells apart: nothing, something, exactly the capacity (or
the last legal value), or more.  Contents are marks that say where they come from:
the call, an earlier call, leftovers, the caller.  A `Message` in memory is a tag,
the fields of the member selected, and whether all the rest is zero; selecting
another member finds either zeroes or `Leftovers`, a set flag with a size that fits or
does not.  `Protocol` collects the tables of the seven domains, and the
*deviations*: the places where the code does not do what the rest of it does, each
with its line.  They are the exceptions the properties below make, and as narrow as the code
lets them be: `Lost` and `MisreadIn` excuse a field where some field has a certain size, and
not otherwise.  Advertising data is misread at its full size only (`ble.c:841`), a timestamp when it does not
fit in 32 bits (`NarrowedFields`), a text of the device information is sent with a wrong last
byte at its full size (`discovery.c:189`), and the `encrypt` flag of `whad_ble_send_pdu` is lost
when its PDU is full (`ble.c:1213`); `whad_ble_pdu_parse` misreads the direction always
(`ble.c:168`).  In `BoardCodec`,
`Validated` is the table of the messages whose validator looks at something, and
`whad_board_validate_ok` stands for the others.

### Exchange

One message from construction to parsing.  The `Message` may be fresh,
uninitialised, or used by an earlier call (`Use`); `Build` calls a constructor with
any arguments; `Send` is `whad_send_message`, and is taken whatever the constructor
returned; `Foreign` is a message of another implementation, with any value the
encoding can carry; `Receive` is `whad_get_message`, the type table and the parser.

### Classes, the class modules, ObjectExchange

`Classes` does for the C++ classes what `Codec` does for the C functions: a schema
says which constructor `pack()` calls and with which members, whether the
constructor fills the `Message` itself or leaves flags unassigned, how the
constructor from a message parses (through the borrowed `Message`, through `getRaw()`,
which packs first, twice, or not at all), and which members `unpack()` forgets.
`ClassProtocol` collects the tables of the classes and their deviations, as `Protocol` does
for the messages.
`ObjectExchange` extends `Exchange` with objects: `New`, `SendRaw`
(`whad_send_message(obj.getRaw())`), `SendByValue` (`whad::send(obj)`), and `Wrap`,
which makes an object of a message received from C, from C++ or from another
implementation; such an object may be sent on.

### Faulty variants

A definition named `X_Something`, commented "Faulty variant", is the operator or
action `X` with one plausible mistake.  No specification uses them; substituting one
for `X` must break the property it is listed with in `PROJECT.json`, which shows that the
property is sensitive to the code.

## 3. The runs

| Run | Asks | Answer |
|---|---|---|
| `ring` (`MCRingBuf.cfg`) | is the ring a FIFO, for every call and argument? | yes |
| `tx` (`Tx.cfg`) | one sender, synchronous and asynchronous callbacks: are bytes conserved in order (`Conservation`), do refused sends leave nothing, is the UART's buffer stable, does no transfer start during another (`NoOverlap`), is every pending message accepted, does `SENDING` end, does it all refine `FrameStream`? | yes |
| `tx_two_senders` (`TxTwoSenders.cfg`) | with a draining interrupt inside pushes and skips, and a second sender: does the room found stay (`ReservationHolds`), does the queue only lose bytes at its old end and gain them at its new one (`QueueShifts`), does every transfer end? | yes, until the second sender has a frame accepted, and but for the tail a skip assigns |
| `tx_two_senders_rollback` | does a failed send leave the queue as it was, as the comment at `transport.c:230` says? | no |
| `tx_isr_overlap` | can `send_pending` start a transfer while one runs, which `transport.c:91` excludes? | yes, from an interrupt between lines 92 and 114 |
| `rx` (`Rx.cfg`) | every stream of up to ten bytes made of single bytes, whole, maximal and oversized frames and noise: does `get_message` agree with the reference, inside the caller's buffer, does what a sender put on the line arrive (`LinesArrive`), does it all refine `FrameSink`, is every frame delivered, does a full ring drain? | yes |
| `send` (`Send.cfg`) | a firmware that rebuilds refused messages: any heap misuse, any leak, is every list announced up to its first zero bound (`AnnouncedToZero`), and eventually queued? | none, yes |
| `send_retry` | the documented loop, which retries the same `Message` | reads a freed list |
| `wrapper_owner` (`NanoPbOwner.cfg`) | borrowing, disowning, nesting: has every message one owner, is what is sent filled in? | yes, if no owning wrapper is copied and nothing is used after it was handed away |
| `wrapper_delete` | the documented `whad::send(*response); delete response;` | releases twice |
| `exchange` (`Exchange.cfg`) | all messages and classes of all domains, over all sizes and memories: is what is asked sent (`WireFaithful`, `ClassCarries`), what is received reported (`ParsersAgree`) and restored (`ClassRestores`), are the limits of the two sides the same (`LimitsAgree`), does a refusal send nothing (`RefusalIsClean`, `NothingUnasked`), is a forwarded message the same (`ForwardStable`)? | yes, but for the deviations |
| `slicing` (`Slicing.cfg`) | is an object given to `whad::send` sent? | an empty message is |

The deviations are not a way out: `MCExchange` assumes, and TLC evaluates, that
every one of them is shown by the tables (`DeviationsAreReal`,
`ClassDeviationsAreReal`), so that a list cannot be longer than what the code does.
The properties show that it is not shorter either.

Bounds, and why they are enough:

- `RingSize` is 4 for the ring alone: two bytes queued can already wrap, and every
  pair of head and tail is reached with every size of copy.  Nothing depends on more slots; the
  proofs of section 4 remove the bound.
- `RingSize = 9` with a four-byte header in `TransportTx`: payloads of 0 to 4
  fit, 4 is the maximum and fills the ring, 5 is refused; two frames rarely fit
  together, so the full queue, the drain inside `wait_tx_space` and the wrap inside
  a header and inside a payload all occur.  Chunks of 3 cut every frame; 20 never cuts.  Three
  messages are enough for one frame ahead of, in and behind the queue.  The runs with a
  second sender have one message of it and one or two of the loop.
- `MaxWire` in `tx_two_senders` stops the draining interrupt after five bytes: enough for it
  to fall before, inside and after both frames of the loop.
- `RingSize = 7` in `rx`, the smallest that holds a header and two payload
  bytes, with all streams of at most ten bytes made of the two magic bytes, a legal length
  (`2 0`), an empty frame and one of two bytes (`Segments`).  Ten bytes are two complete frames
  of different sizes in either order, and leave room for a magic split by a bad length, or
  noise, before a frame; callers' buffers of 1 and 2 make one too small.  `HostLines` are
  twenty-two lines over that alphabet (`FewLines`): one payload, the magic among them, with and
  without noise before it, and two frames, with and without noise before each.
- `Lists123` has lists of one, two and three ranges with room for two in the
  encode buffer; two blocks; a queue of one or two messages.
- Three messages and three wrappers: an owner, one that borrows from it and one that
  borrows from the borrower, and a block that is reused.  Blocks are symmetric.
- `exchange` has no bound on the protocol: all 169 messages and 162 classes.  The
  arguments of a call are alike in size but for one field at most, and all optional
  ones are there or none: each field is checked at each size with each of the others
  around it, but not every combination of three.  A `Message` is used once before.

`MaxStream`, `LoopMsgs`, `IsrMsgs` and `MaxDepth` are the bounds on what would
otherwise grow for ever.  Deadlock checking is on but in `exchange` and `slicing`:
one exchange ends when its message is read or sent on.

Fairness.  `TransportTx!FairSpec` assumes that the main loop keeps executing and
that the UART keeps shifting bytes and raising its interrupt; nothing of the application,
nor of other interrupts.  `TransportRx!FairSpec` assumes that the loop keeps polling
`get_message` (weak fairness), and that it does not offer a buffer smaller than a
message for ever (strong fairness of a call with a large enough one: the one caller in the
library, `whad_get_message`, always has one); the host owes nothing.
`WhadSend!FairSpec` assumes that the loop goes on building and sending what it has
decided to announce, that `malloc` succeeds when a block is free, and that the
transport drains, which is what `tx` shows of the transport.

### Disagreements between the code and what is written about it

Five of the runs are expected to find a violation; `PROJECT.json` quotes the line
each one refutes.

1. `transport.c:230-237`: the roll-back of a partly pushed frame skips at the tail,
   so it drops the oldest queued bytes (another frame's) and keeps the ones
   just pushed.  Only reachable with a second sender: the theorem `TxReservation` shows
   that draining alone, the case the comment names, never gets there.
2. `transport.c:91-114`: the state is tested and set apart.
3. `whad.c:61`: the list is freed before the transport may answer
   `WHAD_RINGBUF_FULL`, and the documented loop then hands the same `Message` in again.
4. `message.cpp:34` and `whad.cpp:5`: a copied wrapper releases what the original
   still owns.
5. `whad.cpp:5`: `send` slices its argument, so that an object whose class fills its
   message in `pack()` is sent empty, against `docs/source/cpp/generic.rst:13-15`.

The deviations of `Protocol` and `ClassProtocol` are disagreements within the code:
a flag that is never cleared, a size that is not assigned, an argument that is not
used, a NULL test that is inverted, a parser that reads another member of the union,
a class that packs before it parses.  Each is named at its line there.

## 4. What is proved

| Theorem | States | Assumes |
|---|---|---|
| `RingBufMachineProofs!RingTypeCorrect` | head and tail stay inside `data[]` | `RingAssumption` |
| `RingBufMachineProofs!RingImplementsFifo` | the ring implements `ByteFifo` of capacity `RingSize - 1` | `RingAssumption` |
| `TransportTxProofs!TxTypeCorrect` | all types of the transmit half, with any interrupts | `RingAssumption`, `TxAssumption` |
| `TransportTxProofs!TxReservation` | until a second sender has a frame accepted, the room found stays until the frame is pushed, whatever drains | the same |
| `TransportTxProofs!TxQueueShifts` | until then, each step but the assignment of a skip's tail changes the queue at its two ends only, whatever drains inside a push | the same |
| `TransportTxProofs!TxFailedSend` | every byte queued or sent outside a push loop and its roll-back is of an accepted message | the same, `IsrMsgs = 0` and `IsrDrains = FALSE` |
| `TransportTxProofs!TxConservation` | bytes sent, in flight and queued are the accepted frames in order, and the part of the current one | the same |
| `TransportTxProofs!TxImplementsStream` | the transmit half implements `FrameStream!StreamSafety` | the same |
| `TransportTxProofs!TxBufferStable` | no byte the UART still has to read is written | the same |
| `TransportTxProofs!TxNoOverlap` | no transfer starts while another runs | the same |
| `TransportRxProofs!RxTypeCorrect` | all types of the receive half | `RingAssumption`, `RxAssumption` |
| `TransportRxProofs!RxPayloadFits` | payload copies fit the caller's buffer and are never refused | the same |
| `TransportRxProofs!RxDelivers` | what is delivered, and then what is still to be found in the ring, is what the reference decoder finds in the accepted bytes | the same |
| `TransportRxProofs!RxImplementsSink` | the receive half implements `FrameSink!SinkSpec` | the same |
| `TransportRxProofs!FramesRoundTrip` | the decoder finds in the frames of a line exactly their payloads, whatever their lengths and the noise between them | the same; the line is one of `Lines` |
| `TransportRxProofs!RxFramesArrive` | what is delivered are the first payloads of the line that is being received, and all of them in the end, but for those still in the ring | the same, and `LinesAssumption`: `HostLines` are some of `Lines` |
| `TransportRxProofs!LinkDelivers` | with a sender that implements `FrameStream!StreamSafety` at the other end: the payloads delivered are the first that were accepted for sending | `RingAssumption`, `RxAssumption`, `[]LineOrder` |
| `WhadSendProofs!SendNoFault`, `SendNoLeak` | no heap misuse, no leak | `SendAssumption`, `Rebuilds` |
| `WhadSendProofs!SendTypeCorrect`, `SendAnnouncesToZero` | all types; what is queued is the list up to its first zero bound | the same |
| `NanoPbMsgProofs!WrapperOneOwner` | one owner | `NanoPbMsgAssumption`, `~CopiesOwned` |
| `NanoPbMsgProofs!WrapperNoFault` | no release twice, no use after a release | the same, and `~UsesGiven` |
| `NanoPbMsgProofs!WrapperTypeCorrect`, `WrapperSendsFilled` | all types; only filled messages are sent | the same |
| `CodecProofs!RegularCarried` | a field whose schema assigns every part arrives as asked, on any memory | `Written` |
| `CodecProofs!RegularReported` | a field that is read back whole is reported as received | `ReadBack` |
| `CodecProofs!RegularForwarded` | a message of such fields, wrapped by a class that adds nothing, is sent on unchanged, each at a size that is not cut | `Straight`, `Written`, `ReadBack` |
| `ExchangeProofs!ExchangeTypeCorrect` | all types of an exchange | `ExchangeAssumption`: `Domains` are some of the seven |
| `ExchangeProofs!ExchangeWireFaithful`, `ExchangeRefusalIsClean` | an accepted C call sends what it was asked to, a refused one leaves the `Message` alone | the same |
| `ExchangeProofs!ExchangeParsersAgree`, `ExchangeLimitsAgree` | a parser reports what was received, and accepts what the constructor would build | the same |
| `ExchangeProofs!ExchangeClassCarries`, `ExchangeNothingUnasked` | an object sends what it was built from, and nothing that C would refuse | the same |
| `ExchangeProofs!ExchangeClassRestores`, `ExchangeForwardStable` | an object made of a message holds it, and sent on it is the same | the same |

The theorems of `ExchangeProofs` make the same exceptions as the properties they state, the
deviations of `Protocol` and `ClassProtocol`.

The arguments:

- *Ring.*  `RingBufProofs` removes the modulo first (`ModCases`, `UsedCases`,
  `SlotCases`): every index computation stays below twice the size, so it is a case
  split and linear arithmetic.  Then one lemma per operator says what it does to
  `Contents`; the refinement is one step per call.
- *Transmit, types.*  `TypeOK` alone is not inductive: that the UART stays inside the
  static buffer needs `bufSize <= Len(txbuf)` at the start, and that `pushed` stays in its range
  needs the frame to be legal while it is being pushed.  `Locals` adds what each program
  point knows; `TypeInv` is the conjunction, and holds whatever `seen` has become.
- *Transmit, room.*  `SendInv` adds that inside a push the head is the one that was read, and
  that the rest of the frame fits; until a second sender has had a frame accepted no other step
  enlarges the queue.  `StoreFacts` and `HeadFacts` say what the two halves of a push do to
  `Contents`: the byte goes into the one slot kept free, and shows only when the head moves.
- *Transmit, stream.*  `Traced` follows the sender of every byte in the queue, in
  the static buffer and on the wire, which is enough for `TxFailedSend`.
  Conservation needs to know what the static buffer holds: that it is the front of the
  queue when the transfer starts, that no more is skipped than was queued, and that nothing
  is in flight while it is filled
  (`StreamLocals`).  `StreamInv` adds that, `Offered` (which messages exist) and `Line`:
  what is sent, in flight and queued is `owed` and then the part of the frame being pushed
  (`Partial`).  One lemma per action; the refinement maps an
  accepting step to `Accept`, a byte on the wire to `Emit` and every other to a stutter.
  The same invariant gives `TxNoOverlap`: at `start` the state is idle and nothing is in
  flight, which only a draining interrupt could change.
- *Transmit, queue.*  `TxQueueShifts` rests on `SendInv` for the two halves of a push;
  `PushAllContents` says that the pushes of an interrupt append, and an interrupt's skip drops
  at the old end.
- *Receive, types.*  `RxLocals` says which test of `get_message` still holds at each
  program point: interrupts only ever make the ring fuller (`PushAllFacts`), so a lower bound on
  its fill level survives them.
- *Receive, decoder.*  `DeliveredIsDecoding` is not inductive: a later byte can complete a
  frame that was cut, and the property does not speak of that.  `Decoding` states it of the accepted bytes followed by any
  continuation `t`; the arrival of bytes is then an instance of it, and the property is the case
  where `t` is empty.  `RxData` adds what the locals hold: the header and the payload
  copied are the front of the ring.  The decoder is a function on the places of a finite
  stream, so the lemmas about it (`ScanNoise`, `ScanFrame`, `ScanShift`: dropping a byte that
  starts no frame, or a whole frame, changes nothing of what comes after) are proved from the
  least place that would be a counterexample (`LeastElement`, from the library's `WFMin`), with no
  induction theorem.  `NoFrame` is where the code's two-byte and one-byte steps are shown to
  be safe.
- *Receive, sink.*  What was found stays found because a frame that is complete in a stream
  is the same in every longer one (`ScanPrefix`, `DecodePrefix`): the scan never goes back, and
  looks at no byte after the frame.  With `DeliveredIsDecoding` this makes each step of the code a
  step of `FrameSink`: `FindStep` for the interrupt, `DeliverStep` for the end of
  `get_message`, where the first frame in the ring is shown to be the next one found, and
  `SinkQuiet` for the rest.
- *Lines.*  `DecodeQuiet` skips noise, `DecodeSent` takes one frame off the front of a line
  (`HeaderFacts`: the two length bytes, read back, are the length), and `DecodeUpTo` adds one
  item after another, by the least place that would be a counterexample; `FramesRoundTrip`
  is the whole line.  `FramedUpTo` is a recursive function, and `FramedEquation` shows first
  that a function of that equation exists.  `RxFramesArrive` is the round trip with
  `DeliveredIsDecoding` and `DecodePrefix`.
- *Both ends.*  `SenderInv`: what is owed is the line of the payloads accepted, and the wire is
  a beginning of it.  What the ring has accepted is a beginning of the wire, so `RxFramesArrive`
  applies to the line owed.  `LineOrder` is a hypothesis on the line and on the ring: no byte lost
  or altered on the way, none refused by a full ring.  Without it frames are lost, as in the code;
  then `RxDelivers` says what is delivered.
- *Message layer.*  `HeapInv`: no fault so far and the live blocks are exactly
  the one of the message held.  `SendInv` adds what that block holds: the list still to be
  announced and its end mark; `EncodedTells` is what the walk of the callback makes of it.
- *Wrappers.*  `WrapInv`: one owner per live block, and a wrapper that does not own
  borrows from an older one that does (`BorrowsFromOlder`), which the stack
  discipline keeps true when the newest goes.  `FillInv` adds that what a wrapper borrows
  is filled, and that an unfilled one is owned by the class that will fill it.  A `Message`
  that was handed away is out of both: its wrapper owns nothing, and nothing reads through it.
- *Fields.*  No induction: a call is one function of the memory, and the lemmas
  `StoredArrives` and `FieldRead` follow one field through it.  141 of the 169
  messages have only fields that are `Written` and `ReadBack` (386 of 433 fields); 114
  of the 162 classes are `Straight` over such a message.
- *Tables.*  `TablesSound` and `ClassesSound` go through every message of the seven domains and
  every class: each field is, at each size, of a kind that loses nothing, or the deviation that excuses it
  names it and that size (`FieldSound`, `SchemaSound`, `ClassSound`).  From there `CallCarried`, `SameVerdict`,
  `ClassCarried`, `ClassSilent`, `ClassRestored` and `ClassForwarded` are proved once, for a
  table that is sound, and for any combination of sizes and flags: they do not share the
  bound of the run, where the arguments are alike but for one field.
- *Exchange.*  The properties look at the end of an exchange and are not inductive.
  `ExchangeInv` carries what each stage rests on: `Typed` (types with the contents), `Arrived`
  (what is on the wire has been through the encoder), `Called` (what an accepted call left in
  the `Message` would be encoded as what was asked), `ForeignSent` (what another
  implementation sends is a call of the message), `ReadOut` (what the parser made of the wire),
  `Built` and `Held` (what an object holds, from its constructor or from a message).  Each
  part has a lemma for the step that leads to its stage, and every other step leaves it.

`LinkDelivers` is proved and not run: its parts are, the sender as the abstract side of `tx` and
the receiver as `rx`.

TLC checks each inductive invariant's consequences on the small instances.  Every invariant
and action property of a passing run is stated by a theorem; the runs that find
a violation check what does not hold, and `NoFault`, `NoOverlap` and
`FailedSendLeavesNothing` are proved where the theorems' assumptions exclude the case found.

Only model-checked, because they are liveness: `PendingAccepted`, `SendingEnds`,
`AllDelivered`, `FullDrains`, `EventuallyAnnounced`, and the fairness half of the refinement
of `FrameStream`.  They need `ENABLED` and well-founded arguments under fairness, which the
provers used here do not do.  Not proved either: that the deviations are real
(`DeviationsAreReal`, `ClassDeviationsAreReal`), which are closed formulas TLC evaluates.

## 5. Not modelled

- The documented set-speed handler (`docs/source/c/discovery.rst:278`), which reconfigures
  the UART after a single `send_pending`, and the rest of the discovery handshake: they are
  the firmware's, the library keeps neither a baud rate nor a state of the handshake.
- The list that `SupportedFreqsResp` allocates again at every `getRaw()`
  (`phy_suppfreq.cpp:40`): heap blocks are in `WhadSend`, classes in `ObjectExchange`,
  whose fields are values.
- A caller that goes on with a buffer too small for the announced payload
  (`transport.c:191`): `TransportRx` models the call, and fairness excludes that it is repeated
  for ever.
- `calloc` that fails in the C++ wrapper, and the static pool of two messages compiled in
  for one board; plain accessors of the classes.
- `TransportTx` itself joined to `TransportRx`.  `Link` joins what the one is proved to
  implement to the other; between the two lies the naming of bytes: `TransportTx` speaks of
  the i-th byte of the frame of a message, `Link` of its value, and that the values are those
  of `Encoded` is read off `send_message`, not proved.  A line that loses bytes is covered by
  `Decode`, for any stream that comes in, gaps included, and not by `Link`.
- The generated protocol code and nanopb (external; encoding appears as what it does to
  sizes, absent fields and the decoded member), and the target-specific firmware around
  the library.

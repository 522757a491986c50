----------------------------- MODULE NanoPbMsg -----------------------------
(***************************************************************************)
(* The C++ message wrapper of src/src/cpp/message.cpp and its use by       *)
(* src/src/cpp/whad.cpp.  A NanoPbMsg holds a pointer to a NanoPb Message  *)
(* and the flag m_ownsMessage; the class declares a destructor but no copy *)
(* constructor, so a copy shares pointer and flag.  Wrappers are automatic *)
(* variables, or a new and a delete that nest: they form a stack.          *)
(***************************************************************************)
EXTENDS Naturals, Sequences

CONSTANTS
  Blocks,       \* Message structures calloc may return
  Ext,          \* the Message the firmware itself keeps and receives into
  MaxDepth,     \* bound: wrappers alive at once
  CopiesOwned,  \* whether the firmware copies wrappers that own their Message
  UsesGiven     \* whether it uses wrappers whose Message it has given away

ASSUME NanoPbMsgAssumption ==
  /\ Ext \notin Blocks /\ MaxDepth \in Nat
  /\ CopiesOwned \in BOOLEAN /\ UsesGiven \in BOOLEAN

VARIABLES
  stack,        \* the wrappers: Message pointer, m_ownsMessage, whether the
                \* class fills the Message in pack() or when constructed, and
                \* (history) whether the Message has been given away since
  live,         \* heap blocks allocated and not released
  filled,       \* Messages whose fields have been filled in
  handed,       \* blocks disowned for the queue to release
  lastSend,     \* what the last send did with the message
  fault         \* the first misuse of the heap

vars == <<stack, live, filled, handed, lastSend, fault>>

Msgs == Blocks \cup {Ext}
Wrapper == {w \in [ptr : Msgs, owns : BOOLEAN, packs : BOOLEAN, given : BOOLEAN] :
              w.ptr = Ext => ~w.owns /\ ~w.packs}

Init ==
  /\ stack = <<>> /\ live = {} /\ filled = {Ext} /\ handed = {}
  /\ lastSend = "none" /\ fault = "none"

Running == fault = "none"
Valid(m) == m = Ext \/ m \in live
-----------------------------------------------------------------------------
\* Faulty variant: the flag is not looked at.
Release_Always(w) ==
  IF w.ptr \in live THEN live' = live \ {w.ptr} /\ UNCHANGED fault
                    ELSE fault' = "double release" /\ UNCHANGED live

\* ~NanoPbMsg on wrapper w.
Release(w) ==
  IF ~w.owns THEN UNCHANGED <<live, fault>>
  ELSE IF w.ptr \in live
       THEN live' = live \ {w.ptr} /\ UNCHANGED fault
       ELSE fault' = "double release" /\ UNCHANGED live

\* Faulty variant: the flag is left false.
New_Borrowed(packs, b) ==
  /\ Running /\ Len(stack) < MaxDepth /\ b \notin live
  /\ live' = live \cup {b}
  /\ filled' = IF packs THEN filled \ {b} ELSE filled \cup {b}
  /\ stack' = Append(stack, [ptr |-> b, owns |-> FALSE, packs |-> packs, given |-> FALSE])
  /\ UNCHANGED <<handed, lastSend, fault>>

\* A message class built from parameters: calloc, m_ownsMessage = true, and
\* the fields filled now (the BLE classes) or when pack() runs (the others).
New(packs, b) ==
  /\ Running /\ Len(stack) < MaxDepth /\ b \notin live
  /\ live' = live \cup {b}
  /\ filled' = IF packs THEN filled \ {b} ELSE filled \cup {b}
  /\ stack' = Append(stack, [ptr |-> b, owns |-> TRUE, packs |-> packs, given |-> FALSE])
  /\ UNCHANGED <<handed, lastSend, fault>>

\* Faulty variant: the flag is set for the firmware's Message too.
Wrap_Owns ==
  /\ Running /\ Len(stack) < MaxDepth
  /\ stack' = Append(stack, [ptr |-> Ext, owns |-> TRUE, packs |-> FALSE, given |-> FALSE])
  /\ UNCHANGED <<live, filled, handed, lastSend, fault>>

\* A wrapper over a Message of someone else's.
Borrow(m, given) ==
  Append(stack, [ptr |-> m, owns |-> FALSE, packs |-> FALSE, given |-> given])

\* NanoPbMsg(Message *): a view of the firmware's own Message.
Wrap ==
  /\ Running /\ Len(stack) < MaxDepth
  /\ stack' = Borrow(Ext, FALSE)
  /\ UNCHANGED <<live, filled, handed, lastSend, fault>>

MayUse(i) == stack[i].given => UsesGiven

\* Faulty variant: getMessage is used for getRaw.
FromReference_NoPack(i) ==
  /\ Running /\ Len(stack) < MaxDepth /\ MayUse(i)
  /\ IF Valid(stack[i].ptr)
     THEN stack' = Borrow(stack[i].ptr, stack[i].given) /\ UNCHANGED fault
     ELSE fault' = "use after release" /\ UNCHANGED stack
  /\ UNCHANGED <<live, filled, handed, lastSend>>

\* A domain wrapper built from a reference (DiscoveryMsg, PhyMsg, EsbMsg,
\* BoardMsg): getRaw runs the pack() of i's class, the pointer is borrowed.
FromReference(i) ==
  /\ Running /\ Len(stack) < MaxDepth /\ MayUse(i)
  /\ IF Valid(stack[i].ptr)
     THEN /\ filled' = IF stack[i].packs THEN filled \cup {stack[i].ptr} ELSE filled
          /\ stack' = Borrow(stack[i].ptr, stack[i].given) /\ UNCHANGED fault
     ELSE fault' = "use after release" /\ UNCHANGED <<filled, stack>>
  /\ UNCHANGED <<live, handed, lastSend>>

MayCopy(i) == stack[i].owns => CopiesOwned

\* A domain wrapper built from a value (BleMsg, Dot15d4Msg, UnifyingMsg,
\* GenericMsg): a base-class copy is made, read and destroyed.
FromValue(i) ==
  /\ Running /\ Len(stack) < MaxDepth /\ MayUse(i) /\ MayCopy(i)
  /\ IF Valid(stack[i].ptr)
     THEN stack' = Borrow(stack[i].ptr, stack[i].given) /\ Release(stack[i])
     ELSE fault' = "use after release" /\ UNCHANGED <<stack, live>>
  /\ UNCHANGED <<filled, handed, lastSend>>
-----------------------------------------------------------------------------
\* whad_send_message: an unset Message encodes to nothing, which is an error.
Outcome(m, set) == IF m \in set THEN "queued" ELSE "refused"

\* whad_send_message(w.getRaw()): pack() of the class, then the C library.
SendRaw(i) ==
  /\ Running /\ MayUse(i)
  /\ IF Valid(stack[i].ptr)
     THEN /\ filled' = IF stack[i].packs THEN filled \cup {stack[i].ptr} ELSE filled
          /\ lastSend' = Outcome(stack[i].ptr, filled')
          /\ UNCHANGED fault
     ELSE fault' = "use after release" /\ UNCHANGED <<filled, lastSend>>
  /\ UNCHANGED <<stack, live, handed>>

\* send(NanoPbMsg message): the argument is a base-class copy, whose pack()
\* does nothing, and it is destroyed when send returns.
SendValue(i) ==
  /\ Running /\ MayUse(i) /\ MayCopy(i)
  /\ IF Valid(stack[i].ptr)
     THEN lastSend' = Outcome(stack[i].ptr, filled) /\ Release(stack[i])
     ELSE fault' = "use after release" /\ UNCHANGED <<live, lastSend>>
  /\ UNCHANGED <<stack, filled, handed>>
-----------------------------------------------------------------------------
\* Faulty variant: the flag is not cleared.
Disown_Keeps(i) ==
  /\ Running /\ stack[i].owns
  /\ handed' = handed \cup {stack[i].ptr}
  /\ UNCHANGED <<stack, live, filled, lastSend, fault>>

\* disown(): the wrapper stays, without the Message, which the queue may release
\* from now on, whoever points to it.  A wrapper that owns nothing stays as it is.
Disown(i) ==
  /\ Running /\ stack[i].owns
  /\ handed' = handed \cup {stack[i].ptr}
  /\ stack' = [j \in DOMAIN stack |->
                 IF stack[j].ptr # stack[i].ptr THEN stack[j]
                 ELSE [stack[j] EXCEPT !.given = TRUE, !.owns = @ /\ j # i]]
  /\ UNCHANGED <<live, filled, lastSend, fault>>

\* The newest wrapper leaves its scope, or is deleted.
Destroy ==
  /\ Running /\ stack # <<>>
  /\ Release(stack[Len(stack)])
  /\ stack' = SubSeq(stack, 1, Len(stack) - 1)
  /\ UNCHANGED <<filled, handed, lastSend>>

\* The queue a Message was handed to has sent it and releases it.
QueueRelease(b) ==
  /\ Running /\ b \in handed
  /\ handed' = handed \ {b}
  /\ IF b \in live THEN live' = live \ {b} /\ UNCHANGED fault
                   ELSE fault' = "double release" /\ UNCHANGED live
  /\ UNCHANGED <<stack, filled, lastSend>>

Next ==
  \/ \E packs \in BOOLEAN, b \in Blocks : New(packs, b)
  \/ Wrap
  \/ \E i \in DOMAIN stack :
       FromReference(i) \/ FromValue(i) \/ SendRaw(i) \/ SendValue(i) \/ Disown(i)
  \/ Destroy
  \/ \E b \in Blocks : QueueRelease(b)

Spec == Init /\ [][Next]_vars
-----------------------------------------------------------------------------
\* Every variable keeps its type.
TypeOK ==
  /\ stack \in Seq(Wrapper) /\ Len(stack) <= MaxDepth
  /\ live \subseteq Blocks /\ handed \subseteq Blocks
  /\ filled \subseteq Msgs
  /\ lastSend \in {"none", "queued", "refused"}
  /\ fault \in {"none", "double release", "use after release"}

\* A firmware that neither copies an owning wrapper nor uses one whose Message it
\* has given away never releases a Message twice and never reads a released one:
\* neither borrowing, nor the order in which wrappers go, nor a queue that releases a
\* Message while the wrapper that disowned it, or a view of it, is still there.
NoFault == fault = "none"

\* A Message sent with whad::send(*response) may then be deleted: "delete
\* response" does not release it a second time.
NoDoubleRelease == fault # "double release"

Owners(b) == {i \in DOMAIN stack : stack[i].owns /\ stack[i].ptr = b}

\* As long as owning wrappers are not copied, a Message on the heap has exactly
\* one owner, a wrapper or the queue it was handed to, and no owner holds a
\* Message that is gone: nothing leaks and nothing is released twice, whatever use
\* is made of the wrappers left behind by disown().
OneOwner ==
  \A b \in Blocks :
    IF b \in live
    THEN \/ b \in handed /\ Owners(b) = {}
         \/ b \notin handed /\ \E i \in Owners(b) : Owners(b) = {i}
    ELSE b \notin handed /\ Owners(b) = {}

\* A Message is never sent before its class has filled it, whichever borrowed
\* or copied wrapper it is sent through: "they will be queued for transmission".
SentIsQueued == lastSend # "refused"
=============================================================================

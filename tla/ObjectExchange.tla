--------------------------- MODULE ObjectExchange ---------------------------
(***************************************************************************)
(* The same exchange through the C++ classes as well: an object is built   *)
(* from arguments and sent, through getRaw() or by value with whad::send;  *)
(* what was received, from C, from C++ or from another implementation, is  *)
(* wrapped, the class of its type restores an object from it, and that     *)
(* object may be sent on.                                                  *)
(***************************************************************************)
EXTENDS Exchange, ClassProtocol

VARIABLES
  obj,      \* the object: its class, its members, its Message
  onward    \* what was sent of the object that was received

vars == <<msgVars, obj, onward>>

ClassesOf == ClassTables[dom]
NoObject == [cls |-> "none", f |-> <<>>, mem |-> Fresh(TRUE)]
C == ClassesOf[obj.cls]
M == T[C.msg]

Init == MessageInit /\ obj = NoObject /\ onward = Fresh(TRUE)

\* The Message of a new object is cleared.
New(cls, stray, left) ==
  /\ stage = "build" /\ mem = Fresh(TRUE)
  /\ LET c == ClassesOf[cls]
         m == T[c.msg]
     IN  \E a \in ClassArguments(c, m, "user") :
           /\ asked' = [by |-> "class", msg |-> c.msg, args |-> a,
                        ok |-> ~PackFails(T, c, c.packer, a)]
           /\ obj' = [cls |-> cls, f |-> Members(c, m, a, stray),
                      mem |-> IF c.direct THEN Constructed(T, m, a, Fresh(TRUE), left)
                              ELSE Fresh(TRUE)]
  /\ stage' = "built"
  /\ UNCHANGED <<dom, mem, wire, out, onward>>

\* The object just built, or the one received, is sent as the Message packed.
Deliver(packed, how) ==
  /\ Encodable(T, packed)
  /\ IF stage = "built"
     THEN /\ wire' = Transmitted(T, packed) /\ stage' = "sent"
          /\ asked' = [asked EXCEPT !.by = how] /\ UNCHANGED onward
     ELSE onward' = Transmitted(T, packed) /\ stage' = "forwarded" /\ UNCHANGED <<wire, asked>>
  /\ UNCHANGED <<dom, mem, out>>

\* whad_send_message(obj.getRaw())
SendRaw(left) ==
  /\ stage \in {"built", "held"}
  /\ \E packer \in IF stage = "built" THEN {C.packer} ELSE C.again :
       LET packed == Packed(T, C, packer, obj.f, obj.mem, left)
       IN  IF C.strict /\ PackFails(T, C, packer, obj.f)
           THEN stage' = "thrown" /\ UNCHANGED <<dom, mem, asked, wire, out, obj, onward>>
           ELSE Deliver(packed, "raw") /\ obj' = [obj EXCEPT !.mem = packed]

\* whad::send(obj): its parameter is a NanoPbMsg, whose pack() is empty.
SendByValue ==
  /\ stage \in {"built", "held"}
  /\ Deliver(obj.mem, "value") /\ UNCHANGED obj

\* The type of the message chooses the class.
Wrap(cls, stray, left) ==
  /\ stage = "sent" /\ ClassesOf[cls].reads # "absent" /\ ClassesOf[cls].msg = wire.tag
  /\ IF ClassesOf[cls].reads # "none" /\ Rejected(T[wire.tag], wire)
     THEN stage' = "thrown" /\ UNCHANGED obj
     ELSE /\ stage' = "held"
          /\ LET o == Restored(T, ClassesOf[cls], wire, stray, left)
             IN  obj' = [cls |-> cls, f |-> o.f, mem |-> o.mem]
  /\ UNCHANGED <<dom, mem, asked, wire, out, onward>>

Next ==
  \/ MessageNext /\ UNCHANGED <<obj, onward>>
  \/ SendByValue
  \/ \E left \in Leftovers :
       \/ SendRaw(left)
       \/ \E cls \in DOMAIN ClassesOf, stray \in BOOLEAN :
            New(cls, stray, left) \/ Wrap(cls, stray, left)

Spec == Init /\ [][Next]_vars

--------------------------------------------------------------------------
(* Properties.                                                             *)

\* Every variable keeps its type: what is selected in a Message, and in an object,
\* has the fields of its tag.
TypeOK ==
  /\ MessageTypeOK
  /\ asked.by \in {"none", "c", "other", "class", "raw", "value"}
  /\ stage \in {"build", "called", "sent", "read", "built", "held", "forwarded", "thrown"}
  /\ onward.tag \in DOMAIN T \cup {"none"} /\ obj.cls \in DOMAIN ClassesOf \cup {"none"}
  /\ obj.cls # "none" => DOMAIN obj.f = DOMAIN M.fields
  /\ obj.mem.tag # "none" => DOMAIN obj.mem.f = DOMAIN T[obj.mem.tag].fields

\* An object sent through getRaw() puts on the wire what it was built from, but
\* for what the C constructors lose and the data a class drops. (Between the class
\* constructor, its setters, pack() and the C constructor, no argument may be dropped
\* or swapped.)
ClassCarries ==
  stage = "sent" /\ asked.by = "raw" /\ asked.ok /\ <<dom, obj.cls>> \notin Strange =>
    /\ wire.tag = M.tag
    /\ \A x \in DOMAIN asked.args :
         \/ Lost(dom, C.msg, x, asked.args) \/ <<dom, <<obj.cls, x>>>> \in Garbled
         \/ <<dom, <<obj.cls, x>>>> \in Shortened /\ asked.args[x].len = "over"
         \/ /\ x \in DOMAIN wire.f
            /\ Same(M.fields[x], Meant(M.fields[x], asked.args[x]), wire.f[x])

\* An object whose arguments the C constructor refuses sends nothing, although
\* most classes ignore that it failed; but for those over a constructor that
\* writes the tag first, whose half-built message is encoded.
NothingUnasked ==
  stage = "sent" /\ asked.by = "raw" /\ ~asked.ok =>
    \/ wire.tag = "none"
    \/ <<dom, obj.cls>> \in Unasked

\* The object made from a received message holds what was received, but for what
\* the C parsers misread. (The class constructor borrows the Message, and unpack()
\* reads it after whatever else that constructor does to it.)
ClassRestores ==
  stage = "held" /\ <<dom, obj.cls>> \notin Blind =>
    \A x \in DOMAIN wire.f :
      \/ MisreadIn(dom, C.msg, x, wire.f) \/ <<dom, <<C.msg, x>>>> \in Uncounted
      \/ <<dom, <<obj.cls, x>>>> \in Forgotten
      \/ Same(M.fields[x], obj.f[x], wire.f[x])

\* A message that is received, wrapped by its class and sent on is the message
\* that was received, but for the same, what the C constructors spoil, and the
\* members known to change. (getRaw() packs the restored members over the Message, so
\* whatever a parser or a class does not restore is sent on as something else.)
ForwardStable ==
  stage = "forwarded" /\ <<dom, obj.cls>> \notin Blind \cup Retyping =>
    /\ onward.tag = wire.tag
    /\ \A x \in DOMAIN wire.f :
         \/ MisreadIn(dom, C.msg, x, wire.f) \/ At(Spoilt, dom, C.msg, x, wire.f)
         \/ <<dom, <<obj.cls, x>>>> \in Forgotten \cup Changed
         \/ Same(T[wire.tag].fields[x], wire.f[x], onward.f[x])

\* docs/source/cpp/generic.rst:13-15 sends a result with whad::send(result): what
\* is sent is the message the object stands for.
ByValueCarries == stage = "sent" /\ asked.by = "value" /\ asked.ok => wire.tag = M.tag
=============================================================================

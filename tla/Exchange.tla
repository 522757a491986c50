------------------------------ MODULE Exchange ------------------------------
(***************************************************************************)
(* One message from the firmware that builds it to the code that reads it: *)
(* a constructor fills a Message, whad_send_message encodes it,            *)
(* whad_get_message decodes it, the type is looked up and the parser of    *)
(* that type reads it. The Message may be fresh, uninitialised or used     *)
(* before; a refused call may be ignored; the other side may be another    *)
(* implementation of the protocol.                                         *)
(***************************************************************************)
EXTENDS Protocol, Naturals

CONSTANT Domains    \* the domains whose messages are exchanged

ASSUME ExchangeAssumption == Domains \subseteq DOMAIN Tables

VARIABLES
  dom,      \* the domain of this exchange
  mem,      \* the Message the sender builds in
  asked,    \* the last call: by whom, its message and arguments, its result
  wire,     \* what was sent
  out,      \* what the receiver's parser returned
  stage     \* "build", "called", "sent" or "read"; ObjectExchange adds more

msgVars == <<dom, mem, asked, wire, out, stage>>

T == Tables[dom]
Nothing == [by |-> "none", msg |-> "none", args |-> <<>>, ok |-> TRUE]
NotRead == [ok |-> FALSE, f |-> <<>>]

MessageInit ==
  /\ dom \in Domains
  /\ mem \in {Fresh(TRUE), Fresh(FALSE)}
  /\ asked = Nothing /\ wire = Fresh(TRUE) /\ out = NotRead /\ stage = "build"

Construct(msg, a, left) ==
  /\ mem' = Constructed(T, T[msg], a, mem, left)
  /\ asked' = [by |-> "c", msg |-> msg, args |-> a, ok |-> ~Refused(T[msg], a) /\ ~Failed(T[msg], a)]
  /\ UNCHANGED <<dom, wire, out>>

\* An earlier call leaves something in every field of the Message.
Use ==
  /\ stage = "build" /\ mem.tag = "none"
  /\ \E msg \in DOMAIN T, left \in Leftovers :
       Construct(msg, [x \in DOMAIN T[msg].fields |-> Slot(TRUE, "some", "first")], left)
  /\ UNCHANGED stage

\* A call, on a Message never used or used for the same member; what another
\* member leaves there is in the uninitialised memory.
Build ==
  /\ stage = "build"
  /\ \E msg \in DOMAIN T :
       /\ mem.tag \in {"none", T[msg].tag}
       /\ \E left \in Leftovers, a \in Arguments(T[msg], "second") : Construct(msg, a, left)
  /\ stage' = "called"

\* whad_send_message, whatever the constructor returned.
Send ==
  /\ stage = "called"
  /\ Encodable(T, mem)
  /\ wire' = Transmitted(T, mem) /\ stage' = "sent"
  /\ UNCHANGED <<dom, mem, asked, out>>

\* Another implementation sends what its own rules allow: any field may have
\* any value the encoding can carry, those this side cannot express included.
Foreign ==
  /\ stage = "build" /\ mem = Fresh(TRUE)
  /\ \E msg \in DOMAIN T : \E a \in Foreigners(T[msg], "second") :
       LET sent == [tag |-> msg, f |-> a, clean |-> FALSE]
       IN  /\ Encodable(T, sent)
           /\ wire' = Transmitted(T, sent)
           /\ asked' = [by |-> "other", msg |-> msg, args |-> a, ok |-> TRUE]
  /\ stage' = "sent"
  /\ UNCHANGED <<dom, mem, out>>

\* whad_get_message, whad_<domain>_get_message_type, and the parser of the
\* type. An empty payload is WHAD_NONE, and not every type has a parser.
Receive(stray) ==
  /\ stage = "sent" /\ wire.tag # "none" /\ T[wire.tag].parser
  /\ LET m == T[wire.tag]
     IN  out' = IF Rejected(m, wire) THEN NotRead
                ELSE [ok |-> TRUE, f |-> Parsed(m, wire, stray)]
  /\ stage' = "read"
  /\ UNCHANGED <<dom, mem, asked, wire>>

MessageNext == Use \/ Build \/ Send \/ Foreign \/ \E stray \in BOOLEAN : Receive(stray)

--------------------------------------------------------------------------
(* Properties.                                                             *)

MessageTypeOK ==
  /\ dom \in Domains
  /\ wire.tag \in DOMAIN T \cup {"none"} /\ asked.ok \in BOOLEAN /\ out.ok \in BOOLEAN
  /\ mem.tag \in DOMAIN T \cup {"none"}
  /\ mem.tag # "none" => DOMAIN mem.f = DOMAIN T[mem.tag].fields

\* What an accepted call sends is what it was asked to send, on whatever memory
\* it was called and whatever was called on it before, but for the fields known
\* to be lost. (The union of a Message is never cleared, so a constructor of
\* src/src/domains has to assign every field and every flag.)
WireFaithful ==
  stage \notin {"build", "called"} /\ asked.by = "c" /\ asked.ok =>
    /\ wire.tag = asked.msg \/ <<dom, asked.msg>> \in Renamed
    /\ \A x \in DOMAIN asked.args :
         \/ <<dom, <<asked.msg, x>>>> \in StaleFlags \/ Lost(dom, asked.msg, x, asked.args)
         \/ /\ x \in DOMAIN wire.f
            /\ LET k == T[asked.msg].fields[x]
               IN  Same(k, Meant(k, asked.args[x]), wire.f[x])

\* What a parser reports is what was received, whoever sent it, but for the
\* known fields it misreads. (A whad_<domain>_<name>_parse that accepts a message
\* gives its caller every field of it.)
ParsersAgree ==
  out.ok =>
    \A x \in DOMAIN wire.f :
      \/ MisreadIn(dom, wire.tag, x, wire.f) \/ <<dom, <<wire.tag, x>>>> \in Uncounted
      \/ Same(T[wire.tag].fields[x], out.f[x], wire.f[x])

\* A parser accepts a message of another implementation exactly when the
\* constructor would have built it: the limits of the two agree, but for the
\* known lenient ones.
LimitsAgree ==
  stage = "read" /\ asked.by = "other" /\ <<dom, asked.msg>> \notin Lenient =>
    (out.ok <=> ~Refused(T[asked.msg], asked.args) /\ ~Failed(T[asked.msg], asked.args))

\* A constructor that returns WHAD_ERROR has not touched the Message, and the one
\* it held before can still be sent; but for those that are known to write the tag
\* first, where a caller that ignores the error sends a message no one asked for.
RefusalIsClean ==
  [][~asked'.ok => mem' = mem \/ <<dom, asked'.msg>> \in HalfBuilt]_msgVars
=============================================================================

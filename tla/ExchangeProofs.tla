--------------------------- MODULE ExchangeProofs ---------------------------
(***************************************************************************)
(* What holds of every exchange: of every message and every class of every *)
(* domain, whatever the memory held before.                                *)
(***************************************************************************)
EXTENDS ObjectExchange, CodecProofs

--------------------------------------------------------------------------
(* The exchange.                                                           *)

Makers == {"none", "c", "other", "class", "raw", "value"}
Stages == {"build", "called", "sent", "read", "built", "held", "forwarded", "thrown"}

\* TypeOK with the contents: what a call left in a Message is a message of the
\* domain, and so is what was sent; there is an object when one is built or held.
Typed ==
  /\ dom \in Domains /\ stage \in Stages /\ out.ok \in BOOLEAN
  /\ IsMessage(T, mem) /\ IsMessage(T, wire) /\ IsMessage(T, onward) /\ IsMessage(T, obj.mem)
  /\ asked \in [by : Makers, msg : DOMAIN T \cup {"none"}, args : {asked.args}, ok : BOOLEAN]
  /\ obj = [cls |-> obj.cls, f |-> obj.f, mem |-> obj.mem]
  /\ obj.cls \in DOMAIN ClassesOf \cup {"none"}
  /\ obj.cls # "none" => obj.f \in FieldsOf(M, Marks)
  /\ stage \in {"built", "held"} => obj.cls # "none"

\* The types with the contents are the types.
LEMMA TypedImplies == Typed => TypeOK
<1> SUFFICES ASSUME Typed PROVE TypeOK
  OBVIOUS
<1>1. dom \in DOMAIN Tables /\ IsTable(T)
  BY ExchangeAssumption, TablesAreTyped DEF Typed, T
<1>2. ASSUME NEW z, IsMessage(T, z)
      PROVE  z.tag \in DOMAIN T \cup {"none"} /\ (z.tag # "none" => DOMAIN z.f = DOMAIN T[z.tag].fields)
  BY <1>2 DEF IsMessage, Names
<1>3. obj.cls # "none" => DOMAIN obj.f = DOMAIN M.fields
  BY DEF Typed, FieldsOf
<1>4. asked.ok \in BOOLEAN /\ asked.by \in Makers
  BY DEF Typed
<1> QED BY <1>2, <1>3, <1>4 DEF Typed, TypeOK, MessageTypeOK, Makers, Stages

\* A Message no member of which is selected is one of any table.
LEMMA FreshType == ASSUME NEW T0, NEW b PROVE IsMessage(T0, Fresh(b))
BY DEF IsMessage, Fresh, Names

\* The exchange starts with a cleared or an uninitialised Message and no object.
LEMMA TypedInit == Init => Typed
<1> SUFFICES ASSUME Init PROVE Typed
  OBVIOUS
<1>1. IsMessage(T, mem) /\ IsMessage(T, wire) /\ IsMessage(T, onward) /\ IsMessage(T, obj.mem)
  BY FreshType DEF Init, MessageInit, NoObject
<1> QED BY <1>1 DEF Init, MessageInit, Typed, NotRead, Nothing, NoObject, Makers, Stages

\* One call of a constructor by the sender, whatever it is for.
LEMMA TypedConstruct ==
  ASSUME Typed, NEW msg \in DOMAIN T, NEW a \in FieldsOf(T[msg], Marks),
         NEW left \in Slots(Marks), Construct(msg, a, left), UNCHANGED <<obj, onward>>,
         stage' \in {"build", "called"}
  PROVE  Typed'
<1>1. IsTable(T) /\ T' = T /\ ClassesOf' = ClassesOf /\ dom' = dom
  BY ExchangeAssumption, TablesAreTyped DEF Typed, T, Construct, ClassesOf
<1>2. IsMessage(T, mem') /\ wire' = wire /\ out' = out /\ asked'.args = a
      /\ asked' \in [by : Makers, msg : DOMAIN T, args : {a}, ok : BOOLEAN]
  BY <1>1, ConstructedType DEF Construct, Typed, Makers
<1>3. M' = M
  BY <1>1 DEF M, C
<1> QED BY <1>1, <1>2, <1>3 DEF Typed, Stages

\* Every step keeps every Message and the object in their types.
LEMMA TypedStep == Typed /\ [Next]_vars => Typed'
<1> SUFFICES ASSUME Typed, [Next]_vars
             PROVE  Typed'
  OBVIOUS
<1>a. dom \in DOMAIN Tables /\ IsTable(T)
  BY ExchangeAssumption, TablesAreTyped DEF Typed, T
<1>b. Leftovers \subseteq Slots(Marks)
  BY SlotType
<1>c. ASSUME dom' = dom
      PROVE  T' = T /\ ClassesOf' = ClassesOf
  BY <1>c DEF T, ClassesOf
<1>d. ASSUME dom' = dom, obj' = obj
      PROVE  M' = M
  BY <1>c, <1>d DEF M, C
<1>e. \A msg \in DOMAIN T : \A x \in DOMAIN T[msg].fields : IsField(T[msg].fields[x])
  BY <1>a DEF IsTable, IsSchema
<1>1. CASE Use /\ UNCHANGED <<obj, onward>>
  <2>1. PICK msg \in DOMAIN T, left \in Leftovers :
          Construct(msg, [x \in DOMAIN T[msg].fields |-> Slot(TRUE, "some", "first")], left)
    BY <1>1 DEF Use
  <2>2. [x \in DOMAIN T[msg].fields |-> Slot(TRUE, "some", "first")] \in FieldsOf(T[msg], Marks)
    BY <1>e, ArgumentsType DEF Calls, Marks
  <2>3. stage' = "build"
    BY <1>1 DEF Use
  <2> QED BY <1>1, <1>b, <2>1, <2>2, <2>3, TypedConstruct
<1>2. CASE Build /\ UNCHANGED <<obj, onward>>
  <2>0. PICK msg \in DOMAIN T : \E left \in Leftovers, a \in Arguments(T[msg], "second") :
          Construct(msg, a, left)
    BY <1>2 DEF Build
  <2>1. PICK left \in Leftovers, a \in Arguments(T[msg], "second") : Construct(msg, a, left)
    BY <2>0
  <2>2. a \in FieldsOf(T[msg], Marks)
    BY <1>e, ArgumentsType DEF Calls, Marks
  <2>3. stage' = "called"
    BY <1>2 DEF Build
  <2> QED BY <1>2, <1>b, <2>1, <2>2, <2>3, TypedConstruct
<1>3. CASE Send /\ UNCHANGED <<obj, onward>>
  <2>1. IsMessage(T, wire') /\ dom' = dom /\ stage' = "sent"
    BY <1>3, <1>a, TransmittedType DEF Send, Typed
  <2>2. UNCHANGED <<mem, asked, out, obj, onward>>
    BY <1>3 DEF Send
  <2> QED BY <1>c, <1>d, <2>1, <2>2 DEF Typed, Stages
<1>4. CASE Foreign /\ UNCHANGED <<obj, onward>>
  <2>0. PICK msg \in DOMAIN T : \E a \in Foreigners(T[msg], "second") :
          LET sent == [tag |-> msg, f |-> a, clean |-> FALSE]
          IN  /\ Encodable(T, sent)
              /\ wire' = Transmitted(T, sent)
              /\ asked' = [by |-> "other", msg |-> msg, args |-> a, ok |-> TRUE]
    BY <1>4 DEF Foreign
  <2>1. PICK a \in Foreigners(T[msg], "second") :
          LET sent == [tag |-> msg, f |-> a, clean |-> FALSE]
          IN  /\ Encodable(T, sent)
              /\ wire' = Transmitted(T, sent)
              /\ asked' = [by |-> "other", msg |-> msg, args |-> a, ok |-> TRUE]
    BY <2>0
  <2>2. a \in FieldsOf(T[msg], Marks)
    BY <1>e, ArgumentsType DEF Calls, Marks
  <2>3. IsMessage(T, [tag |-> msg, f |-> a, clean |-> FALSE])
    BY <1>a, <2>2 DEF IsMessage, Names, FieldsOf, IsTable
  <2>4. IsMessage(T, wire')
    BY <1>a, <2>1, <2>3, TransmittedType
  <2>5. asked' \in [by : Makers, msg : DOMAIN T \cup {"none"}, args : {asked'.args}, ok : BOOLEAN]
    BY <2>1 DEF Makers
  <2>6. UNCHANGED <<dom, mem, out, obj, onward>> /\ stage' = "sent"
    BY <1>4 DEF Foreign
  <2> QED BY <1>c, <1>d, <2>4, <2>5, <2>6 DEF Typed, Stages
<1>5. ASSUME NEW stray \in BOOLEAN, Receive(stray), UNCHANGED <<obj, onward>>
      PROVE  Typed'
  <2>1. UNCHANGED <<dom, mem, asked, wire, obj, onward>> /\ stage' = "read" /\ out'.ok \in BOOLEAN
    BY <1>5 DEF Receive, NotRead
  <2> QED BY <1>c, <1>d, <2>1 DEF Typed, Stages
\* Sending an object, new or received.
<1>6. ASSUME NEW packed, IsMessage(T, packed), NEW how \in {"raw", "value"}, Deliver(packed, how),
             obj' = [obj EXCEPT !.mem = packed] \/ obj' = obj
      PROVE  Typed'
  <2>1. dom' = dom /\ UNCHANGED <<mem, out>> /\ IsMessage(T, Transmitted(T, packed))
    BY <1>6, <1>a, TransmittedType DEF Deliver
  <2>2. /\ obj' = [cls |-> obj.cls, f |-> obj.f, mem |-> obj'.mem]
        /\ obj'.cls = obj.cls /\ obj'.f = obj.f /\ (obj'.mem = packed \/ obj'.mem = obj.mem)
    <3>1. obj = [cls |-> obj.cls, f |-> obj.f, mem |-> obj.mem]
      BY DEF Typed
    <3> QED BY <1>6, <3>1
  <2>3. M' = M
    BY <1>c, <2>1, <2>2 DEF M, C
  <2>4. IsMessage(T, obj'.mem)
    BY <1>6, <2>2 DEF Typed
  <2>5. CASE stage = "built"
    <3>1. /\ wire' = Transmitted(T, packed) /\ stage' = "sent" /\ onward' = onward
          /\ asked' = [asked EXCEPT !.by = how]
      BY <1>6, <2>5 DEF Deliver
    <3>2. asked' \in [by : Makers, msg : DOMAIN T \cup {"none"}, args : {asked'.args}, ok : BOOLEAN]
      BY <1>6, <3>1 DEF Typed, Makers
    <3> QED BY <1>c, <2>1, <2>2, <2>3, <2>4, <3>1, <3>2 DEF Typed, Stages
  <2>6. CASE stage # "built"
    <3>1. onward' = Transmitted(T, packed) /\ stage' = "forwarded" /\ UNCHANGED <<wire, asked>>
      BY <1>6, <2>6 DEF Deliver
    <3> QED BY <1>c, <2>1, <2>2, <2>3, <2>4, <3>1 DEF Typed, Stages
  <2> QED BY <2>5, <2>6
<1>7. CASE SendByValue
  <2>1. IsMessage(T, obj.mem)
    BY DEF Typed
  <2> QED BY <1>6, <1>7, <2>1 DEF SendByValue
<1>8. ASSUME NEW left \in Leftovers, SendRaw(left)
      PROVE  Typed'
  <2>1. stage \in {"built", "held"} /\ obj.cls # "none" /\ obj.cls \in DOMAIN ClassesOf
    BY <1>8 DEF SendRaw, Typed
  <2>2. IsClass(T, C)
    BY <1>a, <2>1, TablesAreTyped DEF T, C, ClassesOf
  <2>3. PICK packer \in IF stage = "built" THEN {C.packer} ELSE C.again :
          LET packed == Packed(T, C, packer, obj.f, obj.mem, left)
          IN  IF C.strict /\ PackFails(T, C, packer, obj.f)
              THEN stage' = "thrown" /\ UNCHANGED <<dom, mem, asked, wire, out, obj, onward>>
              ELSE Deliver(packed, "raw") /\ obj' = [obj EXCEPT !.mem = packed]
    BY <1>8 DEF SendRaw
  <2>4. packer \in DOMAIN T
    BY <2>2 DEF IsClass
  <2>5. \A x \in DOMAIN obj.f : obj.f[x] \in Slots(Marks)
    BY <2>1 DEF Typed, FieldsOf
  <2>6. IsMessage(T, Packed(T, C, packer, obj.f, obj.mem, left))
    BY <1>a, <1>b, <2>4, <2>5, PackedType DEF Typed
  <2>7. CASE C.strict /\ PackFails(T, C, packer, obj.f)
    <3>1. stage' = "thrown" /\ UNCHANGED <<dom, mem, asked, wire, out, obj, onward>>
      BY <2>3, <2>7
    <3> QED BY <1>c, <1>d, <3>1 DEF Typed, Stages
  <2>8. CASE ~(C.strict /\ PackFails(T, C, packer, obj.f))
    BY <1>6, <2>3, <2>6, <2>8
  <2> QED BY <2>7, <2>8
<1>9. ASSUME NEW left \in Leftovers, NEW cls \in DOMAIN ClassesOf, NEW stray \in BOOLEAN,
             New(cls, stray, left)
      PROVE  Typed'
  <2> DEFINE c == ClassesOf[cls]
             m == T[c.msg]
  <2>1. PICK a \in ClassArguments(c, m, "user") :
          /\ asked' = [by |-> "class", msg |-> c.msg, args |-> a, ok |-> ~PackFails(T, c, c.packer, a)]
          /\ obj' = [cls |-> cls, f |-> Members(c, m, a, stray),
                     mem |-> IF c.direct THEN Constructed(T, m, a, Fresh(TRUE), left)
                             ELSE Fresh(TRUE)]
    BY <1>9 DEF New
  <2>2. UNCHANGED <<dom, mem, wire, out, onward>> /\ stage' = "built"
    BY <1>9 DEF New
  <2>3. c.msg \in DOMAIN T /\ cls # "none"
    BY <1>a, TablesAreTyped DEF T, ClassesOf, IsClass
  <2>4. a \in FieldsOf(m, Marks)
    BY <1>e, <2>3, ClassArgumentsType DEF Calls, Marks
  <2>5. Members(c, m, a, stray) \in FieldsOf(m, Marks)
    BY <2>4, MembersType
  <2>6. IsMessage(T, Constructed(T, m, a, Fresh(TRUE), left)) /\ IsMessage(T, Fresh(TRUE))
    BY <1>a, <1>b, <2>3, <2>4, ConstructedType, FreshType
  <2>7. M' = m
    BY <1>c, <2>1, <2>2 DEF M, C
  <2>8. asked' \in [by : Makers, msg : DOMAIN T \cup {"none"}, args : {asked'.args}, ok : BOOLEAN]
    BY <2>1, <2>3 DEF Makers
  <2> HIDE DEF c, m
  <2>9. /\ obj' = [cls |-> obj'.cls, f |-> obj'.f, mem |-> obj'.mem]
        /\ obj'.cls = cls /\ obj'.f \in FieldsOf(m, Marks) /\ IsMessage(T, obj'.mem)
    BY <2>1, <2>5, <2>6
  <2> QED BY <1>c, <2>2, <2>3, <2>7, <2>8, <2>9 DEF Typed, Stages
<1>10. ASSUME NEW left \in Leftovers, NEW cls \in DOMAIN ClassesOf, NEW stray \in BOOLEAN,
              Wrap(cls, stray, left)
       PROVE  Typed'
  <2> DEFINE c == ClassesOf[cls]
             o == Restored(T, c, wire, stray, left)
  <2>1. UNCHANGED <<dom, mem, asked, wire, out, onward>>
    BY <1>10 DEF Wrap
  <2>2. CASE stage' = "thrown" /\ UNCHANGED obj
    BY <1>c, <1>d, <2>1, <2>2 DEF Typed, Stages
  <2>3. CASE stage' = "held" /\ obj' = [cls |-> cls, f |-> o.f, mem |-> o.mem]
    <3>1. IsClass(T, c) /\ cls # "none"
      BY <1>a, TablesAreTyped DEF T, ClassesOf
    <3>2. o.f \in FieldsOf(T[c.msg], Marks) /\ IsMessage(T, o.mem)
      BY <1>a, <1>b, <3>1, RestoredType DEF Typed
    <3>3. M' = T[c.msg]
      BY <1>c, <2>1, <2>3 DEF M, C
    <3> HIDE DEF o, c
    <3>4. /\ obj' = [cls |-> obj'.cls, f |-> obj'.f, mem |-> obj'.mem]
          /\ obj'.cls = cls /\ obj'.f \in FieldsOf(T[c.msg], Marks) /\ IsMessage(T, obj'.mem)
      BY <2>3, <3>2
    <3> QED BY <1>c, <2>1, <2>3, <3>1, <3>3, <3>4 DEF Typed, Stages
  <2> QED BY <1>10, <2>2, <2>3 DEF Wrap
<1>11. CASE UNCHANGED vars
  BY <1>c, <1>d, <1>11 DEF vars, msgVars, Typed
<1> QED BY <1>1, <1>2, <1>3, <1>4, <1>5, <1>7, <1>8, <1>9, <1>10, <1>11 DEF Next, MessageNext

--------------------------------------------------------------------------
(* The C calls and what is received.                                       *)

\* The table of the exchange, and what it says of a message.
LEMMA Tabled ==
  ASSUME Typed
  PROVE  dom \in DOMAIN Tables /\ T = Tables[dom] /\ IsTable(T) /\ "none" \notin DOMAIN T
BY ExchangeAssumption, TablesAreTyped DEF Typed, T, IsTable

\* A step of the C functions, or of the classes.
LEMMA ConstructClean ==
  ASSUME Typed, NEW msg \in DOMAIN T, NEW a, NEW left, Construct(msg, a, left), ~asked'.ok
  PROVE  mem' = mem \/ <<dom, asked'.msg>> \in HalfBuilt
<1>1. asked'.msg = msg /\ (Refused(T[msg], a) \/ Failed(T[msg], a))
  BY DEF Construct
<1>2. CASE Refused(T[msg], a)
  BY <1>2 DEF Construct, Constructed
<1>3. CASE Failed(T[msg], a)
  <2>1. \E x \in DOMAIN T[msg].fields : T[msg].fields[x].fails # {}
    BY <1>3 DEF Failed
  <2>2. <<dom, msg>> \in HalfBuilt
    BY <2>1, Tabled, MessageFacts
  <2> QED BY <1>1, <2>2
<1> QED BY <1>1, <1>2, <1>3

\* What the call asked for is what w carries.
Carries(w) ==
  /\ w.tag = asked.msg \/ <<dom, asked.msg>> \in Renamed
  /\ \A x \in DOMAIN asked.args :
       \/ <<dom, <<asked.msg, x>>>> \in StaleFlags \/ Lost(dom, asked.msg, x, asked.args)
       \/ /\ x \in DOMAIN w.f
          /\ LET k == T[asked.msg].fields[x]
             IN  Same(k, Meant(k, asked.args[x]), w.f[x])

\* Between an accepted call and whad_send_message, the Message would be encoded as what
\* was asked for; and so it is, once it is sent.
Called ==
  /\ stage = "called" => asked.by = "c"
  /\ stage = "called" /\ asked.ok => Carries(Transmitted(T, mem))

\* A call of the C constructor on whatever the Message held.
LEMMA ConstructCarries ==
  ASSUME Typed, NEW msg \in DOMAIN T, NEW a \in FieldsOf(T[msg], Marks), NEW left,
         Construct(msg, a, left)
  PROVE  asked'.by = "c" /\ (asked'.ok => Carries(Transmitted(T, mem))')
<1>1. /\ asked'.by = "c" /\ asked'.msg = msg /\ asked'.args = a /\ dom' = dom /\ T' = T
      /\ asked'.ok = (~Refused(T[msg], a) /\ ~Failed(T[msg], a))
      /\ mem' = Constructed(T, T[msg], a, mem, left)
  BY DEF Construct, T
<1>2. DOMAIN a = DOMAIN T[msg].fields /\ IsMessage(T, mem)
  BY DEF FieldsOf, Typed
<1> SUFFICES ASSUME asked'.ok
             PROVE  Carries(Transmitted(T, mem))'
  BY <1>1
<1> DEFINE w == Transmitted(T, Constructed(T, T[msg], a, mem, left))
           m == T[msg]
<1>3. ~Refused(m, a) /\ ~Failed(m, a)
  BY <1>1
<1>4. Transmitted(T, mem)' = w
  BY <1>1
<1>5. T = Tables[dom] /\ dom \in DOMAIN Tables
  BY Tabled
<1> HIDE DEF T, w
<1>6. /\ w.tag = msg \/ <<dom, msg>> \in Renamed
      /\ \A x \in DOMAIN m.fields :
           \/ <<dom, <<msg, x>>>> \in StaleFlags \/ Lost(dom, msg, x, a)
           \/ /\ x \in DOMAIN w.f
              /\ Same(m.fields[x], Meant(m.fields[x], a[x]), w.f[x])
  BY <1>2, <1>3, <1>5, CallCarried DEF w
<1> QED BY <1>1, <1>2, <1>4, <1>6 DEF Carries

\* Only a call leads to whad_send_message, and it carries what it was asked to.
LEMMA CalledStep == Typed /\ Called /\ [Next]_vars => Called'
<1> SUFFICES ASSUME Typed, Called, [Next]_vars
             PROVE  Called'
  OBVIOUS
<1>0. \A msg \in DOMAIN T : \A x \in DOMAIN T[msg].fields : IsField(T[msg].fields[x])
  BY Tabled DEF IsTable, IsSchema
<1>1. CASE Build
  <2>1. PICK msg \in DOMAIN T : \E left \in Leftovers, a \in Arguments(T[msg], "second") :
          Construct(msg, a, left)
    BY <1>1 DEF Build
  <2>2. PICK left \in Leftovers, a \in Arguments(T[msg], "second") : Construct(msg, a, left)
    BY <2>1
  <2>3. a \in FieldsOf(T[msg], Marks)
    BY <1>0, ArgumentsType DEF Calls, Marks
  <2> QED BY <2>2, <2>3, ConstructCarries DEF Called
<1>2. CASE UNCHANGED vars
  BY <1>2 DEF Called, Carries, T, vars, msgVars
<1>3. CASE stage' # "called"
  BY <1>3 DEF Called
<1>4. CASE Next /\ stage' = "called"
  <2>1. Build
    BY <1>4
    DEF Next, MessageNext, Use, Send, Foreign, Receive, SendByValue, SendRaw, Deliver, New, Wrap
  <2> QED BY <1>1, <2>1
<1> QED BY <1>2, <1>3, <1>4

\* What another implementation sends is one of the calls of its message, encoded.
Sent == [tag |-> asked.msg, f |-> asked.args, clean |-> FALSE]
ForeignSent ==
  asked.by = "other" =>
    /\ asked.msg \in DOMAIN T /\ asked.args \in Calls(T[asked.msg])
    /\ Encodable(T, Sent) /\ wire = Transmitted(T, Sent)

\* Another implementation sends a call of its message, encoded.
LEMMA ForeignCall ==
  ASSUME Typed, Foreign
  PROVE  asked'.by = "other" /\ ForeignSent'
<1>0. \A msg \in DOMAIN T : \A x \in DOMAIN T[msg].fields : IsField(T[msg].fields[x])
  BY Tabled DEF IsTable, IsSchema
<1>1. PICK msg \in DOMAIN T : \E a \in Foreigners(T[msg], "second") :
         LET sent == [tag |-> msg, f |-> a, clean |-> FALSE]
         IN  /\ Encodable(T, sent)
             /\ wire' = Transmitted(T, sent)
             /\ asked' = [by |-> "other", msg |-> msg, args |-> a, ok |-> TRUE]
  BY DEF Foreign
<1>2. PICK a \in Foreigners(T[msg], "second") :
         LET sent == [tag |-> msg, f |-> a, clean |-> FALSE]
         IN  /\ Encodable(T, sent)
             /\ wire' = Transmitted(T, sent)
             /\ asked' = [by |-> "other", msg |-> msg, args |-> a, ok |-> TRUE]
  BY <1>1
<1>3. a \in Calls(T[msg]) /\ T' = T
  BY <1>0, ArgumentsType DEF Marks, Foreign, T
<1>4. Sent' = [tag |-> msg, f |-> a, clean |-> FALSE] /\ asked'.msg = msg /\ asked'.args = a
      /\ asked'.by = "other"
  BY <1>2 DEF Sent
<1> QED BY <1>2, <1>3, <1>4 DEF ForeignSent

\* whad_send_message sends what the call left, and nothing changes it afterwards.
LEMMA WireFaithfulStep == Typed /\ Called /\ WireFaithful /\ [Next]_vars => WireFaithful'
<1> SUFFICES ASSUME Typed, Called, WireFaithful, [Next]_vars,
                    stage' \notin {"build", "called"}, asked'.by = "c", asked'.ok
             PROVE  Carries(wire)'
  BY DEF WireFaithful, Carries
<1>1. CASE Send
  <2>1. Carries(Transmitted(T, mem)) /\ UNCHANGED <<dom, asked>> /\ wire' = Transmitted(T, mem)
    BY <1>1 DEF Called, Send
  <2> QED BY <2>1 DEF Carries, T
<1>2. CASE stage \notin {"build", "called"} /\ UNCHANGED <<dom, asked, wire>>
  <2>1. Carries(wire)
    BY <1>2 DEF WireFaithful, Carries
  <2> QED BY <1>2, <2>1 DEF Carries, T
<1>3. CASE UNCHANGED vars
  BY <1>2, <1>3 DEF vars, msgVars
<1>4. ASSUME NEW packed, NEW how \in {"raw", "value"}, Deliver(packed, how),
             stage \in {"built", "held"}
      PROVE  Carries(wire)'
  <2>1. CASE stage = "built"
    <3>1. asked' = [by |-> how, msg |-> asked.msg, args |-> asked.args, ok |-> asked.ok]
      BY <1>4, <2>1 DEF Deliver, Typed
    <3> QED BY <3>1
  <2>2. CASE stage = "held"
    BY <1>2, <1>4, <2>2 DEF Deliver
  <2> QED BY <1>4, <2>1, <2>2
<1>5. CASE SendByValue
  BY <1>4, <1>5 DEF SendByValue
<1>6. ASSUME NEW left \in Leftovers, SendRaw(left)
      PROVE  Carries(wire)'
  <2>1. \/ stage \in {"built", "held"} /\ UNCHANGED <<dom, asked, wire>>
        \/ stage \in {"built", "held"} /\ \E packed : Deliver(packed, "raw")
    BY <1>6 DEF SendRaw
  <2> QED BY <1>2, <1>4, <2>1
<1>7. CASE Use \/ Build \/ Foreign \/ \E stray \in BOOLEAN : Receive(stray)
  <2>1. CASE Use \/ Build
    BY <2>1 DEF Use, Build
  <2>2. CASE Foreign
    BY <2>2, ForeignCall
  <2>3. CASE \E stray \in BOOLEAN : Receive(stray)
    BY <1>2, <2>3 DEF Receive
  <2> QED BY <1>7, <2>1, <2>2, <2>3
<1>8. ASSUME NEW left \in Leftovers, NEW cls \in DOMAIN ClassesOf, NEW stray \in BOOLEAN,
             New(cls, stray, left) \/ Wrap(cls, stray, left)
      PROVE  Carries(wire)'
  <2>1. CASE New(cls, stray, left)
    <3>1. asked'.by = "class"
      BY <2>1 DEF New
    <3> QED BY <3>1
  <2>2. CASE Wrap(cls, stray, left)
    BY <1>2, <2>2 DEF Wrap
  <2> QED BY <1>8, <2>1, <2>2
<1> QED BY <1>1, <1>3, <1>5, <1>6, <1>7, <1>8 DEF Next, MessageNext

\* What the sender's steps leave of the call and of what was sent.
LEMMA CallKept ==
  ASSUME Typed, Called, stage = "built" => asked.by = "class", [Next]_vars
  PROVE  \/ asked'.by \in {"c", "class", "raw", "value"}
         \/ Foreign
         \/ stage \notin {"build", "called", "built"} /\ UNCHANGED <<dom, asked, wire>>
         \/ UNCHANGED <<dom, asked, wire, stage>>
<1> DEFINE P == \/ asked'.by \in {"c", "class", "raw", "value"}
                \/ Foreign
                \/ stage \notin {"build", "called", "built"} /\ UNCHANGED <<dom, asked, wire>>
                \/ UNCHANGED <<dom, asked, wire, stage>>
<1> SUFFICES P
  OBVIOUS
<1>1. CASE UNCHANGED vars
  BY <1>1 DEF vars, msgVars
<1>2. CASE Use \/ Build
  <2>1. ASSUME NEW msg, NEW a, NEW left, Construct(msg, a, left)
        PROVE  asked'.by = "c"
    BY <2>1 DEF Construct
  <2> QED BY <1>2, <2>1 DEF Use, Build
<1>3. CASE Send
  BY <1>3 DEF Send, Called
<1>4. CASE Foreign
  BY <1>4
<1>5. CASE \E stray \in BOOLEAN : Receive(stray)
  BY <1>5 DEF Receive
<1>6. ASSUME NEW packed, NEW how \in {"raw", "value"}, Deliver(packed, how),
             stage \in {"built", "held"}
      PROVE  P
  <2>1. CASE stage = "built"
    <3>1. asked' = [by |-> how, msg |-> asked.msg, args |-> asked.args, ok |-> asked.ok]
      BY <1>6, <2>1 DEF Deliver, Typed
    <3> QED BY <3>1
  <2>2. CASE stage = "held"
    BY <1>6, <2>2 DEF Deliver
  <2> QED BY <1>6, <2>1, <2>2
<1>7. CASE SendByValue
  BY <1>6, <1>7 DEF SendByValue
<1>8. ASSUME NEW left \in Leftovers, SendRaw(left)
      PROVE  P
  <2>1. \/ stage \in {"built", "held"} /\ UNCHANGED <<dom, asked, wire>>
        \/ stage \in {"built", "held"} /\ \E packed : Deliver(packed, "raw")
    BY <1>8 DEF SendRaw
  <2> QED BY <1>6, <2>1
<1>9. ASSUME NEW left \in Leftovers, NEW cls \in DOMAIN ClassesOf, NEW stray \in BOOLEAN,
             New(cls, stray, left) \/ Wrap(cls, stray, left)
      PROVE  P
  <2>1. CASE New(cls, stray, left)
    <3>1. asked'.by = "class"
      BY <2>1 DEF New
    <3> QED BY <3>1
  <2>2. CASE Wrap(cls, stray, left)
    BY <2>2 DEF Wrap
  <2> QED BY <1>9, <2>1, <2>2
<1> QED BY <1>1, <1>2, <1>3, <1>4, <1>5, <1>7, <1>8, <1>9 DEF Next, MessageNext

\* What another implementation has sent stays as it was sent.
LEMMA ForeignSentStep ==
  Typed /\ Called /\ (stage = "built" => asked.by = "class") /\ ForeignSent /\ [Next]_vars
    => ForeignSent'
<1> SUFFICES ASSUME Typed, Called, stage = "built" => asked.by = "class", ForeignSent, [Next]_vars,
                    asked'.by = "other"
             PROVE  ForeignSent'
  BY DEF ForeignSent
<1>1. CASE Foreign
  BY <1>1, ForeignCall
<1>2. CASE UNCHANGED <<dom, asked, wire>>
  BY <1>2 DEF ForeignSent, Sent, T
<1> QED BY <1>1, <1>2, CallKept

\* What the parser of the type made of what was received.
ReadOut ==
  IF stage = "read"
  THEN /\ wire.tag \in DOMAIN T /\ T[wire.tag].parser
       /\ out.ok = ~Rejected(T[wire.tag], wire)
       /\ out.ok => \E stray \in BOOLEAN : out.f = Parsed(T[wire.tag], wire, stray)
  ELSE ~out.ok

\* Only the parser of the type of what was received returns something.
LEMMA ReadOutStep == Typed /\ ReadOut /\ [Next]_vars => ReadOut'
<1> SUFFICES ASSUME Typed, ReadOut, [Next]_vars
             PROVE  ReadOut'
  OBVIOUS
<1>1. ASSUME NEW stray \in BOOLEAN, Receive(stray)
      PROVE  ReadOut'
  <2>1. wire.tag \in DOMAIN T /\ T[wire.tag].parser /\ stage' = "read" /\ UNCHANGED <<dom, wire>>
    BY <1>1 DEF Receive, Typed, IsMessage
  <2>2. out' = IF Rejected(T[wire.tag], wire) THEN [ok |-> FALSE, f |-> <<>>]
               ELSE [ok |-> TRUE, f |-> Parsed(T[wire.tag], wire, stray)]
    BY <1>1 DEF Receive, NotRead
  <2>3. CASE Rejected(T[wire.tag], wire)
    BY <2>1, <2>2, <2>3 DEF ReadOut, T
  <2>4. CASE ~Rejected(T[wire.tag], wire)
    BY <2>1, <2>2, <2>4 DEF ReadOut, T
  <2> QED BY <2>3, <2>4
<1>2. CASE stage # "read" /\ stage' # "read" /\ out' = out
  BY <1>2 DEF ReadOut
<1>3. CASE UNCHANGED vars
  BY <1>3 DEF ReadOut, T, vars, msgVars
<1> QED
  BY <1>1, <1>2, <1>3
  DEF Next, MessageNext, Use, Build, Construct, Send, Foreign, SendByValue, SendRaw, Deliver,
      New, Wrap

\* A parser that reads every part of a field returns the field.
LEMMA ParsersAgreeRead == Typed /\ ReadOut => ParsersAgree
<1> SUFFICES ASSUME Typed, ReadOut, out.ok, NEW x \in DOMAIN wire.f,
                    ~MisreadIn(dom, wire.tag, x, wire.f), <<dom, <<wire.tag, x>>>> \notin Uncounted
             PROVE  Same(T[wire.tag].fields[x], out.f[x], wire.f[x])
  BY DEF ParsersAgree
<1>1. dom \in DOMAIN Tables /\ T = Tables[dom] /\ "none" \notin DOMAIN T
  BY Tabled
<1>2. wire.tag \in DOMAIN T /\ T[wire.tag].parser
  BY DEF ReadOut
<1> DEFINE m == T[wire.tag]
<1>3. PICK stray \in BOOLEAN : out.f = Parsed(m, wire, stray)
  BY DEF ReadOut
<1>4. SchemaSound(dom, T, wire.tag) /\ <<dom, wire.tag>> \notin Unheard
  BY <1>1, <1>2, TablesSound DEF SchemaSound
<1>5. DOMAIN wire.f = DOMAIN m.fields /\ wire.f[x] \in Slots(Marks)
  BY <1>1, <1>2 DEF Typed, IsMessage, Names
<1>6. ~m.fields[x].strays /\ Read(m.fields[x], wire.f[x]) = wire.f[x]
  BY <1>4, <1>5, WellRead
<1>7. out.f[x] = wire.f[x]
  BY <1>3, <1>5, <1>6 DEF Parsed
<1> QED BY <1>7 DEF Same

\* The parser and the constructor have the same limits.
LEMMA LimitsAgreeRead == Typed /\ ReadOut /\ ForeignSent => LimitsAgree
<1> SUFFICES ASSUME Typed, ReadOut, ForeignSent, stage = "read", asked.by = "other",
                    <<dom, asked.msg>> \notin Lenient
             PROVE  out.ok <=> ~Refused(T[asked.msg], asked.args) /\ ~Failed(T[asked.msg], asked.args)
  BY DEF LimitsAgree
<1>1. dom \in DOMAIN Tables /\ T = Tables[dom] /\ out.ok \in BOOLEAN
  BY Tabled DEF Typed
<1>2. /\ asked.msg \in DOMAIN T /\ asked.args \in Calls(T[asked.msg])
      /\ Encodable(T, Sent) /\ wire = Transmitted(T, Sent) /\ wire.tag = asked.msg
  BY DEF ForeignSent, Transmitted, Sent
<1>3. T[asked.msg].parser /\ out.ok = ~Rejected(T[asked.msg], wire)
  BY <1>2 DEF ReadOut
<1>4. Rejected(T[asked.msg], wire)
        <=> Refused(T[asked.msg], asked.args) \/ Failed(T[asked.msg], asked.args)
  BY <1>1, <1>2, <1>3, SameVerdict DEF Sent
<1> QED BY <1>1, <1>3, <1>4

--------------------------------------------------------------------------
(* The classes.                                                            *)

\* What getRaw() makes of an object is a message of the domain.
LEMMA SentTyped ==
  ASSUME Typed, stage \in {"built", "held"}, NEW left \in Leftovers,
         NEW packer \in IF stage = "built" THEN {C.packer} ELSE C.again
  PROVE  IsMessage(T, Packed(T, C, packer, obj.f, obj.mem, left))
<1>1. obj.cls # "none" /\ obj.cls \in DOMAIN ClassesOf
  BY DEF Typed
<1>2. IsTable(T) /\ IsClass(T, C)
  BY <1>1, Tabled, TablesAreTyped DEF C, ClassesOf
<1>3. packer \in DOMAIN T
  BY <1>2 DEF IsClass
<1>4. \A x \in DOMAIN obj.f : obj.f[x] \in Slots(Marks)
  BY <1>1 DEF Typed, FieldsOf
<1>5. left \in Slots(Marks) /\ IsMessage(T, obj.mem)
  BY SlotType DEF Typed
<1> QED BY <1>2, <1>3, <1>4, <1>5, PackedType

\* An object just built: its members and its Message are what the constructor of its
\* class makes of the arguments.
Built ==
  stage = "built" =>
    /\ asked.by = "class" /\ obj.cls \in DOMAIN ClassesOf
    /\ asked.msg = C.msg /\ asked.args \in Given(C, M)
    /\ asked.ok = ~PackFails(T, C, C.packer, asked.args)
    /\ NewObject(T, C, M, asked.args, obj.f, obj.mem)

\* A new object is what its constructor makes of its arguments.
LEMMA BuiltNew ==
  ASSUME Typed, NEW left \in Leftovers, NEW cls \in DOMAIN ClassesOf, NEW stray \in BOOLEAN,
         New(cls, stray, left)
  PROVE  Built'
<1> DEFINE c == ClassesOf[cls]
           m == T[c.msg]
<1>1. PICK a \in ClassArguments(c, m, "user") :
        /\ asked' = [by |-> "class", msg |-> c.msg, args |-> a, ok |-> ~PackFails(T, c, c.packer, a)]
        /\ obj' = [cls |-> cls, f |-> Members(c, m, a, stray),
                   mem |-> IF c.direct THEN Constructed(T, m, a, Fresh(TRUE), left)
                           ELSE Fresh(TRUE)]
  BY DEF New
<1>2. dom' = dom /\ T' = T /\ ClassesOf' = ClassesOf
  BY DEF New, T, ClassesOf
<1>3. C' = c /\ M' = m
  BY <1>1, <1>2 DEF C, M
<1>4. c.msg \in DOMAIN T /\ \A x \in DOMAIN m.fields : IsField(m.fields[x])
  BY Tabled, TablesAreTyped DEF ClassesOf, IsClass, IsTable, IsSchema
<1>5. a \in Given(c, m)
  BY <1>4, ClassArgumentsType DEF Given, Marks
<1> HIDE DEF c, m
<1>6. /\ asked'.by = "class" /\ asked'.msg = c.msg /\ asked'.args = a
      /\ asked'.ok = ~PackFails(T, c, c.packer, a)
      /\ obj'.cls = cls /\ obj'.f = Members(c, m, a, stray)
      /\ obj'.mem = IF c.direct THEN Constructed(T, m, a, Fresh(TRUE), left) ELSE Fresh(TRUE)
  BY <1>1
<1>7. NewObject(T, c, m, a, obj'.f, obj'.mem)
  BY <1>6 DEF NewObject
<1> QED BY <1>2, <1>3, <1>5, <1>6, <1>7 DEF Built

\* An object that was built stays as it is until it is sent.
LEMMA BuiltStep == Typed /\ Built /\ [Next]_vars => Built'
<1> SUFFICES ASSUME Typed, Built, [Next]_vars
             PROVE  Built'
  OBVIOUS
<1>1. ASSUME NEW left \in Leftovers, NEW cls \in DOMAIN ClassesOf, NEW stray \in BOOLEAN,
             New(cls, stray, left)
      PROVE  Built'
  BY <1>1, BuiltNew
<1>2. CASE UNCHANGED vars
  BY <1>2 DEF Built, C, M, T, ClassesOf, vars, msgVars
<1>3. CASE stage' # "built"
  BY <1>3 DEF Built
<1> QED
  BY <1>1, <1>2, <1>3
  DEF Next, MessageNext, Use, Build, Send, Foreign, Receive, SendByValue, SendRaw, Deliver, Wrap

\* What is sent of an object that was built, by getRaw().
LEMMA BuiltSent ==
  ASSUME Typed, Built, NEW left \in Leftovers, SendRaw(left), stage = "built", stage' = "sent"
  PROVE  ClassCarries' /\ NothingUnasked'
<1> DEFINE packed == Packed(T, C, C.packer, obj.f, obj.mem, left)
           w == Transmitted(T, packed)
           a == asked.args
           cls == obj.cls
           f == obj.f
           z == obj.mem
<1>1. Deliver(packed, "raw") /\ obj' = [obj EXCEPT !.mem = packed]
  BY DEF SendRaw
<1>2. /\ dom' = dom /\ Encodable(T, packed) /\ wire' = w
      /\ asked' = [by |-> "raw", msg |-> asked.msg, args |-> a, ok |-> asked.ok]
  BY <1>1 DEF Deliver, Typed
<1>3. obj'.cls = obj.cls
  BY <1>1 DEF Typed
<1>4. T' = T /\ C' = C /\ M' = M /\ ClassesOf' = ClassesOf
  BY <1>2, <1>3 DEF T, ClassesOf, C, M
<1>5. /\ obj.cls \in DOMAIN ClassesOf /\ a \in Given(C, M) /\ asked.msg = C.msg
      /\ asked.ok = ~PackFails(T, C, C.packer, a)
  BY DEF Built
<1>6. NewObject(T, C, M, a, f, z)
  BY DEF Built
<1>7. About(dom, C, T, M)
  BY Tabled DEF About, M
<1>8. dom \in DOMAIN Tables /\ ClassSound(dom, cls, C)
  BY <1>5, Tabled, ClassesSound DEF ClassesOf, C, M
<1>9. DOMAIN a = DOMAIN M.fields
  BY <1>5 DEF Given, Calls, FieldsOf
<1>10. ASSUME asked.ok, <<dom, cls>> \notin Strange
       PROVE  /\ w.tag = M.tag
              /\ \A x \in DOMAIN a :
                   \/ Lost(dom, C.msg, x, a) \/ <<dom, <<cls, x>>>> \in Garbled
                   \/ <<dom, <<cls, x>>>> \in Shortened /\ a[x].len = "over"
                   \/ /\ x \in DOMAIN w.f
                      /\ Same(M.fields[x], Meant(M.fields[x], a[x]), w.f[x])
  <2>1. ~PackFails(T, C, C.packer, a)
    BY <1>5, <1>10
  <2>2. a \in Given(C, M) /\ w = Transmitted(T, Packed(T, C, C.packer, f, z, left))
    BY <1>5
  <2> HIDE DEF w, a, cls, f, z, packed
  <2>3. /\ w.tag = M.tag
        /\ \A x \in DOMAIN M.fields :
             \/ Lost(dom, C.msg, x, a) \/ <<dom, <<cls, x>>>> \in Garbled
             \/ <<dom, <<cls, x>>>> \in Shortened /\ a[x].len = "over"
             \/ /\ x \in DOMAIN w.f
                /\ Same(M.fields[x], Meant(M.fields[x], a[x]), w.f[x])
    BY <1>6, <1>7, <1>8, <1>10, <2>1, <2>2, ClassCarried
  <2> QED BY <1>9, <2>3
<1>11. ASSUME ~asked.ok, <<dom, cls>> \notin Unasked
       PROVE  w.tag = "none"
  <2>1. PackFails(T, C, C.packer, a)
    BY <1>5, <1>11
  <2>2. packed = Packed(T, C, C.packer, f, z, left) /\ a \in Given(C, M) /\ Encodable(T, packed)
    BY <1>2, <1>5
  <2> HIDE DEF a, cls, f, z, packed
  <2>3. packed.tag = "none"
    BY <1>6, <1>7, <1>8, <1>11, <2>1, <2>2, ClassSilent
  <2> QED BY <2>3 DEF Transmitted
<1> HIDE DEF w, a, packed, f, z
<1>12. asked'.ok = asked.ok /\ asked'.args = a
  BY <1>2
<1>13. ClassCarries'
  BY <1>2, <1>3, <1>4, <1>10, <1>12 DEF ClassCarries
<1>14. NothingUnasked'
  BY <1>2, <1>3, <1>11, <1>12 DEF NothingUnasked
<1> QED BY <1>13, <1>14

\* Only getRaw() on an object that was built makes a class the sender.
LEMMA SentByRaw ==
  ASSUME Typed, Called, [Next]_vars, stage' = "sent", asked'.by = "raw"
  PROVE  \/ UNCHANGED vars
         \/ stage = "built" /\ \E left \in Leftovers : SendRaw(left)
<1>1. CASE Send
  BY <1>1 DEF Send, Called
<1>2. CASE Foreign
  <2>1. asked'.by = "other"
    BY <1>2, ForeignCall
  <2> QED BY <2>1
<1>3. CASE SendByValue
  <2>1. asked' = [by |-> "value", msg |-> asked.msg, args |-> asked.args, ok |-> asked.ok]
    BY <1>3 DEF SendByValue, Deliver, Typed
  <2> QED BY <2>1
<1>4. ASSUME NEW left \in Leftovers, SendRaw(left)
      PROVE  stage = "built"
  BY <1>4 DEF SendRaw, Deliver
<1>5. CASE Use \/ Build \/ \E stray \in BOOLEAN : Receive(stray)
  BY <1>5 DEF Use, Build, Receive
<1>6. ASSUME NEW left \in Leftovers, NEW cls \in DOMAIN ClassesOf, NEW stray \in BOOLEAN,
             New(cls, stray, left) \/ Wrap(cls, stray, left)
      PROVE  FALSE
  BY <1>6 DEF New, Wrap
<1> QED BY <1>1, <1>2, <1>3, <1>4, <1>5, <1>6 DEF Next, MessageNext

\* Every step keeps what is said of an object that was sent.
LEMMA ClassSentStep ==
  Typed /\ Called /\ Built /\ ClassCarries /\ NothingUnasked /\ [Next]_vars
    => ClassCarries' /\ NothingUnasked'
<1> SUFFICES ASSUME Typed, Called, Built, ClassCarries, NothingUnasked, [Next]_vars
             PROVE  ClassCarries' /\ NothingUnasked'
  OBVIOUS
<1>1. CASE UNCHANGED vars
  BY <1>1 DEF ClassCarries, NothingUnasked, C, M, T, ClassesOf, vars, msgVars
<1>2. CASE ~(stage' = "sent" /\ asked'.by = "raw")
  BY <1>2 DEF ClassCarries, NothingUnasked
<1> QED BY <1>1, <1>2, SentByRaw, BuiltSent

\* What was sent has been encoded.
LEMMA ArrivedStep == Typed /\ Arrived(T, wire) /\ [Next]_vars => Arrived(T, wire)'
<1> SUFFICES ASSUME Typed, Arrived(T, wire), [Next]_vars
             PROVE  Arrived(T, wire)'
  OBVIOUS
<1>0. IsTable(T)
  BY Tabled
<1>1. ASSUME NEW z, IsMessage(T, z), Encodable(T, z), wire' = Transmitted(T, z), dom' = dom
      PROVE  Arrived(T, wire)'
  <2>1. Arrived(T, Transmitted(T, z))
    BY <1>0, <1>1, TransmittedType
  <2> QED BY <1>1, <2>1 DEF Arrived, T
<1>2. CASE UNCHANGED <<dom, wire>>
  BY <1>2 DEF Arrived, T
<1>3. CASE Use \/ Build \/ \E stray \in BOOLEAN : Receive(stray)
  <2>1. ASSUME NEW msg, NEW a, NEW left, Construct(msg, a, left)
        PROVE  UNCHANGED <<dom, wire>>
    BY <2>1 DEF Construct
  <2> QED BY <1>2, <1>3, <2>1 DEF Use, Build, Receive
<1>4. CASE Send
  BY <1>1, <1>4 DEF Send, Typed
<1>5. CASE Foreign
  <2>1. ForeignSent' /\ asked'.by = "other" /\ dom' = dom /\ T' = T
    BY <1>5, ForeignCall DEF Foreign, T
  <2>2. /\ asked'.msg \in DOMAIN T /\ asked'.args \in Calls(T[asked'.msg])
        /\ Encodable(T, Sent') /\ wire' = Transmitted(T, Sent')
    BY <2>1 DEF ForeignSent
  <2>3. Sent'.tag = asked'.msg /\ Sent'.f = asked'.args
    BY DEF Sent
  <2>4. IsMessage(T, Sent')
    BY <1>0, <2>2, <2>3, Tabled DEF IsMessage, Names, Calls, FieldsOf
  <2> QED BY <1>1, <2>1, <2>2, <2>4
<1>6. ASSUME NEW packed, IsMessage(T, packed), NEW how, Deliver(packed, how)
      PROVE  Arrived(T, wire)'
  BY <1>1, <1>2, <1>6 DEF Deliver
<1>7. CASE SendByValue
  BY <1>6, <1>7 DEF SendByValue, Typed
<1>8. ASSUME NEW left \in Leftovers, SendRaw(left)
      PROVE  Arrived(T, wire)'
  <2>1. PICK packer \in IF stage = "built" THEN {C.packer} ELSE C.again :
          \/ UNCHANGED <<dom, wire>>
          \/ Deliver(Packed(T, C, packer, obj.f, obj.mem, left), "raw")
    BY <1>8 DEF SendRaw
  <2>2. IsMessage(T, Packed(T, C, packer, obj.f, obj.mem, left))
    BY <1>8, SentTyped DEF SendRaw
  <2> QED BY <1>2, <1>6, <2>1, <2>2
<1>9. ASSUME NEW left \in Leftovers, NEW cls \in DOMAIN ClassesOf, NEW stray \in BOOLEAN,
             New(cls, stray, left) \/ Wrap(cls, stray, left)
      PROVE  Arrived(T, wire)'
  BY <1>2, <1>9 DEF New, Wrap
<1>10. CASE UNCHANGED vars
  BY <1>2, <1>10 DEF vars, msgVars
<1> QED BY <1>3, <1>4, <1>5, <1>7, <1>8, <1>9, <1>10 DEF Next, MessageNext

\* An object made from what was received: its Message is what was received, and so are
\* its members, but for what the parser misreads and what the class forgets.
Held ==
  stage = "held" =>
    /\ obj.cls \in DOMAIN ClassesOf /\ C.msg = wire.tag /\ C.reads # "absent"
    /\ <<dom, obj.cls>> \notin Blind =>
         /\ Like(dom, C.msg, wire, obj.mem)
         /\ \A x \in DOMAIN wire.f :
              \/ MisreadIn(dom, C.msg, x, wire.f) \/ <<dom, <<obj.cls, x>>>> \in Forgotten
              \/ <<dom, <<C.msg, x>>>> \in Uncounted /\ obj.f[x].len = "empty"
              \/ obj.f[x] = wire.f[x]

\* What the class of its type makes of a message.
LEMMA HeldWrap ==
  ASSUME Typed, Arrived(T, wire), NEW left \in Leftovers, NEW cls \in DOMAIN ClassesOf,
         NEW stray \in BOOLEAN, Wrap(cls, stray, left), stage' = "held"
  PROVE  Held'
<1> DEFINE c == ClassesOf[cls]
           m == T[c.msg]
           o == Restored(T, c, wire, stray, left)
<1>1. /\ c.reads # "absent" /\ c.msg = wire.tag
      /\ obj' = [cls |-> cls, f |-> o.f, mem |-> o.mem]
      /\ UNCHANGED <<dom, wire>>
  BY DEF Wrap
<1>2. dom \in DOMAIN Tables /\ ClassSound(dom, cls, c) /\ About(dom, c, T, m)
  BY Tabled, ClassesSound DEF ClassesOf, About
<1>3. IsMessage(T, wire)
  BY DEF Typed
<1>4. T' = T /\ ClassesOf' = ClassesOf
  BY <1>1 DEF T, ClassesOf
<1>5. C' = c
  BY <1>1, <1>4 DEF C
<1>6. o = Restored(T, c, wire, stray, left)
  OBVIOUS
<1> HIDE DEF c, m, o
<1>7. ASSUME <<dom, cls>> \notin Blind
      PROVE  /\ Like(dom, c.msg, wire, o.mem)
             /\ \A x \in DOMAIN wire.f :
                  \/ MisreadIn(dom, c.msg, x, wire.f) \/ <<dom, <<cls, x>>>> \in Forgotten
                  \/ <<dom, <<c.msg, x>>>> \in Uncounted /\ o.f[x].len = "empty"
                  \/ o.f[x] = wire.f[x]
  BY <1>1, <1>2, <1>3, <1>6, <1>7, ClassRestored
<1>8. obj'.cls = cls /\ obj'.f = o.f /\ obj'.mem = o.mem
  BY <1>1
<1> QED BY <1>1, <1>4, <1>5, <1>7, <1>8 DEF Held

\* An object that was received stays as it is until it is sent on.
LEMMA HeldStep == Typed /\ Arrived(T, wire) /\ Held /\ [Next]_vars => Held'
<1> SUFFICES ASSUME Typed, Arrived(T, wire), Held, [Next]_vars
             PROVE  Held'
  OBVIOUS
<1>1. ASSUME NEW left \in Leftovers, NEW cls \in DOMAIN ClassesOf, NEW stray \in BOOLEAN,
             Wrap(cls, stray, left)
      PROVE  Held'
  <2>1. CASE stage' = "held"
    BY <1>1, <2>1, HeldWrap
  <2>2. CASE stage' # "held"
    BY <2>2 DEF Held
  <2> QED BY <2>1, <2>2
<1>2. CASE UNCHANGED vars
  BY <1>2 DEF Held, C, T, ClassesOf, vars, msgVars
<1>3. CASE stage' # "held"
  BY <1>3 DEF Held
<1> QED
  BY <1>1, <1>2, <1>3
  DEF Next, MessageNext, Use, Build, Send, Foreign, Receive, SendByValue, SendRaw, Deliver, New

\* Members that equal what was received mean the same.
LEMMA HeldRestores == Typed /\ Held => ClassRestores
<1> SUFFICES ASSUME Typed, Held, stage = "held", <<dom, obj.cls>> \notin Blind, NEW x \in DOMAIN wire.f
             PROVE  \/ MisreadIn(dom, C.msg, x, wire.f) \/ <<dom, <<C.msg, x>>>> \in Uncounted
                    \/ <<dom, <<obj.cls, x>>>> \in Forgotten
                    \/ Same(M.fields[x], obj.f[x], wire.f[x])
  BY DEF ClassRestores
<1>1. \/ MisreadIn(dom, C.msg, x, wire.f) \/ <<dom, <<C.msg, x>>>> \in Uncounted
      \/ <<dom, <<obj.cls, x>>>> \in Forgotten
      \/ obj.f[x] = wire.f[x]
  BY DEF Held
<1>2. obj.f[x] = wire.f[x] => Same(M.fields[x], obj.f[x], wire.f[x])
  BY DEF Same
<1> QED BY <1>1, <1>2

\* What is sent on of an object that was received.
LEMMA HeldForwarded ==
  ASSUME Typed, Arrived(T, wire), Held, stage = "held", <<dom, obj.cls>> \notin Blind \cup Retyping,
         NEW packed, \/ packed = obj.mem
                     \/ \E packer \in C.again, left \in Leftovers :
                          packed = Packed(T, C, packer, obj.f, obj.mem, left)
  PROVE  LET w == Transmitted(T, packed)
         IN  /\ w.tag = wire.tag
             /\ \A x \in DOMAIN wire.f :
                  \/ MisreadIn(dom, C.msg, x, wire.f) \/ At(Spoilt, dom, C.msg, x, wire.f)
                  \/ <<dom, <<obj.cls, x>>>> \in Forgotten \cup Changed
                  \/ Same(T[wire.tag].fields[x], wire.f[x], w.f[x])
<1> DEFINE cls == obj.cls
           f == obj.f
           z == obj.mem
<1>1. cls \in DOMAIN ClassesOf /\ C.msg = wire.tag /\ C.reads # "absent"
      /\ <<dom, cls>> \notin Blind \cup Retyping
  BY DEF Held
<1>2. /\ Like(dom, C.msg, wire, z)
      /\ \A x \in DOMAIN wire.f :
           \/ MisreadIn(dom, C.msg, x, wire.f) \/ <<dom, <<cls, x>>>> \in Forgotten
           \/ <<dom, <<C.msg, x>>>> \in Uncounted /\ f[x].len = "empty"
           \/ f[x] = wire.f[x]
  BY DEF Held
<1>3. dom \in DOMAIN Tables /\ ClassSound(dom, cls, C) /\ About(dom, C, T, M)
  BY <1>1, Tabled, ClassesSound DEF ClassesOf, C, M, About
<1>4. IsMessage(T, wire) /\ f \in FieldsOf(M, Marks)
  BY <1>1, Tabled DEF Typed
<1>5. packed = z \/ \E packer \in C.again, left \in Leftovers : packed = Packed(T, C, packer, f, z, left)
  OBVIOUS
<1> HIDE DEF cls, f, z
<1>6. /\ packed.tag = wire.tag /\ DOMAIN packed.f = DOMAIN wire.f
      /\ \A x \in DOMAIN wire.f :
           \/ MisreadIn(dom, C.msg, x, wire.f) \/ At(Spoilt, dom, C.msg, x, wire.f)
           \/ <<dom, <<cls, x>>>> \in Forgotten \cup Changed
           \/ packed.f[x] = wire.f[x]
  <2>1. CASE packed = z
    BY <1>2, <2>1 DEF Like
  <2>2. ASSUME NEW packer \in C.again, NEW left \in Leftovers,
               packed = Packed(T, C, packer, f, z, left)
        PROVE  /\ packed.tag = wire.tag /\ DOMAIN packed.f = DOMAIN wire.f
               /\ \A x \in DOMAIN wire.f :
                    \/ MisreadIn(dom, C.msg, x, wire.f) \/ At(Spoilt, dom, C.msg, x, wire.f)
                    \/ <<dom, <<cls, x>>>> \in Forgotten \cup Changed
                    \/ packed.f[x] = wire.f[x]
    BY <1>1, <1>2, <1>3, <1>4, <2>2, ClassForwarded
  <2> QED BY <1>5, <2>1, <2>2
<1> DEFINE w == Transmitted(T, packed)
           k(x) == T[wire.tag].fields[x]
<1>7. w.tag = wire.tag /\ \A x \in DOMAIN wire.f :
        w.f[x] = IF Present(k(x), packed.f[x]) THEN packed.f[x] ELSE Zeroed
  BY <1>6 DEF Transmitted
<1> HIDE DEF w, k
<1>8. ASSUME NEW x \in DOMAIN wire.f, packed.f[x] = wire.f[x]
      PROVE  Same(k(x), wire.f[x], w.f[x])
  <2>1. Same(k(x), packed.f[x], IF Present(k(x), packed.f[x]) THEN packed.f[x] ELSE Zeroed)
    BY TransmittedSame
  <2> QED BY <1>7, <1>8, <2>1
<1> QED BY <1>6, <1>7, <1>8 DEF w, k, cls

\* Every step keeps what is said of an object that was sent on.
LEMMA ForwardStep ==
  Typed /\ Arrived(T, wire) /\ Held /\ ForwardStable /\ [Next]_vars => ForwardStable'
<1> SUFFICES ASSUME Typed, Arrived(T, wire), Held, ForwardStable, [Next]_vars
             PROVE  ForwardStable'
  OBVIOUS
<1>1. ASSUME NEW packed, NEW how, Deliver(packed, how), stage = "held", obj'.cls = obj.cls,
             \/ packed = obj.mem
             \/ \E packer \in C.again, left \in Leftovers :
                  packed = Packed(T, C, packer, obj.f, obj.mem, left)
      PROVE  ForwardStable'
  <2>1. UNCHANGED <<dom, wire>> /\ onward' = Transmitted(T, packed)
    BY <1>1 DEF Deliver
  <2>2. T' = T /\ C' = C
    BY <1>1, <2>1 DEF T, ClassesOf, C
  <2> DEFINE w == Transmitted(T, packed)
  <2>3. ASSUME <<dom, obj.cls>> \notin Blind \cup Retyping
        PROVE  /\ w.tag = wire.tag
               /\ \A x \in DOMAIN wire.f :
                    \/ MisreadIn(dom, C.msg, x, wire.f) \/ At(Spoilt, dom, C.msg, x, wire.f)
                    \/ <<dom, <<obj.cls, x>>>> \in Forgotten \cup Changed
                    \/ Same(T[wire.tag].fields[x], wire.f[x], w.f[x])
    BY <1>1, <2>3, HeldForwarded
  <2>4. onward' = w
    BY <2>1
  <2> HIDE DEF w
  <2> QED BY <1>1, <2>1, <2>2, <2>3, <2>4 DEF ForwardStable
<1>2. CASE stage' # "forwarded"
  BY <1>2 DEF ForwardStable
<1>3. CASE UNCHANGED vars
  BY <1>3 DEF ForwardStable, C, T, ClassesOf, vars, msgVars
<1>4. CASE SendByValue /\ stage' = "forwarded"
  <2>1. stage = "held"
    BY <1>4 DEF SendByValue, Deliver
  <2> QED BY <1>1, <1>4, <2>1 DEF SendByValue
<1>5. ASSUME NEW left \in Leftovers, SendRaw(left), stage' = "forwarded"
      PROVE  ForwardStable'
  <2>1. stage = "held"
    BY <1>5 DEF SendRaw, Deliver
  <2>2. PICK packer \in C.again :
          LET packed == Packed(T, C, packer, obj.f, obj.mem, left)
          IN  Deliver(packed, "raw") /\ obj' = [obj EXCEPT !.mem = packed]
    BY <1>5, <2>1 DEF SendRaw
  <2>3. obj'.cls = obj.cls
    BY <2>2 DEF Typed
  <2> QED BY <1>1, <2>1, <2>2, <2>3
<1>6. CASE stage' = "forwarded" /\ Next
  <2>1. \/ SendByValue
        \/ \E left \in Leftovers : SendRaw(left)
    BY <1>6 DEF Next, MessageNext, Use, Build, Send, Foreign, Receive, New, Wrap
  <2> QED BY <1>4, <1>5, <1>6, <2>1
<1> QED BY <1>2, <1>3, <1>6

--------------------------------------------------------------------------
(* The invariant, and what follows from it.                                *)

\* The messages have their types, what was sent was encoded, and each stage has what the
\* step that led to it made: the call, the object, what another implementation sent, what
\* the parser returned, the object that was restored.
ExchangeInv == Typed /\ Arrived(T, wire) /\ Called /\ ForeignSent /\ ReadOut /\ Built /\ Held

\* The invariant holds of a Message nobody has used.
LEMMA ExchangeInvInit == Init => ExchangeInv
<1> SUFFICES ASSUME Init PROVE ExchangeInv
  OBVIOUS
<1>1. Arrived(T, wire)
  BY DEF Init, MessageInit, Fresh, Arrived
<1>2. Called /\ ForeignSent /\ ReadOut /\ Built /\ Held
  BY DEF Init, MessageInit, Nothing, NotRead, Called, ForeignSent, ReadOut, Built, Held
<1> QED BY <1>1, <1>2, TypedInit DEF ExchangeInv

\* Every step keeps it: each part by the step that leads to its stage.
LEMMA ExchangeInvStep == ExchangeInv /\ [Next]_vars => ExchangeInv'
<1> SUFFICES ASSUME ExchangeInv, [Next]_vars PROVE ExchangeInv'
  OBVIOUS
<1>1. Typed /\ Arrived(T, wire) /\ Called /\ ForeignSent /\ ReadOut /\ Built /\ Held
  BY DEF ExchangeInv
<1>2. Typed' /\ Arrived(T, wire)' /\ Called' /\ ReadOut' /\ Built' /\ Held'
  BY <1>1, TypedStep, ArrivedStep, CalledStep, ReadOutStep, BuiltStep, HeldStep
<1>3. stage = "built" => asked.by = "class"
  BY <1>1 DEF Built
<1>4. ForeignSent'
  BY <1>1, <1>3, ForeignSentStep
<1> QED BY <1>2, <1>4 DEF ExchangeInv

\* The invariant of the exchange, of every domain and every message.
THEOREM ExchangeInvariant == Spec => []ExchangeInv
BY ExchangeInvInit, ExchangeInvStep, PTL DEF Spec

\* In every exchange, whatever the tables' deviations, each Message in hand selects a
\* member and has its fields (the sender's, the object's, the one sent on).
THEOREM ExchangeTypeCorrect == Spec => []TypeOK
<1>1. ExchangeInv => TypeOK
  BY TypedImplies DEF ExchangeInv
<1> QED BY <1>1, ExchangeInvariant, PTL

\* What an accepted call of a C constructor sends is what it was asked to send, on
\* whatever memory, but for the fields listed as lost.
THEOREM ExchangeWireFaithful == Spec => []WireFaithful
<1>1. Init => WireFaithful
  BY DEF Init, MessageInit, WireFaithful
<1>2. ExchangeInv /\ WireFaithful /\ [Next]_vars => WireFaithful'
  BY WireFaithfulStep DEF ExchangeInv
<1> QED BY <1>1, <1>2, ExchangeInvariant, PTL DEF Spec

\* A call that is refused leaves the Message as it was, but for the constructors that
\* write the tag first.
THEOREM ExchangeRefusalIsClean == Spec => RefusalIsClean
<1>1. ASSUME Typed, [Next]_vars
      PROVE  [~asked'.ok => mem' = mem \/ <<dom, asked'.msg>> \in HalfBuilt]_msgVars
  <2> SUFFICES ASSUME ~asked'.ok, mem' # mem
               PROVE  <<dom, asked'.msg>> \in HalfBuilt
    BY <1>1 DEF msgVars
  <2>1. CASE Use
    BY <1>1, <2>1, ConstructClean DEF Use
  <2>2. CASE Build
    BY <1>1, <2>2, ConstructClean DEF Build
  <2>3. CASE mem' = mem
    BY <2>3
  <2> QED
    BY <1>1, <2>1, <2>2, <2>3
    DEF Next, MessageNext, Send, Foreign, Receive, SendByValue, SendRaw, Deliver, New, Wrap,
        vars, msgVars
<1>2. ExchangeInv => Typed
  BY DEF ExchangeInv
<1> QED BY <1>1, <1>2, ExchangeInvariant, PTL DEF Spec, RefusalIsClean

\* What a parser gives its caller is what was received, whoever sent it, but for the
\* fields listed as misread, or not counted.
THEOREM ExchangeParsersAgree == Spec => []ParsersAgree
<1>1. ExchangeInv => ParsersAgree
  BY ParsersAgreeRead DEF ExchangeInv
<1> QED BY <1>1, ExchangeInvariant, PTL

\* A parser accepts what another implementation sends exactly when the constructor would
\* have built it, but for the messages listed as lenient.
THEOREM ExchangeLimitsAgree == Spec => []LimitsAgree
<1>1. ExchangeInv => LimitsAgree
  BY LimitsAgreeRead DEF ExchangeInv
<1> QED BY <1>1, ExchangeInvariant, PTL

\* An object sent through getRaw() puts its arguments on the wire, and sends nothing when
\* the C constructor refuses them, but for the classes and fields listed.
LEMMA ClassSent == Spec => [](ClassCarries /\ NothingUnasked)
<1>1. Init => ClassCarries /\ NothingUnasked
  BY DEF Init, MessageInit, ClassCarries, NothingUnasked
<1>2. ExchangeInv /\ ClassCarries /\ NothingUnasked /\ [Next]_vars => (ClassCarries /\ NothingUnasked)'
  BY ClassSentStep DEF ExchangeInv
<1> QED BY <1>1, <1>2, ExchangeInvariant, PTL DEF Spec

\* What a class was built from is what getRaw() makes the encoding send.
THEOREM ExchangeClassCarries == Spec => []ClassCarries
BY ClassSent, PTL

\* What the C constructor refuses, no class sends.
THEOREM ExchangeNothingUnasked == Spec => []NothingUnasked
BY ClassSent, PTL

\* The object made of a received message holds what was received, but for the members
\* listed as misread or forgotten.
THEOREM ExchangeClassRestores == Spec => []ClassRestores
<1>1. ExchangeInv => ClassRestores
  BY HeldRestores DEF ExchangeInv
<1> QED BY <1>1, ExchangeInvariant, PTL

\* An object that was received and is sent on carries what was received, but for the
\* members listed.
THEOREM ExchangeForwardStable == Spec => []ForwardStable
<1>1. Init => ForwardStable
  BY DEF Init, MessageInit, ForwardStable
<1>2. ExchangeInv /\ ForwardStable /\ [Next]_vars => ForwardStable'
  BY ForwardStep DEF ExchangeInv
<1> QED BY <1>1, <1>2, ExchangeInvariant, PTL DEF Spec
=============================================================================

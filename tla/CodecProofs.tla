---------------------------- MODULE CodecProofs ----------------------------
(***************************************************************************)
(* What the constructors, the encoding, the parsers and the classes do to  *)
(* a field, for any memory and any arguments; that every message of every  *)
(* domain is one they lose nothing of, but for the deviations listed in    *)
(* Protocol; and that every class adds nothing of its own, but for those   *)
(* listed in ClassProtocol. ExchangeProofs rests on these.                 *)
(***************************************************************************)
EXTENDS ClassProtocol, TLAPS

--------------------------------------------------------------------------
(* Types.                                                                  *)

Slots(V) == [has : BOOLEAN, len : Size, val : V]
FieldsOf(m, V) == [DOMAIN m.fields -> Slots(V)]
Marks == {"zero", "junk", "caller", "wrapped", "first", "second", "user"}
Names(T, tag) == IF tag = "none" THEN {} ELSE DOMAIN T[tag].fields
IsMessage(T, z) ==
  z.tag \in DOMAIN T \cup {"none"} /\ z.f \in [Names(T, z.tag) -> Slots(Marks)]
IsField(k) ==
  k.opt \in BOOLEAN /\ k.blank \in Slots(Marks) /\ k.lens \subseteq Size /\ k.wider \subseteq Size
IsSchema(T, m) ==
  /\ m.tag \in DOMAIN T /\ DOMAIN T[m.tag].fields \subseteq DOMAIN m.fields
  /\ \A x \in DOMAIN m.fields : IsField(m.fields[x])
IsTable(T) == "none" \notin DOMAIN T /\ \A msg \in DOMAIN T : IsSchema(T, T[msg])

\* A slot made of a flag, a size and a mark is a slot; so are those the model starts
\* from.
LEMMA SlotType ==
  /\ \A has \in BOOLEAN, len \in Size, val \in Marks : Slot(has, len, val) \in Slots(Marks)
  /\ Zeroed \in Slots(Marks) /\ Leftovers \subseteq Slots(Marks)
<1>1. \A has \in BOOLEAN, len \in Size, val \in Marks : Slot(has, len, val) \in Slots(Marks)
  BY DEF Slot, Slots
<1>2. Zeroed \in Slots(Marks)
  BY DEF Zeroed, Slot, Slots, Marks, Size
<1>3. Leftovers \subseteq Slots(Marks)
  BY <1>2 DEF Leftovers, Slot, Slots, Marks, Size
<1> QED BY <1>1, <1>2, <1>3

\* What a size that does not fit is stored as is a slot.
LEMMA AdjustedType ==
  ASSUME NEW k, NEW a \in Slots(Marks)
  PROVE  Adjusted(k, a) \in Slots(Marks) /\ Adjusted(k, a).has = a.has
<1>1. /\ a.has \in BOOLEAN /\ a.len \in Size /\ a.val \in Marks
      /\ a = [has |-> a.has, len |-> a.len, val |-> a.val]
  BY DEF Slots
<1>2. [a EXCEPT !.len = "full"] = [has |-> a.has, len |-> "full", val |-> a.val]
  BY <1>1
<1>3. [has |-> a.has, len |-> "full", val |-> a.val] \in Slots(Marks)
  BY <1>1 DEF Slots, Size
<1>4. Slot(a.has, "some", "wrapped") \in Slots(Marks) /\ Slot(a.has, "some", "wrapped").has = a.has
  BY <1>1 DEF Slot, Slots, Size, Marks
<1>5. [a EXCEPT !.val = "wrapped"] = [has |-> a.has, len |-> a.len, val |-> "wrapped"]
  BY <1>1
<1>6. [has |-> a.has, len |-> a.len, val |-> "wrapped"] \in Slots(Marks)
  BY <1>1 DEF Slots, Marks
<1> QED BY <1>1, <1>2, <1>3, <1>4, <1>5, <1>6 DEF Adjusted

\* An argument that another one is written over keeps its flag and its size.
LEMMA TakenType ==
  ASSUME NEW m, NEW x, NEW a, a[x] \in Slots(Marks)
  PROVE  /\ Taken(m, x, a) \in Slots(Marks)
         /\ Taken(m, x, a).has = a[x].has /\ Taken(m, x, a).len = a[x].len
<1> DEFINE s == a[x]
<1>1. /\ s.has \in BOOLEAN /\ s.len \in Size /\ s.val \in Marks
      /\ s = [has |-> s.has, len |-> s.len, val |-> s.val]
  BY DEF Slots
<1>2. Taken(m, x, a) \in {s, [s EXCEPT !.val = "wrapped"]}
  BY DEF Taken
<1> HIDE DEF s
<1>3. [s EXCEPT !.val = "wrapped"] = [has |-> s.has, len |-> s.len, val |-> "wrapped"]
  BY <1>1
<1>4. [has |-> s.has, len |-> s.len, val |-> "wrapped"] \in Slots(Marks)
  BY <1>1 DEF Slots, Marks
<1>5. s \in Slots(Marks)
  BY DEF s
<1> QED BY <1>2, <1>3, <1>4, <1>5 DEF s

\* A slot made of parts of two slots is one: a constructor, or a parser, that does not
\* assign every part.
LEMMA MixType ==
  ASSUME NEW Q, NEW a \in Slots(Marks), NEW b \in Slots(Marks)
  PROVE  [p \in Parts |-> IF p \in Q THEN a[p] ELSE b[p]] \in Slots(Marks)
<1> DEFINE s == [p \in Parts |-> IF p \in Q THEN a[p] ELSE b[p]]
<1>1. s = [has |-> s["has"], len |-> s["len"], val |-> s["val"]]
  BY DEF Parts
<1>2. /\ a.has \in BOOLEAN /\ a.len \in Size /\ a.val \in Marks
      /\ b.has \in BOOLEAN /\ b.len \in Size /\ b.val \in Marks
  BY DEF Slots
<1>3. s["has"] \in BOOLEAN /\ s["len"] \in Size /\ s["val"] \in Marks
  BY <1>2 DEF Parts
<1> QED BY <1>1, <1>3 DEF Slots

\* What a constructor makes of a field is a slot.
LEMMA StoredType ==
  ASSUME NEW k, NEW a \in Slots(Marks), NEW old \in Slots(Marks), NEW parts
  PROVE  Stored(k, a, old, parts) \in Slots(Marks)
<1> DEFINE Q == Assigned(k, a) \cap parts
           b == Adjusted(k, a)
<1>1. b \in Slots(Marks)
  BY AdjustedType
<1>2. Stored(k, a, old, parts) = [p \in Parts |-> IF p \in Q THEN b[p] ELSE old[p]]
  BY DEF Stored
<1> HIDE DEF b, Q
<1> QED BY <1>1, <1>2, MixType

\* What a constructor fills in is a message of the table.
LEMMA FilledType ==
  ASSUME NEW T, IsTable(T), NEW msg \in DOMAIN T, NEW a \in FieldsOf(T[msg], Marks),
         NEW z, IsMessage(T, z), NEW left \in Slots(Marks), NEW parts
  PROVE  IsMessage(T, Filled(T, T[msg], a, z, left, parts))
<1> DEFINE m == T[msg]
           old == Selected(T, m, z, left)
           w == Filled(T, m, a, z, left, parts)
<1>1. m.tag \in DOMAIN T /\ m.tag # "none" /\ DOMAIN T[m.tag].fields \subseteq DOMAIN m.fields
  BY DEF IsTable, IsSchema
<1>2. Zeroed \in Slots(Marks)
  BY SlotType
<1> HIDE DEF m
<1>3. old \in [DOMAIN T[m.tag].fields -> Slots(Marks)]
  BY <1>1, <1>2 DEF Selected, IsMessage, Names
<1>4. a \in [DOMAIN m.fields -> Slots(Marks)]
  BY DEF FieldsOf, m
<1> HIDE DEF old
<1>5. \A x \in DOMAIN old :
         Stored(m.fields[x], Taken(m, x, a), old[x], parts[x]) \in Slots(Marks)
  BY <1>1, <1>3, <1>4, TakenType, StoredType
<1>6. w.tag = m.tag /\ w.f = [x \in DOMAIN old |-> IF x \in DOMAIN parts
                                   THEN Stored(m.fields[x], Taken(m, x, a), old[x], parts[x])
                                   ELSE old[x]]
  BY DEF Filled, old
<1> HIDE DEF w
<1>7. w.f \in [DOMAIN T[m.tag].fields -> Slots(Marks)]
  BY <1>3, <1>5, <1>6
<1>8. IsMessage(T, w)
  BY <1>1, <1>6, <1>7 DEF IsMessage, Names
<1> QED BY <1>8 DEF w, m

\* A constructor that is called on a message of the table leaves a message of the table.
LEMMA ConstructedType ==
  ASSUME NEW T, IsTable(T), NEW msg \in DOMAIN T, NEW a \in FieldsOf(T[msg], Marks),
         NEW z, IsMessage(T, z), NEW left \in Slots(Marks)
  PROVE  IsMessage(T, Constructed(T, T[msg], a, z, left))
BY FilledType DEF Constructed

\* What a message can hold once it has been encoded.
Arrived(T, z) ==
  \A x \in DOMAIN z.f : LET k == T[z.tag].fields[x]
                        IN  IF Present(k, z.f[x]) THEN k.bounded => z.f[x].len # "over"
                            ELSE z.f[x] = Zeroed

\* What can be encoded arrives as a message of the same tag, with what its encoding
\* allows.
LEMMA TransmittedType ==
  ASSUME NEW T, IsTable(T), NEW z, IsMessage(T, z), Encodable(T, z)
  PROVE  LET w == Transmitted(T, z)
         IN  IsMessage(T, w) /\ Arrived(T, w) /\ w.tag = z.tag /\ DOMAIN w.f = DOMAIN z.f
<1> DEFINE w == Transmitted(T, z)
           K(x) == T[z.tag].fields[x]
<1>1. /\ w.tag = z.tag 
      /\ w.f = [x \in DOMAIN z.f |-> IF Present(K(x), z.f[x]) THEN z.f[x] ELSE Zeroed]
  BY DEF Transmitted
<1>2. Zeroed \in Slots(Marks)
  BY SlotType
<1>3. \A x \in DOMAIN z.f : K(x).bounded /\ Present(K(x), z.f[x]) => z.f[x].len # "over"
  BY DEF Encodable
<1> HIDE DEF w
<1>4. IsMessage(T, w) /\ DOMAIN w.f = DOMAIN z.f
  BY <1>1, <1>2 DEF IsMessage
<1>5. ASSUME NEW x \in DOMAIN w.f
      PROVE  IF Present(K(x), w.f[x]) THEN K(x).bounded => w.f[x].len # "over" ELSE w.f[x] = Zeroed
  <2>1. x \in DOMAIN z.f
    BY <1>4
  <2>2. Present(K(x), Zeroed) => ~K(x).opt
    BY DEF Present, Zeroed, Slot
  <2>3. ~K(x).opt => Present(K(x), z.f[x])
    BY DEF Present
  <2> HIDE DEF K
  <2>4. w.f[x] = IF Present(K(x), z.f[x]) THEN z.f[x] ELSE Zeroed
    BY <1>1, <2>1
  <2>5. K(x).bounded /\ Present(K(x), z.f[x]) => z.f[x].len # "over"
    BY <1>3, <2>1
  <2> QED BY <2>2, <2>3, <2>4, <2>5
<1>6. Arrived(T, w)
  BY <1>1, <1>5 DEF Arrived
<1> QED BY <1>1, <1>4, <1>6 DEF w

\* What the caller of a parser finds, whatever the parser is given.
LEMMA ParsedType ==
  ASSUME NEW m, \A x \in DOMAIN m.fields : IsField(m.fields[x]),
         NEW msg, \A x \in DOMAIN msg.f : msg.f[x] \in Slots(Marks), NEW stray \in BOOLEAN
  PROVE  Parsed(m, msg, stray) \in FieldsOf(m, Marks)
<1>1. Slot(stray, "some", "junk") \in Slots(Marks)
  BY SlotType DEF Size, Marks
<1>2. ASSUME NEW x \in DOMAIN m.fields, x \in DOMAIN msg.f
      PROVE  Read(m.fields[x], msg.f[x]) \in Slots(Marks)
  <2> DEFINE k == m.fields[x]
             s == msg.f[x]
             Q == k.reads[s.len]
             b == k.blank
  <2>1. Read(k, s) = [p \in Parts |-> IF p \in Q THEN s[p] ELSE b[p]]
    BY DEF Read
  <2>2. s \in Slots(Marks) /\ b \in Slots(Marks)
    BY <1>2 DEF IsField
  <2> HIDE DEF Q, b, s, k
  <2>3. [p \in Parts |-> IF p \in Q THEN s[p] ELSE b[p]] \in Slots(Marks)
    BY <2>2, MixType
  <2> QED BY <2>1, <2>3 DEF k, s
<1> QED BY <1>1, <1>2 DEF Parsed, FieldsOf

\* The arguments of a call have a size their type, or that of the wire, can express, and
\* a flag only when they are optional.
Expressed(k) == k.lens \cup k.wider \cup {"some"}
Calls(m) == {a \in FieldsOf(m, Marks) :
               \A x \in DOMAIN m.fields : /\ a[x].len \in Expressed(m.fields[x])
                                          /\ ~m.fields[x].opt => a[x].has}

\* Values of sizes that the fields can have are calls.
LEMMA ValuesType ==
  ASSUME NEW m, \A x \in DOMAIN m.fields : IsField(m.fields[x]), NEW mark \in Marks, NEW lens,
         \A x \in DOMAIN m.fields : lens[x] \subseteq Expressed(m.fields[x]),
         NEW v \in Values(m, lens, mark)
  PROVE  v \in Calls(m) /\ \A x \in DOMAIN m.fields : v[x].len \in lens[x] \cup {"some"}
<1> DEFINE Arg(x, has, s) == Slot(m.fields[x].opt => has, IF s \in lens[x] THEN s ELSE "some", mark)
           Good(a) == a \in Calls(m) /\ \A x \in DOMAIN m.fields : a[x].len \in lens[x] \cup {"some"}
<1>1. ASSUME NEW x \in DOMAIN m.fields, NEW has \in BOOLEAN, NEW s \in Size
      PROVE  /\ Arg(x, has, s) \in Slots(Marks)
             /\ Arg(x, has, s).len \in lens[x] \cup {"some"}
             /\ ~m.fields[x].opt => Arg(x, has, s).has
  <2>1. m.fields[x].opt \in BOOLEAN
    BY DEF IsField
  <2>2. (m.fields[x].opt => has) \in BOOLEAN
    OBVIOUS
  <2>3. (IF s \in lens[x] THEN s ELSE "some") \in Size
    BY DEF Size
  <2>4. Arg(x, has, s) \in Slots(Marks)
    BY <2>2, <2>3, SlotType
  <2> QED BY <2>1, <2>4 DEF Slot
<1>2. "some" \in Size
  BY DEF Size
<1>3. v \in {[x \in DOMAIN m.fields |-> Arg(x, has, IF x = odd THEN t ELSE s)] :
              has \in BOOLEAN, s \in Size, odd \in DOMAIN m.fields, t \in Size}
           \cup {[x \in DOMAIN m.fields |-> Arg(x, has, "some")] : has \in BOOLEAN}
  BY DEF Values
<1> HIDE DEF Arg
<1>4. ASSUME NEW has \in BOOLEAN, NEW s \in Size, NEW odd \in DOMAIN m.fields, NEW t \in Size
      PROVE  Good([x \in DOMAIN m.fields |-> Arg(x, has, IF x = odd THEN t ELSE s)])
  <2> DEFINE a == [x \in DOMAIN m.fields |-> Arg(x, has, IF x = odd THEN t ELSE s)]
  <2>1. \A x \in DOMAIN m.fields : a[x] = Arg(x, has, t) \/ a[x] = Arg(x, has, s)
    OBVIOUS
  <2>2. a = [x \in DOMAIN m.fields |-> a[x]] /\ DOMAIN a = DOMAIN m.fields
    OBVIOUS
  <2> HIDE DEF a
  <2>3. \A x \in DOMAIN m.fields : /\ a[x] \in Slots(Marks)
                                   /\ a[x].len \in lens[x] \cup {"some"}
                                   /\ ~m.fields[x].opt => a[x].has
    BY <1>1, <2>1
  <2>4. Good(a)
    BY <2>2, <2>3 DEF Calls, FieldsOf, Expressed
  <2> QED BY <2>4 DEF a
<1>5. ASSUME NEW has \in BOOLEAN
      PROVE  Good([x \in DOMAIN m.fields |-> Arg(x, has, "some")])
  BY <1>1, <1>2 DEF Calls, FieldsOf, Expressed
<1> HIDE DEF Good
<1>6. Good(v)
  BY <1>3, <1>4, <1>5
<1> QED BY <1>6 DEF Good

\* The arguments of the model, and what it receives from others, are calls.
LEMMA ArgumentsType ==
  ASSUME NEW m, \A x \in DOMAIN m.fields : IsField(m.fields[x]), NEW mark \in Marks
  PROVE  /\ \A a \in Arguments(m, mark) :
              /\ a \in Calls(m)
              /\ \A x \in DOMAIN m.fields : a[x].len \in m.fields[x].lens \cup {"some"}
         /\ Foreigners(m, mark) \subseteq Calls(m)
         /\ [x \in DOMAIN m.fields |-> Slot(TRUE, "some", mark)] \in Calls(m)
<1> DEFINE lens == [x \in DOMAIN m.fields |-> m.fields[x].lens]
           wide == [x \in DOMAIN m.fields |-> m.fields[x].lens \cup m.fields[x].wider]
<1>1. \A x \in DOMAIN m.fields :
        /\ lens[x] = m.fields[x].lens
        /\ lens[x] \subseteq Expressed(m.fields[x]) /\ wide[x] \subseteq Expressed(m.fields[x])
  BY DEF Expressed
<1>2. Arguments(m, mark) = Values(m, lens, mark) /\ Foreigners(m, mark) = Values(m, wide, mark)
  BY DEF Arguments, Foreigners
<1> HIDE DEF lens, wide
<1>3. \A a \in Values(m, lens, mark) :
        a \in Calls(m) /\ \A x \in DOMAIN m.fields : a[x].len \in lens[x] \cup {"some"}
  BY <1>1, ValuesType
<1>4. \A a \in Values(m, wide, mark) : a \in Calls(m)
  BY <1>1, ValuesType
<1>5. [x \in DOMAIN m.fields |-> Slot(TRUE, "some", mark)] \in Calls(m)
  <2>1. Slot(TRUE, "some", mark) \in Slots(Marks)
    BY SlotType DEF Size
  <2>2. Slot(TRUE, "some", mark).has = TRUE /\ Slot(TRUE, "some", mark).len = "some"
    BY DEF Slot
  <2> HIDE DEF Slot
  <2> QED BY <2>1, <2>2 DEF Calls, FieldsOf, Expressed
<1> QED BY <1>1, <1>2, <1>3, <1>4, <1>5

IsClass(T, c) == {c.msg, c.packer} \cup c.again \subseteq DOMAIN T

\* A member that was passed as given is there.
LEMMA PassedType ==
  ASSUME NEW c, NEW m, NEW f, \A x \in DOMAIN f : f[x] \in Slots(Marks)
  PROVE  Passed(c, m, f) \in FieldsOf(m, Marks)
<1> DEFINE Y(x) == IF x \in DOMAIN c.onto THEN c.onto[x] ELSE x
           S(x) == IF Y(x) \in DOMAIN f THEN f[Y(x)] ELSE Slot(FALSE, "some", "junk")
<1>1. Passed(c, m, f) = [x \in DOMAIN m.fields |-> [S(x) EXCEPT !.has = @ \/ x \in c.given]]
  BY DEF Passed
<1>2. Slot(FALSE, "some", "junk") \in Slots(Marks)
  BY SlotType DEF Size, Marks
<1>3. \A x : S(x) \in Slots(Marks)
  BY <1>2
<1> HIDE DEF S, Y
<1>4. ASSUME NEW x PROVE [S(x) EXCEPT !.has = @ \/ x \in c.given] \in Slots(Marks)
  <2> DEFINE s == S(x)
  <2>1. /\ s.has \in BOOLEAN /\ s.len \in Size /\ s.val \in Marks
        /\ s = [has |-> s.has, len |-> s.len, val |-> s.val]
    BY <1>3 DEF Slots
  <2> HIDE DEF s
  <2>2. (s.has \/ x \in c.given) \in BOOLEAN
    OBVIOUS
  <2>3. [s EXCEPT !.has = @ \/ x \in c.given]
          = [has |-> s.has \/ x \in c.given, len |-> s.len, val |-> s.val]
    BY <2>1
  <2> QED BY <2>1, <2>2, <2>3 DEF Slots, s
<1> QED BY <1>1, <1>4 DEF FieldsOf

\* The arguments of the classes are calls, with what the class contains and gives.
LEMMA ClassArgumentsType ==
  ASSUME NEW c, NEW m, \A x \in DOMAIN m.fields : IsField(m.fields[x]), NEW mark \in Marks,
         NEW a \in ClassArguments(c, m, mark)
  PROVE  /\ a \in Calls(m)
         /\ \A x \in DOMAIN m.fields : /\ a[x].len \in m.fields[x].lens \cup {"some"}
                                       /\ x \in Contained => a[x].len # "over"
                                       /\ x \in c.given => a[x].has
<1>1. PICK b \in Arguments(m, mark) :
        /\ \A x \in DOMAIN b : x \in Contained => b[x].len # "over"
        /\ a = [x \in DOMAIN m.fields |-> [b[x] EXCEPT !.has = @ \/ x \in c.given]]
  BY DEF ClassArguments
<1>2. /\ b \in Calls(m) /\ DOMAIN b = DOMAIN m.fields
      /\ \A x \in DOMAIN m.fields : b[x].len \in m.fields[x].lens \cup {"some"}
  BY ArgumentsType DEF Calls, FieldsOf
<1>3. ASSUME NEW x \in DOMAIN m.fields
      PROVE  /\ a[x] \in Slots(Marks) /\ a[x].len = b[x].len
             /\ a[x].has = (b[x].has \/ x \in c.given)
  <2> DEFINE s == b[x]
  <2>1. /\ s.has \in BOOLEAN /\ s.len \in Size /\ s.val \in Marks
        /\ s = [has |-> s.has, len |-> s.len, val |-> s.val]
    BY <1>2 DEF Slots, Calls, FieldsOf
  <2>2. a[x] = [s EXCEPT !.has = @ \/ x \in c.given]
    BY <1>1
  <2> HIDE DEF s
  <2>3. (s.has \/ x \in c.given) \in BOOLEAN
    OBVIOUS
  <2>4. a[x] = [has |-> s.has \/ x \in c.given, len |-> s.len, val |-> s.val]
    BY <2>1, <2>2
  <2> QED BY <2>1, <2>3, <2>4 DEF Slots, s
<1>4. a = [x \in DOMAIN m.fields |-> a[x]]
  BY <1>1
<1>5. a \in FieldsOf(m, Marks)
  BY <1>3, <1>4 DEF FieldsOf
<1> QED BY <1>1, <1>2, <1>3, <1>5 DEF Calls

\* Members that nothing was assigned to have the fields of the message.
LEMMA UnassignedType ==
  ASSUME NEW m, NEW stray \in BOOLEAN
  PROVE  Unassigned(m, stray) \in FieldsOf(m, Marks)
BY SlotType DEF Unassigned, FieldsOf, Size, Marks

\* The members of a new object have the fields of its message.
LEMMA MembersType ==
  ASSUME NEW c, NEW m, NEW a \in FieldsOf(m, Marks), NEW stray \in BOOLEAN
  PROVE  Members(c, m, a, stray) \in FieldsOf(m, Marks)
<1>1. ASSUME NEW x \in DOMAIN m.fields
      PROVE  Long(c, a[x]) \in Slots(Marks) /\ Slot(stray, "some", "junk") \in Slots(Marks)
  <2>1. a[x] \in Slots(Marks) /\ a[x].has \in BOOLEAN
    BY DEF FieldsOf, Slots
  <2>2. Slot(a[x].has, "empty", "zero") \in Slots(Marks) /\ Slot(a[x].has, "over", "zero") \in Slots(Marks)
    BY <2>1, SlotType DEF Size, Marks
  <2>3. Slot(stray, "some", "junk") \in Slots(Marks)
    BY SlotType DEF Size, Marks
  <2> QED BY <2>1, <2>2, <2>3 DEF Long
<1>2. CASE c.direct
  BY <1>2, UnassignedType DEF Members
<1>3. CASE ~c.direct
  BY <1>1, <1>3 DEF Members, FieldsOf
<1> QED BY <1>2, <1>3

\* What pack() leaves in the Message is a message of the table.
LEMMA PackedType ==
  ASSUME NEW T, IsTable(T), NEW c, NEW packer \in DOMAIN T,
         NEW f, \A x \in DOMAIN f : f[x] \in Slots(Marks),
         NEW z, IsMessage(T, z), NEW left \in Slots(Marks)
  PROVE  IsMessage(T, Packed(T, c, packer, f, z, left))
BY ConstructedType, PassedType DEF Packed

\* What unpack() leaves in the members has the fields of the message.
LEMMA RecalledType ==
  ASSUME NEW c, NEW m, NEW f \in FieldsOf(m, Marks), NEW stray \in BOOLEAN
  PROVE  Recalled(c, m, f, stray) \in FieldsOf(m, Marks)
<1>1. Slot(stray, "some", "junk") \in Slots(Marks)
  BY SlotType DEF Size, Marks
<1>2. ASSUME NEW x \in DOMAIN m.fields
      PROVE  f[x] \in Slots(Marks) /\ [f[x] EXCEPT !.has = stray] \in Slots(Marks)
  <2> DEFINE s == f[x]
  <2>1. /\ s.has \in BOOLEAN /\ s.len \in Size /\ s.val \in Marks
        /\ s = [has |-> s.has, len |-> s.len, val |-> s.val]
    BY DEF FieldsOf, Slots
  <2> HIDE DEF s
  <2>2. [s EXCEPT !.has = stray] = [has |-> stray, len |-> s.len, val |-> s.val]
    BY <2>1
  <2> QED BY <2>1, <2>2 DEF Slots, s
<1> QED BY <1>1, <1>2 DEF Recalled, FieldsOf

\* Messages and fields, apart from the tag.
LEMMA MessageSlots ==
  ASSUME NEW T, NEW z, IsMessage(T, z)
  PROVE  \A x \in DOMAIN z.f : z.f[x] \in Slots(Marks)
BY DEF IsMessage

\* An object restored from a message has the fields of its message, and a message.
LEMMA RestoredType ==
  ASSUME NEW T, IsTable(T), NEW c, IsClass(T, c), NEW z, IsMessage(T, z),
         NEW stray \in BOOLEAN, NEW left \in Slots(Marks)
  PROVE  LET o == Restored(T, c, z, stray, left)
         IN  o.f \in FieldsOf(T[c.msg], Marks) /\ IsMessage(T, o.mem)
<1> DEFINE m == T[c.msg]
           Parse(y) == Recalled(c, m, Parsed(m, y, stray), stray)
           Repack(f) == Packed(T, c, c.packer, f, z, left)
           before == CASE c.reads = "packs" -> Repack(Unassigned(m, stray))
                       [] c.reads = "twice" -> Repack(Parse(z))
                       [] OTHER -> z
           o == Restored(T, c, z, stray, left)
<1>1. /\ c.msg \in DOMAIN T /\ c.packer \in DOMAIN T
      /\ \A x \in DOMAIN m.fields : IsField(m.fields[x])
  BY DEF IsClass, IsTable, IsSchema
<1>2. ASSUME NEW y, IsMessage(T, y)
      PROVE  Parse(y) \in FieldsOf(m, Marks)
  <2>1. \A x \in DOMAIN y.f : y.f[x] \in Slots(Marks)
    BY <1>2, MessageSlots
  <2>2. Parsed(m, y, stray) \in FieldsOf(m, Marks)
    BY <1>1, <2>1, ParsedType
  <2> QED BY <2>2, RecalledType
<1>3. ASSUME NEW f \in FieldsOf(m, Marks)
      PROVE  IsMessage(T, Repack(f))
  <2>1. \A x \in DOMAIN f : f[x] \in Slots(Marks)
    BY DEF FieldsOf
  <2> QED BY <1>1, <2>1, PackedType
<1>4. Unassigned(m, stray) \in FieldsOf(m, Marks)
  BY UnassignedType
<1>5. o = [mem |-> before, f |-> IF c.reads = "none" THEN Unassigned(m, stray) ELSE Parse(before)]
  BY DEF Restored
<1> HIDE DEF Parse, Repack, o
<1>6. IsMessage(T, before)
  BY <1>2, <1>3, <1>4
<1> HIDE DEF before, m
<1>7. o.mem = before /\ o.f = IF c.reads = "none" THEN Unassigned(m, stray) ELSE Parse(before)
  BY <1>5
<1> QED BY <1>2, <1>4, <1>6, <1>7 DEF o, m

--------------------------------------------------------------------------
(* Fields and messages that nothing is lost of.                            *)

\* The constructor assigns every part of the field as it was given, or cut; it clears
\* its flag when it is absent; the parser reads every part of it, where the constructor
\* put it; the two accept the same sizes; and what is cut is what the encoder fails on.
WholeAt(k, s) == k.writes[s] = Parts /\ s \notin k.wraps \cup k.spoils
Whole(k)    == /\ \A s \in Size : k.writes[s] = Parts
               /\ k.wraps = {} /\ k.spoils = {} /\ k.under = {}
Clears(k)   == k.opt => "has" \in k.absent
ReadAt(k, s) == ~k.strays /\ k.reads[s] = Parts
ReadBack(k) == ~k.strays /\ \A s \in Size : k.reads[s] = Parts
Agreeing(k) == \A s \in Expressed(k) :
                 (k.bounded => s # "over") => (s \in k.refuses \cup k.fails <=> s \in k.rejects)
Fits(k)     == k.cuts = {} \/ (k.cuts = {"over"} /\ k.bounded)
\* A field the code loses nothing of.
Regular(k)  == IsField(k) /\ Whole(k) /\ Clears(k) /\ ReadBack(k) /\ Agreeing(k) /\ Fits(k)

\* What a constructor writes, it writes whole, and nothing of what was there stays.
Written(k) == k.opt \in BOOLEAN /\ Whole(k) /\ Clears(k)

WellFormed(T, m) == m.tag \in DOMAIN T /\ T[m.tag] = m

\* A class that adds nothing to the constructor and the parser of its message.
Straight(c) ==
  /\ c.packer = c.msg /\ c.packs /\ c.reads = "parse"
  /\ DOMAIN c.onto = {} /\ c.given = {} /\ c.nulls = {} /\ c.forgets = {}

\* A field that is written whole is, at every size, and no other is written over it.
LEMMA WholeFacts ==
  ASSUME NEW k, Whole(k)
  PROVE  /\ \A s \in Size : WholeAt(k, s)
         /\ \A m, x, a : m.fields[x] = k => Taken(m, x, a) = a[x]
BY DEF Whole, WholeAt, Taken

\* The flag of an absent argument is clear once the constructor is through.
Cleared(k, old) == Clears(k) \/ old.has = FALSE

\* What the encoding transmits of a field that a constructor has stored: what was asked
\* for, if the constructor clears the flag of an absent argument or finds it cleared.
LEMMA StoredArrives ==
  ASSUME NEW V, NEW k, k.opt \in BOOLEAN, NEW a \in Slots(V), WholeAt(k, a.len), NEW old,
         Cleared(k, old)
  PROVE  LET s == Stored(k, a, old, Parts)
         IN  Same(k, Meant(k, a), IF Present(k, s) THEN s ELSE Zeroed)
<1> DEFINE s == Stored(k, a, old, Parts)
<1>1. /\ a.has \in BOOLEAN /\ a.len \in Size
      /\ a = [has |-> a.has, len |-> a.len, val |-> a.val]
  BY DEF Slots
<1>2. Meant(k, a) = Adjusted(k, a) /\ Adjusted(k, a).has = a.has
  BY <1>1 DEF Meant, Adjusted, WholeAt
<1>3. CASE Present(k, a)
  <2>1. s = [p \in Parts |-> Adjusted(k, a)[p]]
    BY <1>1, <1>3 DEF Stored, Assigned, WholeAt
  <2>2. s.has = Adjusted(k, a).has /\ s.len = Adjusted(k, a).len /\ s.val = Adjusted(k, a).val
    BY <2>1 DEF Parts
  <2> QED BY <1>2, <1>3, <2>2 DEF Present, Same
<1>4. CASE ~Present(k, a)
  <2>1. s.has = FALSE /\ k.opt
    BY <1>1, <1>2, <1>4 DEF Stored, Assigned, Present, Cleared, Clears, Parts
  <2> QED BY <1>2, <1>4, <2>1 DEF Present, Same, Zeroed, Slot
<1> QED BY <1>3, <1>4

\* What the caller of the parser finds in a field it reads back.
LEMMA FieldRead ==
  ASSUME NEW V, NEW k, NEW s \in Slots(V), ReadAt(k, s.len)
  PROVE  Read(k, s) = s
<1>1. /\ s.has \in BOOLEAN /\ s.len \in Size /\ s.val \in V
      /\ s = [has |-> s.has, len |-> s.len, val |-> s.val]
  BY DEF Slots
<1>2. Read(k, s) = [p \in Parts |-> s[p]]
  BY <1>1 DEF Read, ReadAt
<1>3. s = [p \in Parts |-> s[p]]
  BY <1>1 DEF Parts
<1> QED BY <1>2, <1>3

\* What an accepted call of a constructor makes the encoding send in a field that it
\* writes whole, and over which it writes no other, and that the member of its tag has.
LEMMA FieldCarried ==
  ASSUME NEW T, NEW m, NEW V, NEW a \in FieldsOf(m, V), NEW mem, NEW left,
         mem.tag = m.tag => DOMAIN mem.f = DOMAIN T[m.tag].fields,
         ~Refused(m, a), ~Failed(m, a),
         NEW x \in DOMAIN m.fields, x \in DOMAIN T[m.tag].fields,
         T[m.tag].fields[x] = m.fields[x], m.fields[x].opt \in BOOLEAN,
         WholeAt(m.fields[x], a[x].len), Taken(m, x, a) = a[x],
         Cleared(m.fields[x], Selected(T, m, mem, left)[x])
  PROVE  LET w == Transmitted(T, Constructed(T, m, a, mem, left))
         IN  /\ w.tag = m.tag /\ DOMAIN w.f = DOMAIN T[m.tag].fields
             /\ Same(m.fields[x], Meant(m.fields[x], a[x]), w.f[x])
<1> DEFINE old == Selected(T, m, mem, left)
           F == T[m.tag].fields
           k == m.fields[x]
           s == Stored(k, a[x], old[x], Parts)
           built == Constructed(T, m, a, mem, left)
           w == Transmitted(T, built)
<1>1. DOMAIN old = DOMAIN F
  BY DEF Selected
<1>2. /\ built.tag = m.tag
      /\ built.f = [y \in DOMAIN F |->
                      IF y \in DOMAIN m.fields
                      THEN Stored(m.fields[y], Taken(m, y, a), old[y], Parts) ELSE old[y]]
  BY <1>1 DEF Constructed, Filled
<1> HIDE DEF built, old
<1>3. DOMAIN built.f = DOMAIN F /\ built.f[x] = s
  BY <1>2
<1> HIDE DEF s
<1>4. /\ w.tag = m.tag
      /\ w.f = [y \in DOMAIN built.f |-> IF Present(T[built.tag].fields[y], built.f[y])
                                         THEN built.f[y] ELSE Zeroed]
  BY <1>2 DEF Transmitted
<1> HIDE DEF w
<1>5. DOMAIN w.f = DOMAIN F /\ w.f[x] = IF Present(k, s) THEN s ELSE Zeroed
  BY <1>2, <1>3, <1>4
<1>6. Same(k, Meant(k, a[x]), IF Present(k, s) THEN s ELSE Zeroed)
  <2>1. a[x] \in Slots(V) /\ Cleared(k, old[x])
    BY DEF FieldsOf, old
  <2>2. k.opt \in BOOLEAN /\ WholeAt(k, a[x].len)
    OBVIOUS
  <2> HIDE DEF k
  <2> QED BY <2>1, <2>2, StoredArrives DEF s
<1> QED BY <1>4, <1>5, <1>6 DEF w, built

\* An accepted call of a constructor sends each field of a regular message as it was
\* asked to, whatever the Message held: the union need not be cleared for it.
THEOREM RegularCarried ==
  ASSUME NEW T, NEW m, WellFormed(T, m), NEW V, NEW a \in FieldsOf(m, V), NEW mem, NEW left,
         mem.tag = m.tag => DOMAIN mem.f = DOMAIN m.fields,
         ~Refused(m, a), ~Failed(m, a),
         NEW x \in DOMAIN m.fields, Written(m.fields[x])
  PROVE  LET w == Transmitted(T, Constructed(T, m, a, mem, left))
         IN  /\ w.tag = m.tag /\ DOMAIN w.f = DOMAIN m.fields
             /\ Same(m.fields[x], Meant(m.fields[x], a[x]), w.f[x])
<1>1. T[m.tag] = m /\ m.fields[x].opt \in BOOLEAN /\ Whole(m.fields[x])
      /\ Cleared(m.fields[x], Selected(T, m, mem, left)[x])
  BY DEF WellFormed, Written, Cleared
<1>0. WholeAt(m.fields[x], a[x].len) /\ Taken(m, x, a) = a[x]
  BY <1>1, WholeFacts DEF FieldsOf, Slots
<1>2. T[m.tag].fields[x] = m.fields[x] /\ DOMAIN T[m.tag].fields = DOMAIN m.fields
  BY <1>1
<1>3. x \in DOMAIN T[m.tag].fields /\ (mem.tag = m.tag => DOMAIN mem.f = DOMAIN T[m.tag].fields)
  BY <1>2
<1> QED BY <1>0, <1>1, <1>2, <1>3, FieldCarried

\* The parser gives its caller each field of a regular message as it was received,
\* whoever sent it and whatever the caller's variables held.
THEOREM RegularReported ==
  ASSUME NEW m, NEW V, NEW msg, msg.f \in FieldsOf(m, V), NEW stray,
         NEW x \in DOMAIN m.fields, ReadBack(m.fields[x])
  PROVE  Parsed(m, msg, stray)[x] = msg.f[x]
<1>1. msg.f[x] \in Slots(V) /\ x \in DOMAIN msg.f
  BY DEF FieldsOf
<1>2. ReadAt(m.fields[x], msg.f[x].len)
  BY <1>1 DEF ReadBack, ReadAt, Slots
<1> QED BY <1>1, <1>2, FieldRead DEF Parsed, ReadBack

\* A regular message that is received, wrapped by a class that does nothing else, and
\* sent on through getRaw() is sent on as it was received, whatever the memory held.
THEOREM RegularForwarded ==
  ASSUME NEW T, NEW c, Straight(c), NEW V, NEW w, NEW stray, NEW left,
         WellFormed(T, T[c.msg]), w.tag = T[c.msg].tag, w.f \in FieldsOf(T[c.msg], V),
         ~Failed(T[c.msg], w.f),
         \A x \in DOMAIN T[c.msg].fields :
            /\ Written(T[c.msg].fields[x]) /\ ReadBack(T[c.msg].fields[x])
            /\ w.f[x].len \notin T[c.msg].fields[x].cuts
  PROVE  LET o == Restored(T, c, w, stray, left)
             onward == Transmitted(T, Packed(T, c, c.packer, o.f, o.mem, left))
         IN  onward.tag = w.tag
             /\ \A x \in DOMAIN T[c.msg].fields : Same(T[c.msg].fields[x], w.f[x], onward.f[x])
<1> DEFINE m == T[c.msg]
           o == Restored(T, c, w, stray, left)
           packed == Packed(T, c, c.packer, o.f, o.mem, left)
           onward == Transmitted(T, packed)
<1>1. DOMAIN w.f = DOMAIN m.fields /\ \A x \in DOMAIN m.fields : w.f[x] \in Slots(V)
  BY DEF FieldsOf
<1>2. Parsed(m, w, stray) = w.f
  <2>1. \A x \in DOMAIN m.fields : Parsed(m, w, stray)[x] = w.f[x]
    BY RegularReported
  <2>2. Parsed(m, w, stray) = [x \in DOMAIN m.fields |-> Parsed(m, w, stray)[x]]
    BY DEF Parsed
  <2>3. w.f = [x \in DOMAIN m.fields |-> w.f[x]]
    BY DEF FieldsOf
  <2> QED BY <2>1, <2>2, <2>3
<1>3. o.mem = w /\ o.f = w.f
  <2>1. o = [mem |-> w, f |-> Recalled(c, m, Parsed(m, w, stray), stray)]
    BY DEF Restored, Straight
  <2>2. Recalled(c, m, w.f, stray) = [x \in DOMAIN w.f |-> w.f[x]]
    BY DEF Recalled, Straight
  <2>3. w.f = [x \in DOMAIN w.f |-> w.f[x]]
    BY DEF FieldsOf
  <2> QED BY <1>2, <2>1, <2>2, <2>3
<1>4. Passed(c, m, w.f) = w.f
  <2>1. ASSUME NEW x \in DOMAIN m.fields
        PROVE  Passed(c, m, w.f)[x] = w.f[x]
    <3> DEFINE s == w.f[x]
    <3>1. s.has \in BOOLEAN /\ s = [has |-> s.has, len |-> s.len, val |-> s.val]
      BY <1>1 DEF Slots
    <3>2. Passed(c, m, w.f)[x] = [s EXCEPT !.has = @ \/ x \in {}]
      BY <1>1 DEF Passed, Straight
    <3> HIDE DEF s
    <3>3. [s EXCEPT !.has = @ \/ x \in {}] = s
      BY <3>1
    <3> QED BY <3>2, <3>3 DEF s
  <2>2. Passed(c, m, w.f) = [x \in DOMAIN m.fields |-> Passed(c, m, w.f)[x]]
    BY DEF Passed
  <2>3. w.f = [x \in DOMAIN m.fields |-> w.f[x]]
    BY DEF FieldsOf
  <2> QED BY <2>1, <2>2, <2>3
<1>5. packed = Constructed(T, m, w.f, w, left)
  BY <1>3, <1>4 DEF Packed, Straight
<1> HIDE DEF packed, o
<1>6. CASE Refused(m, w.f)
  <2>1. packed = w
    BY <1>5, <1>6 DEF Constructed
  <2>2. /\ onward.tag = w.tag
        /\ onward.f = [x \in DOMAIN m.fields |-> IF Present(m.fields[x], w.f[x]) THEN w.f[x] ELSE Zeroed]
    BY <1>1, <2>1 DEF Transmitted, WellFormed
  <2> HIDE DEF onward
  <2>3. ASSUME NEW x \in DOMAIN m.fields
        PROVE  Same(m.fields[x], w.f[x], onward.f[x])
    <3>1. onward.f[x] = IF Present(m.fields[x], w.f[x]) THEN w.f[x] ELSE Zeroed
      BY ONLY <2>2, <2>3
    <3>2. CASE Present(m.fields[x], w.f[x])
      BY ONLY <3>1, <3>2, Zenon DEF Same
    <3>3. CASE ~Present(m.fields[x], w.f[x])
      <4>1. m.fields[x].opt /\ ~Zeroed.has
        BY ONLY <3>3 DEF Present, Zeroed, Slot
      <4>2. ~Present(m.fields[x], onward.f[x])
        BY ONLY <3>1, <3>3, <4>1 DEF Present
      <4> QED BY ONLY <3>3, <4>2 DEF Same, Present
    <3> QED BY ONLY <3>2, <3>3
  <2> QED BY <2>2, <2>3 DEF onward, packed, o
<1>7. CASE ~Refused(m, w.f)
  <2>1. ASSUME NEW x \in DOMAIN m.fields
        PROVE  onward.tag = m.tag /\ Same(m.fields[x], w.f[x], onward.f[x])
    <3>1. onward.tag = m.tag /\ Same(m.fields[x], Meant(m.fields[x], w.f[x]), onward.f[x])
      BY <1>1, <1>5, <1>7, RegularCarried
    <3>2. Meant(m.fields[x], w.f[x]) = w.f[x]
      BY DEF Meant
    <3> QED BY <3>1, <3>2
  <2>2. onward.tag = w.tag
    <3>1. packed.tag = m.tag
      BY <1>5, <1>7 DEF Constructed, Filled
    <3> QED BY <3>1 DEF Transmitted
  <2> QED BY <2>1, <2>2 DEF onward, packed, o
<1> QED BY <1>6, <1>7

--------------------------------------------------------------------------
(* The fields and the messages of the tables.                              *)

\* The variable of a caller is a slot.
LEMMA CallerType == Caller \in Slots(Marks)
BY DEF Caller, Slot, Slots, Size, Marks

\* What a plain field has is a size.
LEMMA SomeSize == {"some"} \subseteq Size
BY DEF Size

\* A plain field loses nothing.
LEMMA PlainRegular == Regular(Plain) /\ Plain.fails = {}
BY CallerType, SomeSize DEF Plain, Regular, IsField, Whole, Clears, ReadBack, Agreeing, Expressed,
   Fits

\* A wide field loses nothing.
LEMMA WideRegular == Regular(Wide) /\ Wide.fails = {}
BY CallerType DEF Wide, Plain, Regular, IsField, Whole, Clears, ReadBack, Agreeing, Fits

\* An optional plain field loses nothing.
LEMMA OptionalRegular == Regular(Optional(Plain)) /\ Optional(Plain).fails = {}
BY CallerType, SomeSize DEF Optional, Plain, Regular, IsField, Whole, Clears, ReadBack, Agreeing,
   Fits

\* An address that is checked once the tag is written loses nothing.
LEMMA AddrRegular == Regular(Failing(Rejecting(Wide, {"over"}), {"over"}))
BY CallerType DEF Failing, Rejecting, Wide, Plain, Regular, IsField, Whole, Clears, ReadBack,
   Agreeing, Fits

\* Messages that have no parser.
Unheard == Of("ble", {"prepare_recv"}) \cup Of("phy", {"send_raw"})
\* Messages with an identifier that is cut and that the encoding does not limit, and with
\* data that is always spoilt and written over another field.
Unlimited == Of("core", {"info_resp"}) \cup Of("ble", {"send_pdu"})
\* Messages a class, too, can give arguments that make the constructor fail.
Doubtful ==
  Of("ble", {"set_adv_data", "reactive_jam", "prepare_recv", "prepare_manual", "prepare_connevt"})
  \cup Of("phy", {"send_raw"})

\* The field x of the message msg, when the field y has the size s.
Sized(d, msg, x, y, s) == <<d, <<msg, x>>, <<y, s>>>>

\* What the constructor makes of a value that the encoder lets pass is that value, unless
\* it is listed as spoilt.
Steady(d, msg, x, k) ==
  /\ Fits(k) /\ k.under = {}
  /\ \A s \in Size : s \in k.wraps \cup k.spoils => Sized(d, msg, x, x, s) \in Spoilt

FieldSound(d, msg, x, k) ==
  LET field == <<d, <<msg, x>>>>
  IN  /\ IsField(k)
      /\ \/ field \in Dropped
         \/ /\ \A s \in Size : Sized(d, msg, x, x, s) \in Missing \cup Spoilt \/ WholeAt(k, s)
            /\ \A y \in k.under : Sized(d, msg, x, y, "full") \in Spoilt
      /\ field \in StaleFlags \/ Clears(k)
      /\ \/ field \in Misread \cup Uncounted \/ <<d, msg>> \in Unheard
         \/ \A s \in Size : Sized(d, msg, x, x, s) \in Overlooked \/ ReadAt(k, s)
      /\ <<d, msg>> \in Lenient \cup Unheard \/ Agreeing(k)
      /\ <<d, msg>> \in Unlimited \/ Steady(d, msg, x, k)
      /\ <<d, msg>> \in HalfBuilt \/ k.fails = {}
      /\ <<d, msg>> \in Doubtful \/ k.fails = {} \/ (x \in Contained /\ k.fails = {"over"})

SchemaSound(d, T0, msg) ==
  LET m == T0[msg]
  IN  /\ m.tag \in DOMAIN T0 /\ DOMAIN T0[m.tag].fields \subseteq DOMAIN m.fields
      /\ \A x \in DOMAIN T0[m.tag].fields : T0[m.tag].fields[x] = m.fields[x]
      /\ \A x \in DOMAIN m.fields :
            x \in DOMAIN T0[m.tag].fields \/ <<d, <<msg, x>>>> \in Dropped
      /\ m.tag = msg \/ (<<d, msg>> \in Renamed /\ ~m.checked)
      /\ <<d, msg>> \in Unheard => ~m.parser
      /\ \A x \in DOMAIN m.fields : FieldSound(d, msg, x, m.fields[x])

\* Fields that are written, or read, whole, whatever the message.
LEMMA WholeSound ==
  ASSUME NEW d, NEW msg, NEW x, NEW k, Whole(k)
  PROVE  /\ \A s \in Size : WholeAt(k, s)
         /\ \A y \in k.under : Sized(d, msg, x, y, "full") \in Spoilt
         /\ Fits(k) => Steady(d, msg, x, k)
BY DEF Whole, WholeAt, Steady

\* What is stored as it is given, at least where the encoder lets it pass.
LEMMA SteadySound ==
  ASSUME NEW d, NEW msg, NEW x, NEW k, Fits(k), k.under = {}, k.wraps = {}, k.spoils = {}
  PROVE  Steady(d, msg, x, k)
BY DEF Steady

\* What is read whole is, at every size.
LEMMA ReadSound ==
  ASSUME NEW k, ReadBack(k)
  PROVE  \A s \in Size : ReadAt(k, s)
BY DEF ReadBack, ReadAt

\* A regular field of a message is sound, in any domain.
LEMMA RegularSound ==
  ASSUME NEW d, NEW msg, NEW x, NEW k, Regular(k), k.fails = {}
  PROVE  FieldSound(d, msg, x, k)
BY WholeSound, ReadSound DEF FieldSound, Regular

\* A field of the fields F, when it has one of the sizes S.
LEMMA WhenIn ==
  ASSUME NEW d, NEW msg, NEW x, NEW F, <<d, <<msg, x>>>> \in F, NEW S, NEW s \in S
  PROVE  Sized(d, msg, x, x, s) \in When(F, S)
BY DEF When, Sized

\* A number that the parser narrows is sound where that is listed.
LEMMA NarrowSound ==
  ASSUME NEW d, NEW msg, NEW x, <<d, <<msg, x>>>> \in NarrowedFields,
         NEW k \in {Narrowed(Plain), Narrowed(Optional(Plain))}
  PROVE  FieldSound(d, msg, x, k)
<1>1. /\ IsField(k) /\ Whole(k) /\ Clears(k) /\ Agreeing(k) /\ Fits(k) /\ k.fails = {}
      /\ \A s \in Size : s = "over" \/ ReadAt(k, s)
  <2>1. Slot(FALSE, "some", "wrapped") \in Slots(Marks)
    BY SlotType DEF Size, Marks
  <2>2. CASE k = Narrowed(Plain)
    BY <2>1, <2>2 DEF Narrowed, Reading, Plain, IsField, Whole, Clears, Agreeing, Expressed, Fits,
       ReadAt, Size
  <2>3. CASE k = Narrowed(Optional(Plain))
    BY <2>1, <2>3 DEF Narrowed, Optional, Reading, Plain, IsField, Whole, Clears, Agreeing,
       Expressed, Fits, ReadAt, Size
  <2> QED BY <2>2, <2>3
<1>2. Sized(d, msg, x, x, "over") \in Overlooked
  BY WhenIn DEF Overlooked
<1> QED BY <1>1, <1>2, WholeSound DEF FieldSound

\* Bytes lose nothing.
LEMMA BytesRegular == Regular(Bytes) /\ Bytes.fails = {}
BY CallerType DEF Bytes, Plain, Regular, IsField, Whole, Clears, ReadBack, Agreeing, Fits

\* A message whose fields are all regular, and one that has its own name as a tag.
LEMMA RegularSchema ==
  ASSUME NEW d, NEW T0, NEW msg \in DOMAIN T0, T0[msg].tag = msg, <<d, msg>> \notin Unheard,
         \A x \in DOMAIN T0[msg].fields :
            Regular(T0[msg].fields[x]) /\ T0[msg].fields[x].fails = {}
  PROVE  SchemaSound(d, T0, msg)
BY RegularSound DEF SchemaSound

\* A message that has its own name as a tag is sound if its fields are.
LEMMA OwnSchema ==
  ASSUME NEW d, NEW T0, NEW msg \in DOMAIN T0, T0[msg].tag = msg,
         <<d, msg>> \in Unheard => ~T0[msg].parser,
         \A x \in DOMAIN T0[msg].fields : FieldSound(d, msg, x, T0[msg].fields[x])
  PROVE  SchemaSound(d, T0, msg)
BY DEF SchemaSound

\* Discovery and the generic messages.
LEMMA CoreKinds == Core!Plain = Plain /\ Core!Bytes = Bytes /\ Core!Wide = Wide
<1>1. Core!Plain = Plain
  BY DEF Core!Plain, Core!Caller, Core!Slot, Core!Parts, Core!Size, Plain, Caller, Slot, Parts, Size
<1>2. Core!Bytes = Bytes /\ Core!Wide = Wide
  BY <1>1 DEF Core!Bytes, Core!Wide, Core!Size, Bytes, Wide, Size
<1> QED BY <1>1, <1>2

CoreRegular ==
  {"cmd_result", "verbose", "debug", "progress", "info_query"}
  \cup {"domain_query", "domain_resp", "reset_query", "ready_resp", "set_speed"}

\* The regular messages of the generic and discovery domains.
LEMMA CoreRegulars ==
  ASSUME NEW msg \in CoreRegular
  PROVE  SchemaSound("core", Core!Table, msg)
<1> DEFINE m == Core!Table[msg]
           Good == m.tag = msg /\ \A x \in DOMAIN m.fields : m.fields[x] \in {Core!Plain, Core!Bytes}
<1> HIDE DEF Good
<1>1. ASSUME msg \in {"cmd_result", "verbose", "debug", "progress", "info_query"}
      PROVE  Good
  BY <1>1 DEF Good, Core!Table, Core!Message, Core!Unparsed, Core!Tested, Core!CmdResult,
              Core!Verbose, Core!Debug, Core!Progress, Core!DeviceInfoQuery
<1>2. ASSUME msg \in {"domain_query", "domain_resp", "reset_query", "ready_resp", "set_speed"}
      PROVE  Good
  BY <1>2 DEF Good, Core!Table, Core!Message, Core!Unparsed, Core!Tested, Core!Command,
              Core!DomainInfoQuery, Core!DomainInfoResp, Core!DeviceReset, Core!ReadyResp,
              Core!SetSpeed
<1>3. Good /\ msg \in DOMAIN Core!Table
  BY <1>1, <1>2 DEF CoreRegular, Core!Table
<1>4. <<"core", msg>> \notin Unheard
  BY DEF Unheard, Of
<1> HIDE DEF m
<1>5. \A x \in DOMAIN m.fields : Regular(m.fields[x]) /\ m.fields[x].fails = {}
  BY <1>3, CoreKinds, PlainRegular, BytesRegular DEF Good
<1> QED BY <1>3, <1>4, <1>5, RegularSchema DEF Good, m

\* The device information of the discovery domain, whose lists and identifier lose
\* something.
LEMMA CoreInfoResp == SchemaSound("core", Core!Table, "info_resp")
<1> DEFINE m == Core!Table["info_resp"]
           devid == [Core!Cut(Core!Wide) EXCEPT !.bounded = FALSE]
           last  == Core!Unwritten(Core!Plain)
           texts == {"fw_author", "fw_url"}
<1>1. "info_resp" \in DOMAIN Core!Table /\ m = Core!DeviceInfoResp
  BY DEF Core!Table
<1>2. /\ m.tag = "info_resp"
      /\ \A x \in DOMAIN m.fields : \/ m.fields[x] \in {Core!Plain, devid}
                                    \/ m.fields[x] = Core!Text /\ x \in texts
                                    \/ m.fields[x] = last /\ x = "devid_last"
                                    \/ m.fields[x] = Core!List /\ x = "capabilities"
  <2>1. /\ m.tag = "info_resp"
        /\ m.fields = [proto_min_ver |-> Core!Plain, max_speed |-> Core!Plain,
                       fw_author |-> Core!Text, fw_url |-> Core!Text,
                       fw_version |-> Core!Plain, type |-> Core!Plain, devid |-> devid,
                       devid_last |-> last, capabilities |-> Core!List]
    BY <1>1 DEF Core!DeviceInfoResp, Core!Unparsed, Core!Message
  <2> HIDE DEF m, devid, last
  <2> QED BY <2>1
<1>3. /\ IsField(devid) /\ Whole(devid) /\ Clears(devid) /\ ReadBack(devid)
      /\ Agreeing(devid) /\ devid.fails = {}
  BY CallerType, CoreKinds DEF Core!Cut, Wide, Plain, Size, IsField, Whole, Clears, ReadBack,
     Agreeing
<1>4. IsField(last) /\ Clears(last) /\ ReadBack(last) /\ Agreeing(last) /\ last.fails = {}
  BY CallerType, SomeSize, CoreKinds
     DEF Core!Unwritten, Core!Writing, Plain, IsField, Clears, ReadBack, Agreeing
<1>5. /\ IsField(Core!List) /\ Clears(Core!List) /\ ReadBack(Core!List) /\ Agreeing(Core!List)
      /\ Core!List.fails = {} /\ Core!List.under = {}
      /\ \A s \in Size : s = "over" \/ WholeAt(Core!List, s)
  BY CallerType, CoreKinds DEF Core!List, Core!Size, Plain, Size, IsField, Clears, ReadBack,
     Agreeing, WholeAt
<1>6. /\ IsField(Core!Text) /\ Clears(Core!Text) /\ ReadBack(Core!Text) /\ Agreeing(Core!Text)
      /\ Core!Text.fails = {} /\ Core!Text.under = {}
      /\ \A s \in Size : s = "full" \/ WholeAt(Core!Text, s)
  BY CallerType, CoreKinds DEF Core!Text, Wide, Plain, Size, IsField, Clears, ReadBack,
     Agreeing, WholeAt
<1>7. /\ <<"core", "info_resp">> \in Unlimited /\ <<"core", "info_resp">> \notin Unheard
      /\ <<"core", <<"info_resp", "devid_last">>>> \in Dropped
  BY DEF Unlimited, Unheard, Dropped, Of
<1>8. /\ Sized("core", "info_resp", "capabilities", "capabilities", "over") \in Spoilt
      /\ \A x \in texts : Sized("core", "info_resp", x, x, "full") \in Spoilt
  <2>1. /\ <<"core", <<"info_resp", "capabilities">>>> \in Of("core", {<<"info_resp", "capabilities">>})
        /\ \A x \in texts : <<"core", <<"info_resp", x>>>> \in Of("core", {"info_resp"} \X texts)
    BY DEF Of
  <2> QED BY <2>1, WhenIn DEF Spoilt
<1> HIDE DEF m, devid, last, texts
<1>9. \A x : FieldSound("core", "info_resp", x, devid)
  BY <1>3, <1>7, WholeSound, ReadSound DEF FieldSound
<1>10. FieldSound("core", "info_resp", "devid_last", last)
  BY <1>4, <1>7, ReadSound DEF FieldSound
<1>11. FieldSound("core", "info_resp", "capabilities", Core!List)
  BY <1>5, <1>7, <1>8, ReadSound DEF FieldSound
<1>12. ASSUME NEW x \in texts
       PROVE  FieldSound("core", "info_resp", x, Core!Text)
  BY <1>6, <1>7, <1>8, ReadSound DEF FieldSound
<1>13. ASSUME NEW x
       PROVE  FieldSound("core", "info_resp", x, Core!Plain)
  BY CoreKinds, PlainRegular, RegularSound
<1> QED BY <1>1, <1>2, <1>7, <1>9, <1>10, <1>11, <1>12, <1>13, OwnSchema DEF m

\* Every message of the generic and discovery domains is sound.
LEMMA CoreSchemas ==
  /\ "none" \notin DOMAIN Core!Table
  /\ \A msg \in DOMAIN Core!Table : SchemaSound("core", Core!Table, msg)
<1>1. DOMAIN Core!Table = CoreRegular \cup {"info_resp"} /\ "none" \notin CoreRegular
  BY DEF Core!Table, CoreRegular
<1> QED BY <1>1, CoreRegulars, CoreInfoResp

\* Bluetooth Low Energy.
LEMMA BleKinds == Ble!Plain = Plain /\ Ble!Bytes = Bytes
<1>1. Ble!Plain = Plain
  BY DEF Ble!Plain, Ble!Caller, Ble!Slot, Ble!Parts, Ble!Size, Plain, Caller, Slot, Parts, Size
<1>2. Ble!Bytes = Bytes
  BY <1>1 DEF Ble!Bytes, Ble!Size, Bytes, Size
<1> QED BY <1>1, <1>2

BleRegular ==
  {"connected", "disconnected", "set_bd_addr", "sniff_adv", "jam_adv", "jam_adv_chan"}
  \cup {"sniff_connreq", "sniff_aa", "sniff_conn", "jam_conn", "scan_mode", "central_mode"}
  \cup {"disconnect", "start", "stop", "hijack_master", "hijack_slave", "hijack_both",
        "encryption"}
  \cup {"trigger", "delete_seq", "triggered", "synchronized", "desynchronized", "hijacked",
        "injected"}
BleIrregular ==
  {"raw_pdu", "pdu", "adv_mode", "periph_mode", "set_adv_data", "connect", "send_raw_pdu",
   "send_pdu", "reactive_jam", "prepare_recv", "prepare_manual", "prepare_connevt", "aa_disc",
   "adv_pdu"}

\* The regular messages of the BLE domain.
LEMMA BleRegulars ==
  ASSUME NEW msg \in BleRegular
  PROVE  SchemaSound("ble", Ble!Table, msg)
<1> DEFINE m == Ble!Table[msg]
           Good == m.tag = msg /\ \A x \in DOMAIN m.fields : m.fields[x] \in {Ble!Plain, Ble!Bytes}
<1> HIDE DEF Good
<1>1. ASSUME msg \in {"connected", "disconnected", "set_bd_addr", "sniff_adv", "jam_adv",
                    "jam_adv_chan"}
      PROVE  Good
  <2>1. CASE msg \in {"connected", "disconnected"}
    BY <2>1, SMTT(60) DEF Good, Ble!Table, Ble!Message, Ble!Command, Ble!Unparsed,
       Ble!NotifyConnected, Ble!NotifyDisconnected
  <2>2. CASE msg \in {"set_bd_addr", "sniff_adv", "jam_adv", "jam_adv_chan"}
    BY <2>2, SMTT(60) DEF Good, Ble!Table, Ble!Message, Ble!Command, Ble!Unparsed,
       Ble!SetBdAddress, Ble!SniffAdv, Ble!JamAdv, Ble!JamAdvChannel
  <2> QED BY <1>1, <2>1, <2>2
<1>2. ASSUME msg \in {"sniff_connreq", "sniff_aa", "sniff_conn", "jam_conn", "scan_mode",
                    "central_mode"}
      PROVE  Good
    BY <1>2 DEF Good, Ble!Table, Ble!Message, Ble!Command, Ble!Unparsed, Ble!SniffConnReq,
       Ble!SniffAccessAddress, Ble!SniffActiveConn,
                Ble!JamActiveConn, Ble!ScanMode, Ble!CentralMode
<1>3. ASSUME msg \in {"disconnect", "start", "stop", "hijack_master", "hijack_slave",
                    "hijack_both", "encryption"}
      PROVE  Good
    BY <1>3 DEF Good, Ble!Table, Ble!Message, Ble!Command, Ble!Unparsed, Ble!Disconnect, Ble!Start,
       Ble!Stop, Ble!HijackMaster, Ble!HijackSlave,
                Ble!HijackBoth, Ble!SetEncryption
<1>4. ASSUME msg \in {"trigger", "delete_seq", "triggered", "synchronized", "desynchronized",
                    "hijacked", "injected"}
      PROVE  Good
  <2>1. CASE msg \in {"trigger", "delete_seq", "triggered"}
    BY <2>1, SMTT(60) DEF Good, Ble!Table, Ble!Message, Ble!Command, Ble!Unparsed,
       Ble!Trigger, Ble!DeleteSeq, Ble!Triggered
  <2>2. CASE msg \in {"synchronized", "desynchronized", "hijacked", "injected"}
    BY <2>2, SMTT(60) DEF Good, Ble!Table, Ble!Message, Ble!Command, Ble!Unparsed,
       Ble!Synchronized, Ble!Desynchronized, Ble!Hijacked, Ble!Injected
  <2> QED BY <1>4, <2>1, <2>2
<1>5. Good
  BY <1>1, <1>2, <1>3, <1>4 DEF BleRegular
<1>6. msg \in DOMAIN Ble!Table
  BY DEF BleRegular, Ble!Table
<1>7. <<"ble", msg>> \notin Unheard
  BY DEF BleRegular, Unheard, Of
<1> HIDE DEF m
<1>8. \A x \in DOMAIN m.fields : Regular(m.fields[x]) /\ m.fields[x].fails = {}
  BY <1>5, BleKinds, PlainRegular, BytesRegular DEF Good
<1> QED BY <1>5, <1>6, <1>7, <1>8, RegularSchema DEF Good, m

\* The fields of this domain that no regular kind describes.
LEMMA BleKept ==
  LET k == Ble!Kept(Ble!Plain)
  IN  IsField(k) /\ Whole(k) /\ ReadBack(k) /\ Agreeing(k) /\ Fits(k) /\ k.fails = {}
BY CallerType, SomeSize, BleKinds DEF Ble!Kept, Plain, IsField, Whole, ReadBack, Agreeing, Fits

\* An optional field whose flag is left as it was, but that is otherwise whole.
LEMMA BleOptional ==
  LET k == Ble!Optional(Ble!Plain) IN Regular(k) /\ k.fails = {}
BY CallerType, SomeSize, BleKinds
   DEF Ble!Optional, Plain, Regular, IsField, Whole, Clears, ReadBack, Agreeing, Fits

\* The data of the advertiser and of the peripheral modes.
LEMMA BleAdvData ==
  LET k == Ble!AdvData
  IN  /\ IsField(k) /\ Clears(k) /\ Agreeing(k) /\ Fits(k) /\ k.fails = {}
      /\ k.wraps = {} /\ k.spoils = {} /\ k.under = {}
      /\ \A s \in Size : (s = "empty" \/ WholeAt(k, s)) /\ (s = "full" \/ ReadAt(k, s))
<1>1. /\ Ble!AdvData.opt = FALSE /\ Ble!AdvData.blank = Ble!Zeroed /\ Ble!AdvData.lens = Size
      /\ Ble!AdvData.wider = {} /\ Ble!AdvData.cuts = {"over"} /\ Ble!AdvData.bounded = TRUE
      /\ Ble!AdvData.wraps = {} /\ Ble!AdvData.spoils = {} /\ Ble!AdvData.under = {}
      /\ Ble!AdvData.refuses = {} /\ Ble!AdvData.fails = {} /\ Ble!AdvData.rejects = {}
      /\ Ble!AdvData.strays = FALSE
      /\ \A s \in Size : /\ s = "empty" \/ Ble!AdvData.writes[s] = Parts
                         /\ s = "full" \/ Ble!AdvData.reads[s] = Parts
  BY DEF Ble!AdvData, Ble!Cut, Ble!Writing, Ble!Reading, Ble!Wide, Ble!Plain, Ble!Size, Size,
     Ble!Parts, Parts
<1>2. Ble!Zeroed \in Slots(Marks)
  BY SlotType DEF Ble!Zeroed, Ble!Slot, Zeroed, Slot
<1> QED BY <1>1, <1>2 DEF IsField, Clears, Agreeing, Expressed, Fits, WholeAt, ReadAt

\* The messages of the BLE domain that lose something.
LEMMA BleIrregulars ==
  ASSUME NEW msg \in BleIrregular
  PROVE  SchemaSound("ble", Ble!Table, msg)
<1> DEFINE m == Ble!Table[msg]
<1>1. msg \in DOMAIN Ble!Table
  BY DEF BleIrregular, Ble!Table
<1>2. SUFFICES /\ m.tag = msg /\ (<<"ble", msg>> \in Unheard => ~m.parser)
               /\ \A x \in DOMAIN m.fields : FieldSound("ble", msg, x, m.fields[x])
  BY <1>1, OwnSchema
<1> HIDE DEF m
\* The plain fields.
<1>3. ASSUME NEW x, NEW k \in {Ble!Plain, Ble!Bytes, Ble!Optional(Ble!Plain)}
      PROVE  FieldSound("ble", msg, x, k)
  BY <1>3, BleKinds, BleOptional, PlainRegular, BytesRegular, RegularSound
<1>4. CASE msg = "raw_pdu"
  <2>1. m = Ble!RawPdu
    BY <1>4 DEF m, Ble!Table
  <2>2. m.tag = msg /\ \A x \in DOMAIN m.fields :
           \/ m.fields[x] \in {Ble!Plain, Ble!Bytes, Ble!Optional(Ble!Plain)}
           \/ x \in {"timestamp", "relative_timestamp"} /\ m.fields[x] = Ble!Kept(Ble!Plain)
    BY <1>4, <2>1 DEF Ble!RawPdu, Ble!Unparsed, Ble!Message
  <2>3. ASSUME NEW x \in {"timestamp", "relative_timestamp"}
        PROVE  FieldSound("ble", msg, x, Ble!Kept(Ble!Plain))
    <3>1. <<"ble", <<msg, x>>>> \in StaleFlags
      BY <1>4 DEF StaleFlags, Of
    <3> QED BY <3>1, BleKept, WholeSound, ReadSound DEF FieldSound
  <2>4. <<"ble", msg>> \notin Unheard
    BY <1>4 DEF Unheard, Of
  <2> QED BY <1>3, <2>2, <2>3, <2>4
<1>5. CASE msg \in {"adv_mode", "periph_mode"}
  <2>1. /\ m.tag = msg /\ DOMAIN m.fields = {"adv_data", "scanrsp_data"}
        /\ \A x \in DOMAIN m.fields : m.fields[x] = Ble!AdvData
    BY <1>5 DEF m, Ble!Table, Ble!AdvMode, Ble!PeripheralMode, Ble!Message
  <2>2. ASSUME NEW x \in {"adv_data", "scanrsp_data"}
        PROVE  Sized("ble", msg, x, x, "empty") \in Missing /\ Sized("ble", msg, x, x, "full") \in Overlooked
    <3>1. <<"ble", <<msg, x>>>> \in AdvertisingData
      BY <1>5 DEF AdvertisingData, Of
    <3> QED BY <3>1, WhenIn DEF Missing, Overlooked
  <2>3. <<"ble", msg>> \notin Unheard
    BY <1>5 DEF Unheard, Of
  <2>4. ASSUME NEW x \in {"adv_data", "scanrsp_data"}
        PROVE  FieldSound("ble", msg, x, Ble!AdvData)
    BY <2>2, BleAdvData, SteadySound DEF FieldSound
  <2> QED BY <2>1, <2>3, <2>4
<1>6. CASE msg = "set_adv_data"
  <2> DEFINE k == Ble!Rejecting(Ble!Failing(Ble!Wide, Ble!Size), Ble!Size)
  <2>1. m.tag = msg /\ DOMAIN m.fields = {"adv_data", "scanrsp_data"}
        /\ \A x \in DOMAIN m.fields : m.fields[x] = k
    BY <1>6 DEF m, Ble!Table, Ble!SetAdvData, Ble!Message
  <2>2. Regular(k)
    BY CallerType, BleKinds DEF Ble!Rejecting, Ble!Failing, Ble!Wide, Ble!Size, Size, Plain,
       Regular, IsField, Whole, Clears, ReadBack, Agreeing, Fits
  <2>3. <<"ble", msg>> \in HalfBuilt \cap Doubtful /\ <<"ble", msg>> \notin Unheard
    BY <1>6 DEF HalfBuilt, Doubtful, Unheard, Of
  <2> HIDE DEF k
  <2>4. \A x : FieldSound("ble", msg, x, k)
    BY <2>2, <2>3, WholeSound, ReadSound DEF FieldSound, Regular
  <2> QED BY <2>1, <2>3, <2>4
<1>7. CASE msg = "connect"
  <2>1. m.tag = msg /\ \A x \in DOMAIN m.fields :
          \/ m.fields[x] = Ble!Plain
          \/ /\ m.fields[x] = Ble!Kept(Ble!Plain)
             /\ x \in {"access_address", "channel_map", "hop_interval", "hop_increment", "crc_init"}
    BY <1>7 DEF m, Ble!Table, Ble!ConnectTo, Ble!Message
  <2>2. ASSUME NEW x \in {"access_address", "channel_map", "hop_interval", "hop_increment", "crc_init"}
        PROVE  FieldSound("ble", msg, x, Ble!Kept(Ble!Plain))
    <3>1. <<"ble", <<msg, x>>>> \in StaleFlags
      BY <1>7 DEF StaleFlags, Of
    <3> QED BY <3>1, BleKept, WholeSound, ReadSound DEF FieldSound
  <2>3. <<"ble", msg>> \notin Unheard
    BY <1>7 DEF Unheard, Of
  <2> QED BY <1>3, <2>1, <2>2, <2>3
<1>8. CASE msg = "send_raw_pdu"
  <2>1. m.tag = msg /\ \A x \in DOMAIN m.fields :
          m.fields[x] = Ble!Plain \/ (m.fields[x] = Ble!Unsized /\ x = "pdu")
    BY <1>8 DEF m, Ble!Table, Ble!SendRawPdu, Ble!Message
  <2>2. /\ IsField(Ble!Unsized) /\ Clears(Ble!Unsized) /\ ReadBack(Ble!Unsized)
        /\ Agreeing(Ble!Unsized) /\ Fits(Ble!Unsized) /\ Ble!Unsized.fails = {}
        /\ Ble!Unsized.wraps = {} /\ Ble!Unsized.spoils = {} /\ Ble!Unsized.under = {}
    BY CallerType, BleKinds DEF Ble!Unsized, Ble!Writing, Ble!Size, Plain, Bytes, Size,
       IsField, Clears, ReadBack, Agreeing, Fits
  <2>3. <<"ble", <<msg, "pdu">>>> \in Dropped
    BY <1>8 DEF Dropped, Of
  <2>4. FieldSound("ble", msg, "pdu", Ble!Unsized)
    BY <2>2, <2>3, SteadySound, ReadSound DEF FieldSound
  <2>5. <<"ble", msg>> \notin Unheard
    BY <1>8 DEF Unheard, Of
  <2> QED BY <1>3, <2>1, <2>4, <2>5
\* The PDU that is written over encrypt.
<1>14. CASE msg = "send_pdu"
  <2> DEFINE moved == [Ble!Unsized EXCEPT !.spoils = Ble!Size]
             over  == [Ble!Plain EXCEPT !.under = {"pdu"}]
  <2>1. m.tag = msg /\ \A x \in DOMAIN m.fields :
          \/ m.fields[x] = Ble!Plain
          \/ m.fields[x] = moved /\ x = "pdu"
          \/ m.fields[x] = over /\ x = "encrypt"
    <3>1. m.tag = msg /\ m.fields = [direction |-> Ble!Plain, conn_handle |-> Ble!Plain,
                                    pdu |-> moved, encrypt |-> over]
      BY <1>14 DEF m, Ble!Table, Ble!SendPdu, Ble!Message
    <3> HIDE DEF moved, over
    <3> QED BY <3>1
  <2>2. /\ IsField(moved) /\ Clears(moved) /\ ReadBack(moved) /\ Agreeing(moved)
        /\ moved.fails = {}
    BY CallerType, BleKinds DEF Ble!Unsized, Ble!Writing, Ble!Size, Plain, Bytes, Size,
       IsField, Clears, ReadBack, Agreeing
  <2>3. /\ IsField(over) /\ Clears(over) /\ ReadBack(over) /\ Agreeing(over)
        /\ over.fails = {} /\ over.under = {"pdu"} /\ \A s \in Size : WholeAt(over, s)
    BY CallerType, SomeSize, BleKinds DEF Plain, IsField, Clears, ReadBack, Agreeing, WholeAt
  <2>4. /\ <<"ble", <<msg, "pdu">>>> \in Dropped /\ <<"ble", msg>> \notin Unheard
        /\ <<"ble", msg>> \in Unlimited
    BY <1>14 DEF Dropped, Unheard, Unlimited, Of
  <2>5. Sized("ble", msg, "encrypt", "pdu", "full") \in Spoilt
    BY <1>14 DEF Sized, Spoilt
  <2> HIDE DEF moved, over
  <2>6. FieldSound("ble", msg, "pdu", moved)
    BY <2>2, <2>4, ReadSound DEF FieldSound
  <2>7. FieldSound("ble", msg, "encrypt", over)
    BY <2>3, <2>4, <2>5, ReadSound DEF FieldSound
  <2> QED BY <1>3, <2>1, <2>4, <2>6, <2>7
<1>15. CASE msg = "pdu"
  <2> DEFINE k == Ble!Unread(Ble!Plain)
  <2>1. m.tag = msg /\ \A x \in DOMAIN m.fields :
          m.fields[x] \in {Ble!Plain, Ble!Bytes} \/ (m.fields[x] = k /\ x = "direction")
    BY <1>15 DEF m, Ble!Table, Ble!Pdu, Ble!Message
  <2>2. IsField(k) /\ Whole(k) /\ Clears(k) /\ Agreeing(k) /\ Fits(k) /\ k.fails = {}
    BY CallerType, SomeSize, BleKinds DEF Ble!Unread, Ble!Reading, Ble!Size, Plain, Size,
       IsField, Whole, Clears, Agreeing, Fits
  <2>3. <<"ble", <<msg, "direction">>>> \in Misread /\ <<"ble", msg>> \notin Unheard
    BY <1>15 DEF Misread, Unheard, Of
  <2> HIDE DEF k
  <2>4. FieldSound("ble", msg, "direction", k)
    BY <2>2, <2>3, WholeSound DEF FieldSound
  <2> QED BY <1>3, <2>1, <2>3, <2>4
<1>9. CASE msg = "reactive_jam"
  <2> DEFINE k == Ble!Rejecting(Ble!Failing(Ble!Wide, {"over"}), {"over"})
  <2>1. m.tag = msg /\ \A x \in DOMAIN m.fields : m.fields[x] \in {Ble!Plain, k}
    BY <1>9 DEF m, Ble!Table, Ble!ReactiveJam, Ble!Early, Ble!Message
  <2>2. Regular(k)
    BY CallerType, BleKinds DEF Ble!Rejecting, Ble!Failing, Ble!Wide, Ble!Size, Size, Plain,
       Regular, IsField, Whole, Clears, ReadBack, Agreeing, Fits
  <2>3. <<"ble", msg>> \in HalfBuilt \cap Doubtful /\ <<"ble", msg>> \notin Unheard
    BY <1>9 DEF HalfBuilt, Doubtful, Unheard, Of
  <2>4. \A x : FieldSound("ble", msg, x, k)
    <3> HIDE DEF k
    <3> QED BY <2>2, <2>3, WholeSound, ReadSound DEF FieldSound, Regular
  <2> HIDE DEF k
  <2> QED BY <1>3, <2>1, <2>3, <2>4
<1>10. CASE msg \in {"prepare_manual", "prepare_connevt"}
  <2>1. /\ m.tag = msg
        /\ \A x \in DOMAIN m.fields :
             m.fields[x] = Ble!Plain \/ (m.fields[x] = Ble!Sequence /\ x = "packets")
    <3>1. CASE msg = "prepare_manual"
      <4>1. m.tag = msg /\ m.fields = Ble!SequenceFields
        BY <3>1 DEF m, Ble!Table, Ble!PrepareManual, Ble!Early, Ble!Message
      <4> QED BY <4>1 DEF Ble!SequenceFields
    <3>2. CASE msg = "prepare_connevt"
      <4>1. m.tag = msg /\ m.fields = Ble!Also(Ble!SequenceFields, [conn_evt |-> Ble!Plain])
        BY <3>2 DEF m, Ble!Table, Ble!PrepareConnEvt, Ble!Early, Ble!Message
      <4> QED BY <4>1 DEF Ble!SequenceFields, Ble!Also
    <3> QED BY <1>10, <3>1, <3>2
  <2>2. /\ IsField(Ble!Sequence) /\ Whole(Ble!Sequence) /\ Clears(Ble!Sequence)
        /\ Fits(Ble!Sequence)
    BY SlotType, BleKinds DEF Ble!Sequence, Ble!Reading, Ble!Failing, Ble!Wide, Ble!Size,
       Ble!Zeroed, Ble!Slot, Zeroed, Slot, Plain, Size, IsField, Whole, Clears, Fits
  <2>3. /\ <<"ble", msg>> \in HalfBuilt \cap Doubtful \cap Lenient
        /\ <<"ble", msg>> \notin Unheard
        /\ <<"ble", <<msg, "packets">>>> \in Uncounted
    BY <1>10 DEF HalfBuilt, Doubtful, Lenient, Uncounted, Unheard, Of
  <2>4. FieldSound("ble", msg, "packets", Ble!Sequence)
    BY <2>2, <2>3, WholeSound DEF FieldSound
  <2> QED BY <1>3, <2>1, <2>3, <2>4
<1>11. CASE msg = "prepare_recv"
  <2> DEFINE packets == [Ble!Refusing(Ble!Sequence, Ble!Size \ {"empty"}) EXCEPT !.fails = {}]
             pattern == Ble!Failing(Ble!Wide, {"empty", "full", "over"})
             offset  == Ble!Unwritten(Ble!Plain)
  <2>1. /\ m.tag = msg /\ m.parser = FALSE
        /\ \A x \in DOMAIN m.fields : \/ m.fields[x] \in {Ble!Plain, packets, pattern}
                                      \/ m.fields[x] = offset /\ x = "offset"
    <3>1. m = Ble!PrepareOnRecv
      BY <1>11 DEF m, Ble!Table
    <3>2. /\ m.tag = "prepare_recv" /\ m.parser = FALSE
          /\ m.fields = [id |-> Ble!Plain, direction |-> Ble!Plain, packets |-> packets,
                         pattern |-> pattern, offset |-> offset]
      BY <3>1 DEF Ble!PrepareOnRecv, Ble!Unparsed, Ble!Early, Ble!Message
    <3> HIDE DEF packets, pattern, offset
    <3> QED BY <1>11, <3>2
  <2>2. IsField(packets) /\ Whole(packets) /\ Clears(packets) /\ Fits(packets)
    BY SlotType, BleKinds DEF Ble!Refusing, Ble!Sequence, Ble!Reading, Ble!Failing, Ble!Wide,
       Ble!Size, Ble!Zeroed, Ble!Slot, Zeroed, Slot, Plain, Size, IsField, Whole, Clears, Fits
  <2>3. IsField(pattern) /\ Whole(pattern) /\ Clears(pattern) /\ Fits(pattern)
    BY CallerType, BleKinds DEF Ble!Failing, Ble!Wide, Ble!Size, Plain, Size,
       IsField, Whole, Clears, Fits
  <2>4. /\ IsField(offset) /\ Clears(offset) /\ Fits(offset)
        /\ offset.wraps = {} /\ offset.spoils = {} /\ offset.under = {}
    BY CallerType, SomeSize, BleKinds DEF Ble!Unwritten, Ble!Writing, Ble!Size, Plain, Size,
       IsField, Clears, Fits
  <2>5. /\ <<"ble", msg>> \in HalfBuilt \cap Doubtful \cap Unheard
        /\ <<"ble", <<msg, "offset">>>> \in Dropped
    BY <1>11 DEF HalfBuilt, Doubtful, Dropped, Unheard, Of
  <2> HIDE DEF packets, pattern, offset
  <2>6. \A x : FieldSound("ble", msg, x, packets) /\ FieldSound("ble", msg, x, pattern)
    BY <2>2, <2>3, <2>5, WholeSound DEF FieldSound
  <2>7. FieldSound("ble", msg, "offset", offset)
    BY <2>4, <2>5, SteadySound DEF FieldSound
  <2> QED BY <1>3, <2>1, <2>6, <2>7
<1>12. CASE msg = "aa_disc"
  <2> DEFINE when == Ble!Narrowed(Ble!Kept(Ble!Plain))
  <2>1. m.tag = msg /\ \A x \in DOMAIN m.fields :
          \/ m.fields[x] = Ble!Plain
          \/ m.fields[x] = when /\ x = "timestamp"
          \/ m.fields[x] = Ble!Kept(Ble!Plain) /\ x = "rssi"
    <3>1. m.tag = msg /\ m.fields = [access_address |-> Ble!Plain, timestamp |-> when,
                                    rssi |-> Ble!Kept(Ble!Plain)]
      BY <1>12 DEF m, Ble!Table, Ble!AccessAddressDiscovered, Ble!Message
    <3> HIDE DEF when
    <3> QED BY <3>1
  <2>2. /\ <<"ble", msg>> \notin Unheard
        /\ \A x \in {"timestamp", "rssi"} : <<"ble", <<msg, x>>>> \in StaleFlags
    BY <1>12 DEF StaleFlags, Unheard, Of
  <2>3. FieldSound("ble", msg, "rssi", Ble!Kept(Ble!Plain))
    BY <2>2, BleKept, WholeSound, ReadSound DEF FieldSound
  <2>4. /\ IsField(when) /\ Whole(when) /\ Agreeing(when) /\ Fits(when) /\ when.fails = {}
        /\ \A s \in Size : s = "over" \/ ReadAt(when, s)
    <3>1. Ble!Slot(FALSE, "some", "wrapped") \in Slots(Marks)
      BY SlotType DEF Ble!Slot, Slot, Size, Marks
    <3> QED BY <3>1, BleKinds DEF Ble!Narrowed, Ble!Reading, Ble!Kept, Ble!Size, Plain, Size,
               IsField, Whole, Agreeing, Expressed, Fits, ReadAt
  <2>5. Sized("ble", msg, "timestamp", "timestamp", "over") \in Overlooked
    <3>1. <<"ble", <<msg, "timestamp">>>> \in NarrowedFields
      BY <1>12 DEF NarrowedFields, Of
    <3> QED BY <3>1, WhenIn DEF Overlooked
  <2> HIDE DEF when
  <2>6. FieldSound("ble", msg, "timestamp", when)
    BY <2>2, <2>4, <2>5, WholeSound DEF FieldSound
  <2> QED BY <1>3, <2>1, <2>2, <2>3, <2>6
<1>13. CASE msg = "adv_pdu"
  <2> DEFINE k == Ble!Writing(Ble!Wide, {"empty", "full", "over"}, {})
  <2>1. m.tag = msg /\ \A x \in DOMAIN m.fields :
          m.fields[x] = Ble!Plain \/ (m.fields[x] = k /\ x = "adv_data")
    BY <1>13 DEF m, Ble!Table, Ble!AdvPdu, Ble!Message
  <2>2. /\ IsField(k) /\ Clears(k) /\ ReadBack(k) /\ Agreeing(k) /\ Fits(k) /\ k.fails = {}
        /\ k.wraps = {} /\ k.spoils = {} /\ k.under = {}
        /\ \A s \in Size : s \in {"empty", "full", "over"} \/ WholeAt(k, s)
    BY CallerType, BleKinds DEF Ble!Writing, Ble!Wide, Ble!Size, Plain, Size,
       IsField, Clears, ReadBack, Agreeing, Fits, WholeAt
  <2>3. /\ <<"ble", msg>> \notin Unheard
        /\ \A s \in {"empty", "full", "over"} : Sized("ble", msg, "adv_data", "adv_data", s) \in Missing
    <3>1. <<"ble", <<msg, "adv_data">>>> \in Of("ble", {<<"adv_pdu", "adv_data">>})
      BY <1>13 DEF Of
    <3> QED BY <1>13, <3>1, WhenIn DEF Missing, Unheard, Of
  <2> HIDE DEF k
  <2>4. FieldSound("ble", msg, "adv_data", k)
    BY <2>2, <2>3, SteadySound, ReadSound DEF FieldSound
  <2> QED BY <1>3, <2>1, <2>3, <2>4
<1> QED
  BY <1>4, <1>5, <1>6, <1>7, <1>8, <1>9, <1>10, <1>11, <1>12, <1>13, <1>14, <1>15
     DEF BleIrregular

\* Every message of the BLE domain is sound.
LEMMA BleSchemas ==
  /\ "none" \notin DOMAIN Ble!Table
  /\ \A msg \in DOMAIN Ble!Table : SchemaSound("ble", Ble!Table, msg)
<1>1. DOMAIN Ble!Table = BleRegular \cup BleIrregular
  BY DEF Ble!Table, BleRegular, BleIrregular
<1>2. "none" \notin BleRegular \cup BleIrregular
  BY DEF BleRegular, BleIrregular
<1> QED BY <1>1, <1>2, BleRegulars, BleIrregulars

\* The physical layer.
LEMMA PhyKinds ==
  /\ Phy!Plain = Plain /\ Phy!Bytes = Bytes /\ Phy!Wide = Wide
  /\ Phy!Packet = Refusing(Wide, {"over"})
<1>1. Phy!Plain = Plain
  BY DEF Phy!Plain, Phy!Caller, Phy!Slot, Phy!Parts, Phy!Size, Plain, Caller, Slot, Parts, Size
<1>2. Phy!Bytes = Bytes /\ Phy!Wide = Wide
  BY <1>1 DEF Phy!Bytes, Phy!Wide, Phy!Size, Bytes, Wide, Size
<1> QED BY <1>1, <1>2 DEF Phy!Packet, Phy!Refusing, Refusing

PhyRegular ==
  {"mod_ask", "mod_fsk", "mod_4fsk", "mod_gfsk", "mod_bpsk", "mod_qpsk", "mod_msk"}
  \cup {"mod_lora", "set_freq", "datarate", "endianness", "tx_power", "packet_size"}
  \cup {"sync_word", "sniff", "jam", "monitor", "start", "stop", "send"}
  \cup {"sched_pkt_sent"}
PhyIrregular == {"send_raw", "supported_freq", "sched_send", "jammed", "packet", "sched_pkt_rsp"}

\* The encoder refuses the sizes that the constructor refuses.
LEMMA PacketRegular ==
  LET k == Refusing(Wide, {"over"}) IN Regular(k) /\ k.fails = {}
BY CallerType DEF Refusing, Wide, Plain, Size, Regular, IsField, Whole, Clears, ReadBack,
   Agreeing, Fits

\* The regular messages of the PHY domain.
LEMMA PhyRegulars ==
  ASSUME NEW msg \in PhyRegular
  PROVE  SchemaSound("phy", Phy!Table, msg)
<1> DEFINE m == Phy!Table[msg]
           kinds == {Plain, Refusing(Wide, {"over"}), Optional(Plain)}
           Good == m.tag = msg /\ \A x \in DOMAIN m.fields : m.fields[x] \in kinds
<1>0. /\ Phy!Plain \in kinds /\ Phy!Refusing(Phy!Wide, {"over"}) \in kinds
      /\ Phy!Packet \in kinds /\ Phy!Optional(Phy!Plain) \in kinds
  BY PhyKinds DEF Phy!Refusing, Refusing, Phy!Optional, Optional
<1> HIDE DEF Good, kinds
<1>1. ASSUME msg \in {"mod_ask", "mod_fsk", "mod_4fsk", "mod_gfsk", "mod_bpsk", "mod_qpsk",
                      "mod_msk"}
      PROVE  Good
  BY <1>0, <1>1 DEF Good, Phy!Table, Phy!Message, Phy!Command, Phy!SetAsk, Phy!SetFsk,
     Phy!Set4Fsk, Phy!SetGfsk, Phy!SetBpsk, Phy!SetQpsk, Phy!SetMsk
<1>2. ASSUME msg \in {"mod_lora", "set_freq", "datarate", "endianness", "tx_power",
                      "packet_size"}
      PROVE  Good
  BY <1>0, <1>2 DEF Good, Phy!Table, Phy!Message, Phy!SetLora, Phy!SetFreq, Phy!SetDatarate,
     Phy!SetEndianness, Phy!SetTxPower, Phy!SetPacketSize
<1>3. ASSUME msg \in {"sync_word", "sniff", "jam", "monitor", "start", "stop", "send"}
      PROVE  Good
  BY <1>0, <1>3 DEF Good, Phy!Table, Phy!Message, Phy!Command, Phy!SetSyncWord, Phy!SniffMode,
     Phy!JamMode, Phy!MonitorMode, Phy!Start, Phy!Stop, Phy!Send
<1>4. ASSUME msg = "sched_pkt_sent"
      PROVE  Good
  BY <1>0, <1>4 DEF Good, Phy!Table, Phy!Message, Phy!SchedPacketSent
<1>5. Good /\ msg \in DOMAIN Phy!Table
  BY <1>1, <1>2, <1>3, <1>4 DEF PhyRegular, Phy!Table
<1>6. <<"phy", msg>> \notin Unheard
  BY DEF PhyRegular, Unheard, Of
<1> HIDE DEF m
<1>7. \A x \in DOMAIN m.fields : Regular(m.fields[x]) /\ m.fields[x].fails = {}
  BY <1>5, PlainRegular, PacketRegular, OptionalRegular DEF Good, kinds
<1> QED BY <1>5, <1>6, <1>7, RegularSchema DEF Good, m

\* The messages of the PHY domain that lose something.
LEMMA PhyIrregulars ==
  ASSUME NEW msg \in PhyIrregular
  PROVE  SchemaSound("phy", Phy!Table, msg)
<1> DEFINE m == Phy!Table[msg]
<1>1. msg \in DOMAIN Phy!Table
  BY DEF PhyIrregular, Phy!Table
<1>2. SUFFICES /\ m.tag = msg /\ (<<"phy", msg>> \in Unheard => ~m.parser)
               /\ \A x \in DOMAIN m.fields : FieldSound("phy", msg, x, m.fields[x])
  BY <1>1, OwnSchema
<1> HIDE DEF m
<1>3. ASSUME NEW x, NEW k \in {Phy!Plain, Phy!Packet}
      PROVE  FieldSound("phy", msg, x, k)
  BY <1>3, PhyKinds, PlainRegular, PacketRegular, RegularSound
\* A timestamp wraps, when it is written and when it is read.
<1>4. ASSUME <<"phy", <<msg, "timestamp">>>> \in PhyTimestamps, <<"phy", msg>> \notin Unheard,
             NEW k \in {Phy!Timestamp, Phy!Optional(Phy!Timestamp)}
      PROVE  FieldSound("phy", msg, "timestamp", k)
  <2>1. /\ IsField(k) /\ Clears(k) /\ Agreeing(k) /\ Fits(k) /\ k.fails = {}
        /\ k.wraps = {"full"} /\ k.spoils = {} /\ k.under = {}
        /\ \A s \in Size : (s = "full" \/ WholeAt(k, s)) /\ (s = "over" \/ ReadAt(k, s))
    <3>1. Phy!Slot(FALSE, "some", "wrapped") \in Slots(Marks)
      BY SlotType DEF Phy!Slot, Slot, Size, Marks
    <3>2. CASE k = Phy!Timestamp
      BY <3>1, <3>2, PhyKinds DEF Phy!Timestamp, Phy!Narrowed, Phy!Reading, Phy!Size, Plain, Size,
         IsField, Clears, Agreeing, Expressed, Fits, WholeAt, ReadAt
    <3>3. CASE k = Phy!Optional(Phy!Timestamp)
      BY <3>1, <3>3, PhyKinds DEF Phy!Optional, Phy!Timestamp, Phy!Narrowed, Phy!Reading, Phy!Size,
         Plain, Size, IsField, Clears, Agreeing, Expressed, Fits, WholeAt, ReadAt
    <3> QED BY <1>4, <3>2, <3>3
  <2>2. /\ Sized("phy", msg, "timestamp", "timestamp", "full") \in Spoilt
        /\ Sized("phy", msg, "timestamp", "timestamp", "over") \in Overlooked
    <3>1. <<"phy", <<msg, "timestamp">>>> \in NarrowedFields
      BY <1>4 DEF NarrowedFields
    <3>2. <<"phy", <<msg, "timestamp">>>>
            \in Of("core", {"info_resp"} \X {"fw_author", "fw_url"}) \cup PhyTimestamps
      BY <1>4
    <3> QED BY <3>1, <3>2, WhenIn DEF Spoilt, Overlooked
  <2>3. Steady("phy", msg, "timestamp", k)
    BY <2>1, <2>2 DEF Steady
  <2> QED BY <1>4, <2>1, <2>2, <2>3 DEF FieldSound
<1>5. CASE msg = "send_raw"
  <2> DEFINE k == Phy!Failing(Phy!Packet, Phy!Size \ {"over"})
  <2>1. m.tag = msg /\ m.parser = FALSE /\ m.fields = [iq_stream |-> k]
    BY <1>5 DEF m, Phy!Table, Phy!SendRawIq, Phy!Unparsed, Phy!Message
  <2>2. IsField(k) /\ Whole(k) /\ Clears(k) /\ Fits(k)
    BY CallerType, PhyKinds DEF Phy!Failing, Phy!Size, Size, Refusing, Wide, Plain,
       IsField, Whole, Clears, Fits
  <2>3. <<"phy", msg>> \in HalfBuilt \cap Doubtful \cap Unheard
    BY <1>5 DEF HalfBuilt, Doubtful, Unheard, Of
  <2> HIDE DEF k
  <2>4. \A x : FieldSound("phy", msg, x, k)
    BY <2>2, <2>3, WholeSound DEF FieldSound
  <2> QED BY <2>1, <2>3, <2>4
<1>6. CASE msg = "supported_freq"
  <2>1. m.tag = msg /\ m.parser = FALSE /\ m.fields = [frequency_ranges |-> Phy!List]
    BY <1>6 DEF m, Phy!Table, Phy!SupportedFrequencies, Phy!Unparsed, Phy!Message
  <2>2. /\ IsField(Phy!List) /\ Clears(Phy!List) /\ ReadBack(Phy!List) /\ Agreeing(Phy!List)
        /\ Phy!List.fails = {} /\ Fits(Phy!List)
        /\ Phy!List.wraps = {"over"} /\ Phy!List.spoils = {} /\ Phy!List.under = {}
        /\ \A s \in Size : s = "over" \/ WholeAt(Phy!List, s)
    BY CallerType, PhyKinds DEF Phy!List, Phy!Size, Plain, Size, IsField, Clears, ReadBack,
       Agreeing, Fits, WholeAt
  <2>3. Sized("phy", msg, "frequency_ranges", "frequency_ranges", "over") \in Spoilt
    <3>1. <<"phy", <<msg, "frequency_ranges">>>>
            \in Of("core", {<<"info_resp", "capabilities">>})
               \cup Of("phy", {<<"supported_freq", "frequency_ranges">>})
      BY <1>6 DEF Of
    <3> QED BY <3>1, WhenIn DEF Spoilt
  <2>5. Steady("phy", msg, "frequency_ranges", Phy!List)
    BY <2>2, <2>3 DEF Steady
  <2>4. FieldSound("phy", msg, "frequency_ranges", Phy!List)
    BY <2>2, <2>3, <2>5, ReadSound DEF FieldSound
  <2> QED BY <2>1, <2>4
<1>7. CASE msg \in {"sched_send", "jammed"}
  <2>1. m.tag = msg /\ \A x \in DOMAIN m.fields :
          m.fields[x] \in {Phy!Plain, Phy!Packet} \/ (m.fields[x] = Phy!Timestamp /\ x = "timestamp")
    BY <1>7 DEF m, Phy!Table, Phy!SchedPacket, Phy!Jammed, Phy!Message
  <2>2. <<"phy", msg>> \notin Unheard /\ <<"phy", <<msg, "timestamp">>>> \in PhyTimestamps
    BY <1>7 DEF PhyTimestamps, Unheard, Of
  <2>3. FieldSound("phy", msg, "timestamp", Phy!Timestamp)
    BY <1>4, <2>2
  <2> QED BY <1>3, <2>1, <2>2, <2>3
<1>8. CASE msg = "packet"
  <2> DEFINE cut  == Phy!Cut(Phy!Wide)
             when == Phy!Optional(Phy!Timestamp)
             word == Phy!Unread(Phy!Bytes)
             rest == Phy!Unread(Phy!Plain)
             unread == {"syncword", "deviation", "datarate", "endian", "modulation"}
  <2>1. m.tag = msg /\ \A x \in DOMAIN m.fields :
          \/ m.fields[x] \in {Phy!Plain, cut}
          \/ m.fields[x] = when /\ x = "timestamp"
          \/ m.fields[x] \in {word, rest} /\ x \in unread
    <3>1. /\ m.tag = msg
          /\ m.fields = [frequency |-> Phy!Plain, timestamp |-> when, rssi |-> Phy!Plain,
                         packet |-> cut, syncword |-> word, deviation |-> rest,
                         datarate |-> rest, endian |-> rest, modulation |-> rest]
      BY <1>8 DEF m, Phy!Table, Phy!PacketReceived, Phy!Message
    <3> HIDE DEF cut, when, word, rest
    <3> QED BY <3>1
  <2>2. /\ IsField(cut) /\ Whole(cut) /\ Clears(cut) /\ ReadBack(cut) /\ Agreeing(cut)
        /\ cut.fails = {} /\ Fits(cut)
    BY CallerType, PhyKinds DEF Phy!Cut, Wide, Plain, Size, IsField, Whole, Clears, ReadBack,
       Agreeing, Fits
  <2>3. ASSUME NEW k \in {word, rest}
        PROVE  /\ IsField(k) /\ Whole(k) /\ Clears(k) /\ Agreeing(k) /\ Fits(k)
               /\ k.fails = {}
    <3>1. CASE k = word
      BY <3>1, CallerType, PhyKinds DEF Phy!Unread, Phy!Reading, Phy!Size, Bytes, Plain, Size,
         IsField, Whole, Clears, Agreeing, Fits
    <3>2. CASE k = rest
      BY <3>2, CallerType, SomeSize, PhyKinds DEF Phy!Unread, Phy!Reading, Phy!Size, Plain, Size,
         IsField, Whole, Clears, Agreeing, Fits
    <3> QED BY <2>3, <3>1, <3>2
  <2>4. /\ <<"phy", msg>> \notin Unheard /\ <<"phy", <<msg, "timestamp">>>> \in PhyTimestamps
        /\ \A x \in unread : <<"phy", <<msg, x>>>> \in Misread
    BY <1>8 DEF Unheard, PhyTimestamps, Misread, Of
  <2>5. FieldSound("phy", msg, "timestamp", when)
    BY <1>4, <2>4
  <2> HIDE DEF cut, when, word, rest, unread
  <2>6. \A x : FieldSound("phy", msg, x, cut)
    BY <2>2, <2>4, WholeSound, ReadSound DEF FieldSound
  <2>7. \A x \in unread : FieldSound("phy", msg, x, word) /\ FieldSound("phy", msg, x, rest)
    BY <2>3, <2>4, WholeSound DEF FieldSound
  <2> QED BY <1>3, <2>1, <2>4, <2>5, <2>6, <2>7
<1>9. CASE msg = "sched_pkt_rsp"
  <2>1. m.tag = msg /\ \A x \in DOMAIN m.fields : \/ m.fields[x] = Narrowed(Plain) /\ x = "id"
                                                  \/ m.fields[x] = Optional(Plain)
    <3>1. m.tag = msg /\ m.fields = [id |-> Phy!Narrowed(Phy!Plain), full |-> Phy!Optional(Phy!Plain)]
      BY <1>9 DEF m, Phy!Table, Phy!PacketScheduled, Phy!Message
    <3>2. Phy!Narrowed(Phy!Plain) = Narrowed(Plain) /\ Phy!Optional(Phy!Plain) = Optional(Plain)
      BY PhyKinds DEF Phy!Narrowed, Phy!Reading, Phy!Slot, Phy!Size, Phy!Optional,
         Narrowed, Reading, Slot, Size, Optional
    <3> QED BY <3>1, <3>2
  <2>2. <<"phy", msg>> \notin Unheard /\ <<"phy", <<msg, "id">>>> \in NarrowedFields
    BY <1>9 DEF Unheard, NarrowedFields, Of
  <2>3. FieldSound("phy", msg, "id", Narrowed(Plain))
    BY <2>2, NarrowSound
  <2>4. \A x : FieldSound("phy", msg, x, Optional(Plain))
    BY OptionalRegular, RegularSound
  <2> QED BY <2>1, <2>2, <2>3, <2>4
<1> QED
  BY <1>5, <1>6, <1>7, <1>8, <1>9 DEF PhyIrregular

\* Every message of the PHY domain is sound.
LEMMA PhySchemas ==
  /\ "none" \notin DOMAIN Phy!Table
  /\ \A msg \in DOMAIN Phy!Table : SchemaSound("phy", Phy!Table, msg)
<1>1. /\ DOMAIN Phy!Table = PhyRegular \cup PhyIrregular
      /\ "none" \notin PhyRegular \cup PhyIrregular
  BY DEF Phy!Table, PhyRegular, PhyIrregular
<1> QED BY <1>1, PhyRegulars, PhyIrregulars

\* IEEE 802.15.4.
LEMMA DotKinds ==
  /\ Dot15d4!Plain = Plain /\ Dot15d4!Bytes = Bytes
  /\ Dot15d4!Optional(Dot15d4!Plain) = Optional(Plain)
  /\ \A k : Dot15d4!Narrowed(k) = Narrowed(k)
<1>1. Dot15d4!Plain = Plain
  BY DEF Dot15d4!Plain, Dot15d4!Caller, Dot15d4!Slot, Dot15d4!Parts, Dot15d4!Size,
         Plain, Caller, Slot, Parts, Size
<1>2. Dot15d4!Bytes = Bytes /\ Dot15d4!Optional(Dot15d4!Plain) = Optional(Plain)
  BY <1>1 DEF Dot15d4!Bytes, Dot15d4!Optional, Dot15d4!Size, Bytes, Optional, Size
<1>3. ASSUME NEW k
      PROVE  Dot15d4!Narrowed(k) = Narrowed(k)
  BY DEF Dot15d4!Narrowed, Dot15d4!Reading, Dot15d4!Slot, Dot15d4!Size, Narrowed, Reading, Slot,
     Size
<1> QED BY <1>1, <1>2, <1>3

DotRegular ==
  {"sniff", "jam", "ed", "end_device", "router", "coordinator", "mitm"}
  \cup {"start", "stop"}
DotIrregular == {"set_node_addr", "send", "send_raw", "pdu", "jammed", "ed_sample", "raw_pdu"}

\* The fields of what is received in the 802.15.4 domain lose nothing, but for the
\* timestamp.
LEMMA DotReceived ==
  /\ DOMAIN Dot15d4!Received = {"channel", "packet", "rssi", "timestamp", "fcs_validity"}
  /\ \A x \in DOMAIN Dot15d4!Received :
       \/ Dot15d4!Received[x] \in {Dot15d4!Plain, Dot15d4!Bytes, Dot15d4!Optional(Dot15d4!Plain)}
       \/ Dot15d4!Received[x] = Narrowed(Optional(Plain)) /\ x = "timestamp"
<1> DEFINE narrow == Dot15d4!Narrowed(Dot15d4!Optional(Dot15d4!Plain))
<1>1. narrow = Narrowed(Optional(Plain))
  BY DotKinds
<1>2. Dot15d4!Received =
        [channel |-> Dot15d4!Plain, packet |-> Dot15d4!Bytes,
         rssi |-> Dot15d4!Optional(Dot15d4!Plain), timestamp |-> narrow,
         fcs_validity |-> Dot15d4!Optional(Dot15d4!Plain)]
  BY DEF Dot15d4!Received
<1> HIDE DEF narrow
<1> QED BY <1>1, <1>2

\* The regular messages of the 802.15.4 domain.
LEMMA DotRegulars ==
  ASSUME NEW msg \in DotRegular
  PROVE  SchemaSound("dot15d4", Dot15d4!Table, msg)
<1> DEFINE m == Dot15d4!Table[msg]
           Good == /\ m.tag = msg
                   /\ \A x \in DOMAIN m.fields :
                        m.fields[x] \in {Dot15d4!Plain, Dot15d4!Bytes, Dot15d4!Optional(Dot15d4!Plain)}
<1> HIDE DEF Good
<1>1. ASSUME msg \in {"sniff", "jam", "ed", "end_device", "router", "coordinator", "mitm"}
      PROVE  Good
  BY <1>1 DEF Good, Dot15d4!Table, Dot15d4!Message, Dot15d4!Sniff, Dot15d4!Jam,
              Dot15d4!EnergyDetect, Dot15d4!EndDevice, Dot15d4!Router, Dot15d4!Coordinator,
              Dot15d4!Mitm
<1>2. ASSUME msg \in {"start", "stop"}
      PROVE  Good
  BY <1>2 DEF Good, Dot15d4!Table, Dot15d4!Message, Dot15d4!Command, Dot15d4!Start,
              Dot15d4!Stop
<1>4. Good /\ msg \in DOMAIN Dot15d4!Table
  BY <1>1, <1>2 DEF DotRegular, Dot15d4!Table
<1>5. <<"dot15d4", msg>> \notin Unheard
  BY DEF Unheard, Of
<1> HIDE DEF m
<1>6. \A x \in DOMAIN m.fields : Regular(m.fields[x]) /\ m.fields[x].fails = {}
  BY <1>4, DotKinds, PlainRegular, BytesRegular, OptionalRegular DEF Good
<1> QED BY <1>4, <1>5, <1>6, RegularSchema DEF Good, m

\* The messages of the 802.15.4 domain that lose something.
LEMMA DotIrregulars ==
  ASSUME NEW msg \in DotIrregular
  PROVE  SchemaSound("dot15d4", Dot15d4!Table, msg)
<1> DEFINE m == Dot15d4!Table[msg]
<1>1. msg \in DOMAIN Dot15d4!Table /\ "send" \in DOMAIN Dot15d4!Table
  BY DEF Dot15d4!Table, DotIrregular
<1>2. <<"dot15d4", msg>> \notin Unheard
  BY DEF Unheard, Of
<1>3. ASSUME NEW x,
             NEW k \in {Dot15d4!Plain, Dot15d4!Bytes, Dot15d4!Optional(Dot15d4!Plain)}
      PROVE  FieldSound("dot15d4", msg, x, k)
  BY <1>3, DotKinds, PlainRegular, BytesRegular, OptionalRegular, RegularSound
<1>7. ASSUME msg \in {"jammed", "ed_sample", "raw_pdu", "pdu"},
             NEW k \in {Narrowed(Plain), Narrowed(Optional(Plain))}
      PROVE  FieldSound("dot15d4", msg, "timestamp", k)
  <2>1. <<"dot15d4", <<msg, "timestamp">>>> \in NarrowedFields
    BY <1>7 DEF NarrowedFields, Of
  <2> QED BY <1>7, <2>1, NarrowSound
<1>4. CASE msg = "set_node_addr"
  <2> DEFINE k == Dot15d4!Refusing(Dot15d4!Plain, Dot15d4!Size)
  <2>1. m.tag = msg /\ \A x \in DOMAIN m.fields : m.fields[x] \in {Dot15d4!Plain, k}
    BY <1>4 DEF Dot15d4!Table, Dot15d4!SetNodeAddress, Dot15d4!Message
  <2>2. IsField(k) /\ Whole(k) /\ Clears(k) /\ ReadBack(k) /\ Fits(k) /\ k.fails = {}
    BY CallerType, SomeSize, DotKinds
       DEF Dot15d4!Refusing, Plain, IsField, Whole, Clears, ReadBack, Fits
  <2>3. <<"dot15d4", msg>> \in Lenient
    BY <1>4 DEF Lenient, Of
  <2> HIDE DEF k, m
  <2>4. \A x : FieldSound("dot15d4", msg, x, k)
    BY <2>2, <2>3, WholeSound, ReadSound DEF FieldSound
  <2> QED BY <1>1, <1>2, <1>3, <2>1, <2>4, OwnSchema DEF m
<1>5. CASE msg \in {"send", "send_raw"}
  <2> DEFINE k == Dot15d4!Rejecting(Dot15d4!Failing(Dot15d4!Wide, {"over"}), {"over"})
  <2>1. DOMAIN Dot15d4!Packet = {"channel", "packet"}
        /\ Dot15d4!Packet["channel"] = Dot15d4!Plain /\ Dot15d4!Packet["packet"] = k
    BY DEF Dot15d4!Packet
  <2>2. /\ m.tag = "send" /\ Dot15d4!Table["send"].fields = Dot15d4!Packet
        /\ m.checked = FALSE
        /\ m.fields = IF msg = "send" THEN Dot15d4!Packet
                      ELSE Dot15d4!Also(Dot15d4!Packet, [fcs |-> Dot15d4!Plain])
    BY <1>5 DEF Dot15d4!Table, Dot15d4!Send, Dot15d4!SendRaw, Dot15d4!Early, Dot15d4!Message
  <2>3. Regular(k) /\ k.fails = {"over"}
    BY CallerType, DotKinds DEF Dot15d4!Rejecting, Dot15d4!Failing, Dot15d4!Wide, Dot15d4!Size,
       Size, Plain, Regular, IsField, Whole, Clears, ReadBack, Agreeing, Fits
  <2>4. <<"dot15d4", msg>> \in HalfBuilt /\ "packet" \in Contained
        /\ (msg # "send" => /\ <<"dot15d4", msg>> \in Renamed
                           /\ <<"dot15d4", <<msg, "fcs">>>> \in Dropped)
    BY <1>5 DEF HalfBuilt, Renamed, Contained, Dropped, Of
  <2> HIDE DEF k, m
  <2>5. FieldSound("dot15d4", msg, "packet", k)
    BY <2>3, <2>4, WholeSound, ReadSound DEF FieldSound, Regular
  <2>6. /\ DOMAIN Dot15d4!Packet \subseteq DOMAIN m.fields
        /\ \A x \in DOMAIN Dot15d4!Packet : Dot15d4!Packet[x] = m.fields[x]
        /\ \A x \in DOMAIN m.fields : x \in DOMAIN Dot15d4!Packet \/ (msg # "send" /\ x = "fcs")
        /\ \A x \in DOMAIN m.fields : m.fields[x] = Dot15d4!Plain \/ (m.fields[x] = k /\ x = "packet")
    BY <2>1, <2>2 DEF Dot15d4!Also
  <2> QED BY <1>1, <1>2, <1>3, <2>2, <2>4, <2>5, <2>6 DEF SchemaSound, m
<1>6. CASE msg = "pdu"
  <2> DEFINE k == [Dot15d4!Optional(Dot15d4!Plain) EXCEPT !.strays = TRUE]
  <2>1. m.tag = msg /\ m.fields = Dot15d4!Also(Dot15d4!Received, [lqi |-> k])
    BY <1>6 DEF Dot15d4!Table, Dot15d4!PduReceived, Dot15d4!Message
  <2>2. /\ IsField(k) /\ Whole(k) /\ Clears(k) /\ Agreeing(k) /\ Fits(k) /\ k.fails = {}
    <3>1. k = [Optional(Plain) EXCEPT !.strays = TRUE]
      BY DotKinds
    <3> HIDE DEF k
    <3> QED BY <3>1, CallerType, SomeSize
            DEF Optional, Plain, IsField, Whole, Clears, Agreeing, Fits
  <2>3. <<"dot15d4", <<msg, "lqi">>>> \in Misread
    BY <1>6 DEF Misread, Of
  <2> HIDE DEF k, m
  <2>4. FieldSound("dot15d4", msg, "lqi", k)
    BY <2>2, <2>3, WholeSound DEF FieldSound
  <2>5. \A x \in DOMAIN m.fields :
          \/ m.fields[x] \in {Dot15d4!Plain, Dot15d4!Bytes, Dot15d4!Optional(Dot15d4!Plain)}
          \/ m.fields[x] = Narrowed(Optional(Plain)) /\ x = "timestamp"
          \/ m.fields[x] = k /\ x = "lqi"
    BY <2>1, DotReceived DEF Dot15d4!Also
  <2> QED BY <1>1, <1>2, <1>3, <1>6, <1>7, <2>1, <2>4, <2>5, OwnSchema DEF m
<1>8. CASE msg = "raw_pdu"
  <2> DEFINE more == [fcs |-> Dot15d4!Plain, lqi |-> Dot15d4!Optional(Dot15d4!Plain)]
  <2>1. m.tag = msg /\ m.fields = Dot15d4!Also(Dot15d4!Received, more)
    BY <1>8 DEF Dot15d4!Table, Dot15d4!RawPduReceived, Dot15d4!Message
  <2>2. DOMAIN more = {"fcs", "lqi"} /\ \A x \in DOMAIN more :
          more[x] \in {Dot15d4!Plain, Dot15d4!Bytes, Dot15d4!Optional(Dot15d4!Plain)}
    OBVIOUS
  <2> HIDE DEF more, m
  <2>3. \A x \in DOMAIN m.fields :
          \/ m.fields[x] \in {Dot15d4!Plain, Dot15d4!Bytes, Dot15d4!Optional(Dot15d4!Plain)}
          \/ m.fields[x] = Narrowed(Optional(Plain)) /\ x = "timestamp"
    BY <2>1, <2>2, DotReceived DEF Dot15d4!Also
  <2> QED BY <1>1, <1>2, <1>3, <1>7, <1>8, <2>1, <2>3, OwnSchema DEF m
<1>9. CASE msg \in {"jammed", "ed_sample"}
  <2> DEFINE narrow == Dot15d4!Narrowed(Dot15d4!Plain)
  <2>1. m.tag = msg /\ \A x \in DOMAIN m.fields :
          m.fields[x] = Dot15d4!Plain \/ (m.fields[x] = narrow /\ x = "timestamp")
    <3>1. CASE msg = "jammed"
      BY <3>1 DEF Dot15d4!Table, Dot15d4!Jammed, Dot15d4!Message
    <3>2. CASE msg = "ed_sample"
      <4>1. m.tag = msg /\ m.fields = [timestamp |-> narrow, sample |-> Dot15d4!Plain]
        BY <3>2 DEF Dot15d4!Table, Dot15d4!EnergyDetectSample, Dot15d4!Message
      <4> HIDE DEF narrow
      <4> QED BY <4>1
    <3> QED BY <1>9, <3>1, <3>2
  <2>2. narrow = Narrowed(Plain)
    BY DotKinds
  <2> HIDE DEF m, narrow
  <2> QED BY <1>1, <1>2, <1>3, <1>7, <1>9, <2>1, <2>2, OwnSchema DEF m
<1> QED BY <1>4, <1>5, <1>6, <1>8, <1>9 DEF DotIrregular

\* Every message of the 802.15.4 domain is sound.
LEMMA DotSchemas ==
  /\ "none" \notin DOMAIN Dot15d4!Table
  /\ \A msg \in DOMAIN Dot15d4!Table : SchemaSound("dot15d4", Dot15d4!Table, msg)
<1>1. /\ DOMAIN Dot15d4!Table = DotRegular \cup DotIrregular
      /\ "none" \notin DotRegular \cup DotIrregular
  BY DEF Dot15d4!Table, DotRegular, DotIrregular
<1> QED BY <1>1, DotRegulars, DotIrregulars

\* An address whose size is checked before the tag is written, and after.
LEMMA CheckedAddress ==
  LET k == Refusing(Rejecting(Wide, {"over"}), {"over"}) IN Regular(k) /\ k.fails = {}
BY CallerType DEF Refusing, Rejecting, Wide, Plain, Regular, IsField, Whole, Clears, ReadBack,
   Agreeing, Fits

\* An address that is checked once the tag is written.
LEMMA LateAddress ==
  LET k == Failing(Rejecting(Wide, {"over"}), {"over"})
  IN  k.fails = {"over"} /\ Regular(Optional(k)) /\ Optional(k).fails = {"over"}
BY CallerType DEF Optional, Failing, Rejecting, Wide, Plain, Regular, IsField, Whole, Clears,
   ReadBack, Agreeing, Fits

\* Enhanced ShockBurst.
LEMMA EsbKinds ==
  /\ Esb!Plain = Plain /\ Esb!Bytes = Bytes
  /\ Esb!Address = Rejecting(Wide, {"over"})
  /\ Esb!Optional(Esb!Plain) = Optional(Plain) /\ \A k : Esb!Narrowed(k) = Narrowed(k)
<1>1. Esb!Plain = Plain
  BY DEF Esb!Plain, Esb!Caller, Esb!Slot, Esb!Parts, Esb!Size, Plain, Caller, Slot, Parts, Size
<1>2. Esb!Bytes = Bytes /\ Esb!Wide = Wide
  BY <1>1 DEF Esb!Bytes, Esb!Wide, Esb!Size, Bytes, Wide, Size
<1>3. Esb!Optional(Esb!Plain) = Optional(Plain)
  BY <1>1 DEF Esb!Optional, Optional
<1>4. ASSUME NEW k
      PROVE  Esb!Narrowed(k) = Narrowed(k)
  BY DEF Esb!Narrowed, Esb!Reading, Esb!Slot, Esb!Size, Narrowed, Reading, Slot, Size
<1> QED BY <1>1, <1>2, <1>3, <1>4 DEF Esb!Address, Esb!Rejecting, Rejecting

EsbRegular == {"sniff", "jam", "send", "send_raw", "prx", "ptx", "start", "stop"}

\* The regular messages of the ESB domain.
LEMMA EsbRegulars ==
  ASSUME NEW msg \in EsbRegular
  PROVE  SchemaSound("esb", Esb!Table, msg)
<1> DEFINE m == Esb!Table[msg]
           sniffed == Esb!Refusing(Esb!Address, {"over"})
           Good == m.tag = msg /\ \A x \in DOMAIN m.fields :
                                  m.fields[x] \in {Esb!Plain, Esb!Bytes, sniffed}
<1> HIDE DEF Good
<1>1. ASSUME msg \in {"sniff", "jam", "send", "send_raw", "prx"}
      PROVE  Good
  BY <1>1 DEF Good, Esb!Table, Esb!Message, Esb!Tested, Esb!Sniff, Esb!Jam,
     Esb!Packet, Esb!Send, Esb!SendRaw, Esb!Prx
<1>2. ASSUME msg \in {"ptx", "start", "stop"}
      PROVE  Good
  BY <1>2 DEF Good, Esb!Table, Esb!Message, Esb!Command, Esb!Ptx, Esb!Start,
     Esb!Stop
<1>3. Good /\ msg \in DOMAIN Esb!Table
  BY <1>1, <1>2 DEF EsbRegular, Esb!Table
<1>4. <<"esb", msg>> \notin Unheard
  BY DEF Unheard, Of
<1>5. sniffed = Refusing(Rejecting(Wide, {"over"}), {"over"})
  BY EsbKinds DEF Esb!Refusing, Refusing
<1> HIDE DEF m, sniffed
<1>6. \A x \in DOMAIN m.fields : Regular(m.fields[x]) /\ m.fields[x].fails = {}
  BY <1>3, <1>5, EsbKinds, PlainRegular, BytesRegular, CheckedAddress DEF Good
<1> QED BY <1>3, <1>4, <1>6, RegularSchema DEF Good, m

\* The messages of the ESB domain that lose something or fail once the tag is written.
LEMMA EsbIrregulars ==
  ASSUME NEW msg \in {"set_node_addr", "raw_pdu", "pdu", "jammed"}
  PROVE  SchemaSound("esb", Esb!Table, msg)
<1> DEFINE m == Esb!Table[msg]
           late == Esb!Failing(Esb!Address, {"over"})
           kinds == {Esb!Plain, Esb!Bytes, Esb!Optional(Esb!Plain)}
           narrow == {Narrowed(Plain), Narrowed(Optional(Plain))}
<1>1. msg \in DOMAIN Esb!Table
  BY DEF Esb!Table
<1>2. ASSUME NEW x, NEW k \in kinds
      PROVE  FieldSound("esb", msg, x, k)
  BY <1>2, EsbKinds, PlainRegular, BytesRegular, OptionalRegular, RegularSound
<1>3. m.tag = msg /\ \A x \in DOMAIN m.fields :
        \/ m.fields[x] \in kinds
        \/ m.fields[x] \in {late, Esb!Optional(late)} /\ x = "address" /\ msg # "jammed"
        \/ m.fields[x] \in narrow /\ x = "timestamp" /\ msg # "set_node_addr"
  <2>1. CASE msg = "set_node_addr"
    BY <2>1 DEF Esb!Table, Esb!SetNodeAddress, Esb!Tested, Esb!Message
  <2>2. CASE msg \in {"raw_pdu", "pdu"}
    <3>1. m.tag = msg /\ m.fields = Esb!Received
      BY <2>2 DEF Esb!Table, Esb!RawPduReceived, Esb!PduReceived, Esb!Early, Esb!Message
    <3>2. Esb!Received =
            [channel |-> Esb!Plain, packet |-> Esb!Bytes, rssi |-> Esb!Optional(Esb!Plain),
             timestamp |-> Narrowed(Optional(Plain)), crc_validity |-> Esb!Optional(Esb!Plain),
             address |-> Esb!Optional(late)]
      BY EsbKinds DEF Esb!Received
    <3> HIDE DEF m, late
    <3> QED BY <2>2, <3>1, <3>2
  <2>3. CASE msg = "jammed"
    <3>1. m.tag = msg /\ m.fields = [timestamp |-> Narrowed(Plain)]
      BY <2>3, EsbKinds DEF Esb!Table, Esb!Jammed, Esb!Message
    <3> HIDE DEF m
    <3> QED BY <2>3, <3>1
  <2> QED BY <2>1, <2>2, <2>3
<1>4. late = Failing(Rejecting(Wide, {"over"}), {"over"}) /\ Esb!Optional(late) = Optional(late)
  BY EsbKinds DEF Esb!Failing, Failing, Esb!Optional, Optional
<1>5. /\ <<"esb", msg>> \notin Unheard /\ "address" \in Contained
      /\ msg # "jammed" => <<"esb", msg>> \in HalfBuilt
  BY DEF HalfBuilt, Unheard, Contained, Of
<1>7. ASSUME NEW k \in narrow, msg # "set_node_addr"
      PROVE  FieldSound("esb", msg, "timestamp", k)
  <2>1. <<"esb", <<msg, "timestamp">>>> \in NarrowedFields
    BY <1>7 DEF NarrowedFields
  <2> QED BY <1>7, <2>1, NarrowSound
<1> HIDE DEF m, late, kinds, narrow
<1>6. ASSUME msg # "jammed"
      PROVE  FieldSound("esb", msg, "address", late) /\ FieldSound("esb", msg, "address", Esb!Optional(late))
  BY <1>4, <1>5, <1>6, AddrRegular, LateAddress, WholeSound, ReadSound DEF FieldSound, Regular
<1> QED BY <1>1, <1>2, <1>3, <1>5, <1>6, <1>7, OwnSchema DEF m

\* Every message of the ESB domain is sound.
LEMMA EsbSchemas ==
  /\ "none" \notin DOMAIN Esb!Table
  /\ \A msg \in DOMAIN Esb!Table : SchemaSound("esb", Esb!Table, msg)
<1>1. /\ DOMAIN Esb!Table = EsbRegular \cup {"set_node_addr", "raw_pdu", "pdu", "jammed"}
      /\ "none" \notin EsbRegular
  BY DEF Esb!Table, EsbRegular
<1> QED BY <1>1, EsbRegulars, EsbIrregulars

\* Logitech Unifying.
LEMMA UnifyingKinds ==
  /\ Unifying!Plain = Plain /\ Unifying!Bytes = Bytes
  /\ Unifying!Address = Rejecting(Wide, {"over"})
  /\ Unifying!Optional(Unifying!Plain) = Optional(Plain) /\ \A k : Unifying!Narrowed(k) = Narrowed(k)
<1>1. Unifying!Plain = Plain
  BY DEF Unifying!Plain, Unifying!Caller, Unifying!Slot, Unifying!Parts, Unifying!Size, Plain,
     Caller, Slot, Parts, Size
<1>2. Unifying!Bytes = Bytes /\ Unifying!Wide = Wide
  BY <1>1 DEF Unifying!Bytes, Unifying!Wide, Unifying!Size, Bytes, Wide, Size
<1>3. Unifying!Optional(Unifying!Plain) = Optional(Plain)
  BY <1>1 DEF Unifying!Optional, Optional
<1>4. ASSUME NEW k
      PROVE  Unifying!Narrowed(k) = Narrowed(k)
  BY DEF Unifying!Narrowed, Unifying!Reading, Unifying!Slot, Unifying!Size, Narrowed, Reading, Slot, Size
<1> QED BY <1>1, <1>2, <1>3, <1>4 DEF Unifying!Address, Unifying!Rejecting, Rejecting

UnifyingRegular == 
  {"sniff", "jam", "send", "send_raw", "dongle", "keyboard", "mouse"}
  \cup {"start", "stop", "sniff_pairing"}

\* The regular messages of the Unifying domain.
LEMMA UnifyingRegulars ==
  ASSUME NEW msg \in UnifyingRegular
  PROVE  SchemaSound("unifying", Unifying!Table, msg)
<1> DEFINE m == Unifying!Table[msg]
           sniffed == Unifying!Refusing(Unifying!Address, {"over"})
           Good == m.tag = msg /\ \A x \in DOMAIN m.fields :
                                  m.fields[x] \in {Unifying!Plain, Unifying!Bytes, sniffed}
<1> HIDE DEF Good
<1>1. ASSUME msg \in {"sniff", "jam", "send", "send_raw", "dongle"}
      PROVE  Good
  BY <1>1 DEF Good, Unifying!Table, Unifying!Message, Unifying!Sniff, Unifying!Jam,
     Unifying!Packet, Unifying!Send, Unifying!SendRaw, Unifying!Dongle
<1>2. ASSUME msg \in {"keyboard", "mouse", "start", "stop", "sniff_pairing"}
      PROVE  Good
  BY <1>2 DEF Good, Unifying!Table, Unifying!Message, Unifying!Command,
     Unifying!Keyboard, Unifying!Mouse, Unifying!Start, Unifying!Stop, Unifying!SniffPairing
<1>3. Good /\ msg \in DOMAIN Unifying!Table
  BY <1>1, <1>2 DEF UnifyingRegular, Unifying!Table
<1>4. <<"unifying", msg>> \notin Unheard
  BY DEF Unheard, Of
<1>5. sniffed = Refusing(Rejecting(Wide, {"over"}), {"over"})
  BY UnifyingKinds DEF Unifying!Refusing, Refusing
<1> HIDE DEF m, sniffed
<1>6. \A x \in DOMAIN m.fields : Regular(m.fields[x]) /\ m.fields[x].fails = {}
  BY <1>3, <1>5, UnifyingKinds, PlainRegular, BytesRegular, CheckedAddress DEF Good
<1> QED BY <1>3, <1>4, <1>6, RegularSchema DEF Good, m

\* The messages of the Unifying domain that lose something or fail once the tag is written.
LEMMA UnifyingIrregulars ==
  ASSUME NEW msg \in {"set_node_addr", "raw_pdu", "pdu", "jammed"}
  PROVE  SchemaSound("unifying", Unifying!Table, msg)
<1> DEFINE m == Unifying!Table[msg]
           late == Unifying!Failing(Unifying!Address, {"over"})
           kinds == {Unifying!Plain, Unifying!Bytes, Unifying!Optional(Unifying!Plain)}
           narrow == {Narrowed(Plain), Narrowed(Optional(Plain))}
<1>1. msg \in DOMAIN Unifying!Table
  BY DEF Unifying!Table
<1>2. ASSUME NEW x, NEW k \in kinds
      PROVE  FieldSound("unifying", msg, x, k)
  BY <1>2, UnifyingKinds, PlainRegular, BytesRegular, OptionalRegular, RegularSound
<1>3. m.tag = msg /\ \A x \in DOMAIN m.fields :
        \/ m.fields[x] \in kinds
        \/ m.fields[x] \in {late, Unifying!Optional(late)} /\ x = "address" /\ msg # "jammed"
        \/ m.fields[x] \in narrow /\ x = "timestamp" /\ msg # "set_node_addr"
  <2>1. CASE msg = "set_node_addr"
    BY <2>1 DEF Unifying!Table, Unifying!SetNodeAddress, Unifying!Tested, Unifying!Message
  <2>2. CASE msg \in {"raw_pdu", "pdu"}
    <3>1. m.tag = msg /\ m.fields = Unifying!Received
      BY <2>2 DEF Unifying!Table, Unifying!RawPduReceived, Unifying!PduReceived, Unifying!Early, Unifying!Message
    <3>2. Unifying!Received =
            [channel |-> Unifying!Plain, packet |-> Unifying!Bytes, rssi |-> Unifying!Optional(Unifying!Plain),
             timestamp |-> Narrowed(Optional(Plain)), crc_validity |-> Unifying!Optional(Unifying!Plain),
             address |-> Unifying!Optional(late)]
      BY UnifyingKinds DEF Unifying!Received
    <3> HIDE DEF m, late
    <3> QED BY <2>2, <3>1, <3>2
  <2>3. CASE msg = "jammed"
    <3>1. m.tag = msg /\ m.fields = [timestamp |-> Narrowed(Plain)]
      BY <2>3, UnifyingKinds DEF Unifying!Table, Unifying!Jammed, Unifying!Message
    <3> HIDE DEF m
    <3> QED BY <2>3, <3>1
  <2> QED BY <2>1, <2>2, <2>3
<1>4. late = Failing(Rejecting(Wide, {"over"}), {"over"}) /\ Unifying!Optional(late) = Optional(late)
  BY UnifyingKinds DEF Unifying!Failing, Failing, Unifying!Optional, Optional
<1>5. /\ <<"unifying", msg>> \notin Unheard /\ "address" \in Contained
      /\ msg # "jammed" => <<"unifying", msg>> \in HalfBuilt
  BY DEF HalfBuilt, Unheard, Contained, Of
<1>7. ASSUME NEW k \in narrow, msg # "set_node_addr"
      PROVE  FieldSound("unifying", msg, "timestamp", k)
  <2>1. <<"unifying", <<msg, "timestamp">>>> \in NarrowedFields
    BY <1>7 DEF NarrowedFields
  <2> QED BY <1>7, <2>1, NarrowSound
<1> HIDE DEF m, late, kinds, narrow
<1>6. ASSUME msg # "jammed"
      PROVE  /\ FieldSound("unifying", msg, "address", late)
      /\ FieldSound("unifying", msg, "address", Unifying!Optional(late))
  BY <1>4, <1>5, <1>6, AddrRegular, LateAddress, WholeSound, ReadSound DEF FieldSound, Regular
<1> QED BY <1>1, <1>2, <1>3, <1>5, <1>6, <1>7, OwnSchema DEF m

\* Every message of the Unifying domain is sound.
LEMMA UnifyingSchemas ==
  /\ "none" \notin DOMAIN Unifying!Table
  /\ \A msg \in DOMAIN Unifying!Table : SchemaSound("unifying", Unifying!Table, msg)
<1>1. /\ DOMAIN Unifying!Table = UnifyingRegular \cup {"set_node_addr", "raw_pdu", "pdu", "jammed"}
      /\ "none" \notin UnifyingRegular
  BY DEF Unifying!Table, UnifyingRegular
<1> QED BY <1>1, UnifyingRegulars, UnifyingIrregulars

\* The board. Every kind of field it has is regular; "unless" only says when
\* the field is looked at.
BoardKinds ==
  {Board!Plain, Board!ValidEnum, Board!ValidString, Board!ValidSize, Board!ValidSpan}
  \cup {Board!Optional(Board!ValidEnum), Board!Optional(Board!ValidString),
        [Board!ValidEnum EXCEPT !.unless = "lease"]}

\* The kinds of field of the board domain lose nothing.
LEMMA BoardKindsRegular ==
  \A k \in BoardKinds : Regular(k) /\ k.fails = {}
<1>1. Board!Plain = Plain
  BY DEF Board!Plain, Board!Caller, Board!Slot, Board!Parts, Board!Size,
         Plain, Caller, Slot, Parts, Size
<1> DEFINE checked(b) == [Plain EXCEPT !.lens = {"some", "over"}, !.bounded = b, !.refuses = {"over"},
                                          !.rejects = {"over"}]
           sized == [Plain EXCEPT !.lens = Size, !.refuses = {"over"}, !.rejects = {"over"}]
<1>2. /\ Board!ValidEnum = checked(FALSE)
      /\ Board!ValidSpan = checked(FALSE)
      /\ Board!ValidString = checked(TRUE)
      /\ Board!ValidSize = sized
  <2>1. Board!Ranged = [Plain EXCEPT !.lens = {"some", "over"}, !.bounded = FALSE]
    BY <1>1 DEF Board!Ranged
  <2>2. Board!Wide = [Plain EXCEPT !.lens = Size]
    BY <1>1 DEF Board!Wide, Board!Size, Size
  <2>3. \A k : Board!Checked(k) = [k EXCEPT !.refuses = {"over"}, !.rejects = {"over"}]
    BY DEF Board!Checked, Board!Rejecting, Board!Refusing
  <2>4. Board!ValidEnum = checked(FALSE)
    BY <2>1, <2>3 DEF Board!ValidEnum, Plain
  <2>5. Board!ValidSpan = checked(FALSE)
    BY <2>1, <2>3 DEF Board!ValidSpan, Plain
  <2>6. Board!ValidString = checked(TRUE)
    BY <2>1, <2>3 DEF Board!ValidString, Plain
  <2>7. Board!ValidSize = sized
    BY <2>2, <2>3 DEF Board!ValidSize, Plain
  <2> QED BY <2>4, <2>5, <2>6, <2>7
<1>3. ASSUME NEW b \in BOOLEAN
      PROVE  /\ Regular(checked(b)) /\ checked(b).fails = {}
             /\ Regular(Board!Optional(checked(b))) /\ Board!Optional(checked(b)).fails = {}
             /\ Regular([checked(b) EXCEPT !.unless = "lease"])
             /\ [checked(b) EXCEPT !.unless = "lease"].fails = {}
  <2>1. {"some", "over"} \subseteq Size
    BY DEF Size
  <2>2. Regular(checked(b)) /\ checked(b).fails = {}
    BY <2>1, CallerType DEF Plain, Regular, IsField, Whole, Clears, ReadBack, Agreeing, Fits
  <2>3. Regular(Board!Optional(checked(b))) /\ Board!Optional(checked(b)).fails = {}
    BY <2>1, CallerType
       DEF Board!Optional, Plain, Regular, IsField, Whole, Clears, ReadBack, Agreeing, Fits
  <2>4. /\ Regular([checked(b) EXCEPT !.unless = "lease"])
        /\ [checked(b) EXCEPT !.unless = "lease"].fails = {}
    BY <2>1, CallerType DEF Plain, Regular, IsField, Whole, Clears, ReadBack, Agreeing, Fits
  <2> QED BY <2>2, <2>3, <2>4
<1>4. Regular(sized) /\ sized.fails = {}
  BY CallerType DEF Plain, Regular, IsField, Whole, Clears, ReadBack, Agreeing, Fits
<1> HIDE DEF checked, sized
<1> QED BY <1>1, <1>2, <1>3, <1>4, PlainRegular DEF BoardKinds

OfBoard(f) == \A x \in DOMAIN f : f[x] \in BoardKinds

\* A message of such fields, with or without a parser, is one of the board domain.
LEMMA BoardMessage ==
  ASSUME NEW tag, NEW checks, OfBoard(checks)
  PROVE  LET m == Board!Board(tag, checks) IN m.tag = tag /\ OfBoard(m.fields)
<1> DEFINE first == [request_id |-> Board!Plain, value |-> Board!Plain]
<1>1. /\ Board!Board(tag, checks).tag = tag
      /\ Board!Board(tag, checks).fields = Board!Also(first, checks)
  BY DEF Board!Board, Board!Tested, Board!Message
<1>2. OfBoard(first)
  BY DEF OfBoard, BoardKinds
<1> HIDE DEF first
<1> QED BY <1>1, <1>2 DEF OfBoard, Board!Also

\* Fields of two groups are fields of the board domain if both are.
LEMMA BoardAlso ==
  ASSUME NEW f, NEW g, OfBoard(f), OfBoard(g)
  PROVE  OfBoard(Board!Also(f, g))
BY DEF OfBoard, Board!Also

\* The messages of the board domain are made of such fields, and have their own tags.
LEMMA BoardTable ==
  ASSUME NEW msg \in DOMAIN Board!Table
  PROVE  Board!Table[msg].tag = msg /\ OfBoard(Board!Table[msg].fields)
<1> DEFINE Good(m) == m.tag = msg /\ OfBoard(m.fields)
<1>1. \A tag, checks : tag = msg /\ OfBoard(checks) => Good(Board!Board(tag, checks))
  BY BoardMessage
<1>2. /\ Board!Plain \in BoardKinds /\ Board!ValidEnum \in BoardKinds
      /\ Board!ValidString \in BoardKinds /\ Board!ValidSize \in BoardKinds
      /\ Board!ValidSpan \in BoardKinds
      /\ Board!Optional(Board!ValidEnum) \in BoardKinds
      /\ Board!Optional(Board!ValidString) \in BoardKinds
      /\ [Board!ValidEnum EXCEPT !.unless = "lease"] \in BoardKinds
  BY DEF BoardKinds
<1>3. OfBoard(Board!Lease) /\ OfBoard(Board!RuntimeUpdate) /\ OfBoard(Board!Chunk)
  BY <1>2 DEF OfBoard, Board!Lease, Board!ValidateLease, Board!RuntimeUpdate, Board!Chunk
<1>4. OfBoard(Board!Profile)
  <2>1. OfBoard([name |-> Board!Optional(Board!ValidString),
                 mappings |-> Board!Optional(Board!ValidString)])
    BY <1>2 DEF OfBoard
  <2>2. OfBoard(Board!ProfileMapping)
    BY <1>2 DEF OfBoard, Board!ProfileMapping
  <2> QED BY <2>1, <2>2, BoardAlso DEF Board!Profile
<1> HIDE DEF Good
<1>5. ASSUME msg \in {"set_output", "configure_input", "i2c_transfer", "gpio_configure",
                       "gpio_read", "gpio_write", "spi_transfer", "storage_read_log"}
      PROVE  Good(Board!Validated[msg])
  <2>1. CASE msg = "set_output"
    <3>1. OfBoard([target |-> Board!ValidEnum])
      BY <1>2 DEF OfBoard
    <3> QED BY <1>1, <1>3, <2>1, <3>1, BoardAlso DEF Board!Validated, Board!SetOutput
  <2>2. CASE msg = "configure_input"
    <3>1. OfBoard([mode |-> Board!ValidEnum])
      BY <1>2 DEF OfBoard
    <3> QED BY <1>1, <2>2, <3>1 DEF Board!Validated, Board!ConfigureInput
  <2>3. CASE msg = "i2c_transfer"
    <3>1. OfBoard([write_data |-> Board!ValidSize, read_length |-> Board!ValidEnum])
      BY <1>2 DEF OfBoard
    <3> QED BY <1>1, <1>3, <2>3, <3>1, BoardAlso DEF Board!Validated, Board!I2cTransfer
  <2>4. CASE msg = "gpio_configure"
    <3>1. OfBoard([direction |-> Board!ValidEnum, pull |-> Board!ValidEnum])
      BY <1>2 DEF OfBoard
    <3> QED BY <1>1, <1>3, <2>4, <3>1, BoardAlso DEF Board!Validated, Board!GpioConfigure
  <2>5. CASE msg = "gpio_read"
    BY <1>1, <1>3, <1>4, <2>5 DEF Board!Validated, Board!GpioRead
  <2>6. CASE msg = "gpio_write"
    BY <1>1, <1>3, <1>4, <2>6 DEF Board!Validated, Board!GpioWrite
  <2>7. CASE msg = "spi_transfer"
    <3>1. OfBoard([mode |-> Board!ValidEnum, tx_data |-> Board!ValidSize,
                   read_length |-> Board!ValidEnum])
      BY <1>2 DEF OfBoard
    <3> QED BY <1>1, <1>3, <2>7, <3>1, BoardAlso DEF Board!Validated, Board!SpiTransfer
  <2>8. CASE msg = "storage_read_log"
    <3>1. OfBoard([max_bytes |-> Board!ValidEnum])
      BY <1>2 DEF OfBoard
    <3> QED BY <1>1, <2>8, <3>1 DEF Board!Validated, Board!StorageReadLog
  <2> QED BY <1>5, <2>1, <2>2, <2>3, <2>4, <2>5, <2>6, <2>7, <2>8
<1>6. ASSUME msg \in {"set_runtime_config", "set_runtime_mode", "remote_profile_set",
                       "release_pin", "raw_pcm_diagnostics", "command_result", "board_info",
                       "sensor_descriptor"}
      PROVE  Good(Board!Validated[msg])
  <2>1. CASE msg = "set_runtime_config"
    <3>1. OfBoard([operation |-> Board!ValidEnum])
      BY <1>2 DEF OfBoard
    <3> QED BY <1>1, <1>3, <2>1, <3>1, BoardAlso DEF Board!Validated, Board!SetRuntimeConfig
  <2>2. CASE msg = "set_runtime_mode"
    <3>1. OfBoard([runtime |-> Board!ValidEnum])
      BY <1>2 DEF OfBoard
    <3> QED BY <1>1, <2>2, <3>1 DEF Board!Validated, Board!SetRuntimeMode
  <2>3. CASE msg = "remote_profile_set"
    BY <1>1, <1>3, <1>4, <2>3 DEF Board!Validated, Board!RemoteProfileSet
  <2>4. CASE msg = "release_pin"
    <3>1. OfBoard([resource |-> [Board!ValidEnum EXCEPT !.unless = "lease"]])
      BY <1>2 DEF OfBoard
    <3> QED BY <1>1, <1>3, <2>4, <3>1, BoardAlso DEF Board!Validated, Board!ReleasePin
  <2>5. CASE msg = "raw_pcm_diagnostics"
    <3>1. OfBoard([chunk_size |-> Board!ValidEnum])
      BY <1>2 DEF OfBoard
    <3> QED BY <1>1, <2>5, <3>1 DEF Board!Validated, Board!RawPcmDiagnostics
  <2>6. CASE msg = "command_result"
    <3>1. OfBoard([command |-> Board!ValidEnum, result |-> Board!ValidEnum,
                   detail |-> Board!ValidString])
      BY <1>2 DEF OfBoard
    <3> QED BY <1>1, <2>6, <3>1 DEF Board!Validated, Board!CommandResult
  <2>7. CASE msg = "board_info"
    <3>1. OfBoard([board_name |-> Board!ValidString, hardware_revision |-> Board!ValidString,
                   firmware_version |-> Board!ValidString,
                   protocol_variant |-> Board!ValidString, device_id |-> Board!ValidSize,
                   active_runtime |-> Board!ValidEnum])
      BY <1>2 DEF OfBoard
    <3> QED BY <1>1, <2>7, <3>1 DEF Board!Validated, Board!BoardInfo
  <2>8. CASE msg = "sensor_descriptor"
    <3>1. OfBoard(Board!SensorDescriptorValue)
      BY <1>2 DEF OfBoard, Board!SensorDescriptorValue
    <3> QED BY <1>1, <2>8, <3>1 DEF Board!Validated, Board!SensorDescriptor
  <2> QED BY <1>6, <2>1, <2>2, <2>3, <2>4, <2>5, <2>6, <2>7, <2>8
<1>7. ASSUME msg \in {"sensor_sample", "calibration", "input_state", "i2c_result",
                       "gpio_configured", "gpio_value", "adc_value", "spi_result"}
      PROVE  Good(Board!Validated[msg])
  <2>1. CASE msg = "sensor_sample"
    <3>1. OfBoard([values |-> Board!ValidString, status |-> Board!ValidEnum])
      BY <1>2 DEF OfBoard
    <3> QED BY <1>1, <2>1, <3>1 DEF Board!Validated, Board!SensorSample
  <2>2. CASE msg = "calibration"
    <3>1. OfBoard([calibration_data |-> Board!ValidSize])
      BY <1>2 DEF OfBoard
    <3> QED BY <1>1, <2>2, <3>1 DEF Board!Validated, Board!Calibration
  <2>3. CASE msg = "input_state"
    <3>1. OfBoard([gesture |-> Board!ValidEnum, mode |-> Board!ValidEnum])
      BY <1>2 DEF OfBoard
    <3> QED BY <1>1, <2>3, <3>1 DEF Board!Validated, Board!InputState
  <2>4. CASE msg = "i2c_result"
    <3>1. OfBoard([result |-> Board!ValidEnum, read_data |-> Board!ValidSize,
                   bytes_read |-> Board!ValidEnum])
      BY <1>2 DEF OfBoard
    <3> QED BY <1>1, <1>3, <2>4, <3>1, BoardAlso DEF Board!Validated, Board!I2cResult
  <2>5. CASE msg = "gpio_configured"
    <3>1. OfBoard([result |-> Board!ValidEnum])
      BY <1>2 DEF OfBoard
    <3> QED BY <1>1, <1>3, <2>5, <3>1, BoardAlso DEF Board!Validated, Board!GpioConfigured
  <2>6. CASE msg = "gpio_value"
    <3>1. OfBoard([result |-> Board!ValidEnum])
      BY <1>2 DEF OfBoard
    <3> QED BY <1>1, <1>3, <2>6, <3>1, BoardAlso DEF Board!Validated, Board!GpioValue
  <2>7. CASE msg = "adc_value"
    <3>1. OfBoard([result |-> Board!ValidEnum])
      BY <1>2 DEF OfBoard
    <3> QED BY <1>1, <2>7, <3>1 DEF Board!Validated, Board!AdcValue
  <2>8. CASE msg = "spi_result"
    <3>1. OfBoard([result |-> Board!ValidEnum, rx_data |-> Board!ValidSize,
                   bytes_read |-> Board!ValidEnum])
      BY <1>2 DEF OfBoard
    <3> QED BY <1>1, <1>3, <2>8, <3>1, BoardAlso DEF Board!Validated, Board!SpiResult
  <2> QED BY <1>7, <2>1, <2>2, <2>3, <2>4, <2>5, <2>6, <2>7, <2>8
<1>8. ASSUME msg \in {"storage_status", "runtime_config", "remote_profile", "audio_chunk",
                       "input_event", "gesture_event", "log_chunk", "board_status"}
      PROVE  Good(Board!Validated[msg])
  <2>1. CASE msg = "storage_status"
    <3>1. OfBoard([state |-> Board!ValidEnum])
      BY <1>2 DEF OfBoard
    <3> QED BY <1>1, <2>1, <3>1 DEF Board!Validated, Board!StorageStatus
  <2>2. CASE msg = "runtime_config"
    <3>1. OfBoard([active_runtime |-> Board!ValidEnum, persisted_runtime |-> Board!ValidEnum])
      BY <1>2 DEF OfBoard
    <3> QED BY <1>1, <2>2, <3>1 DEF Board!Validated, Board!RuntimeConfig
  <2>3. CASE msg = "remote_profile"
    BY <1>1, <1>3, <1>4, <2>3 DEF Board!Validated, Board!RemoteProfile
  <2>4. CASE msg = "audio_chunk"
    BY <1>1, <1>3, <1>4, <2>4 DEF Board!Validated, Board!AudioChunk
  <2>5. CASE msg = "input_event"
    <3>1. OfBoard([source |-> Board!ValidEnum, action |-> Board!ValidEnum])
      BY <1>2 DEF OfBoard
    <3> QED BY <1>1, <2>5, <3>1 DEF Board!Validated, Board!InputEvent
  <2>6. CASE msg = "gesture_event"
    <3>1. OfBoard([gesture |-> Board!ValidEnum])
      BY <1>2 DEF OfBoard
    <3> QED BY <1>1, <2>6, <3>1 DEF Board!Validated, Board!GestureEvent
  <2>7. CASE msg = "log_chunk"
    BY <1>1, <1>3, <1>4, <2>7 DEF Board!Validated, Board!LogChunk
  <2>8. CASE msg = "board_status"
    <3>1. OfBoard([code |-> Board!ValidEnum, result |-> Board!ValidEnum,
                   resource |-> Board!ValidEnum, progress |-> Board!ValidEnum,
                   detail |-> Board!ValidString])
      BY <1>2 DEF OfBoard
    <3> QED BY <1>1, <2>8, <3>1 DEF Board!Validated, Board!BoardStatus
  <2> QED BY <1>8, <2>1, <2>2, <2>3, <2>4, <2>5, <2>6, <2>7, <2>8
<1>9. ASSUME msg \in DOMAIN Board!Validated
      PROVE  Good(Board!Table[msg])
  <2>1. Board!Table[msg] = Board!Validated[msg]
    BY <1>9 DEF Board!Table, Board!Also
  <2> QED BY <1>9, <2>1, <1>5, <1>6, <1>7, <1>8 DEF Board!Validated
<1>10. ASSUME msg \notin DOMAIN Board!Validated
      PROVE  Good(Board!Table[msg])
  <2>1. Board!Table[msg] = Board!Board(msg, Board!ValidateOk)
    BY <1>10 DEF Board!Table, Board!Also
  <2>2. OfBoard(Board!ValidateOk)
    BY DEF OfBoard, Board!ValidateOk
  <2> QED BY <1>1, <2>1, <2>2
<1> QED BY <1>9, <1>10 DEF Good

\* Every message of the board domain is sound.
LEMMA BoardSchemas ==
  /\ "none" \notin DOMAIN Board!Table
  /\ \A msg \in DOMAIN Board!Table : SchemaSound("board", Board!Table, msg)
<1>1. "none" \notin DOMAIN Board!Table
  BY DEF Board!Table, Board!Also, Board!Validated, Board!ValidatedOk
<1>2. ASSUME NEW msg \in DOMAIN Board!Table
      PROVE  SchemaSound("board", Board!Table, msg)
  <2>1. <<"board", msg>> \notin Unheard
    BY DEF Unheard, Of
  <2> QED BY <2>1, BoardTable, BoardKindsRegular, RegularSchema DEF OfBoard
<1> QED BY <1>1, <1>2

\* Every message of every domain, but for what it is listed for, is carried, read back
\* and refused as a regular one.
LEMMA TablesSound ==
  ASSUME NEW d \in DOMAIN Tables
  PROVE  /\ "none" \notin DOMAIN Tables[d]
         /\ \A msg \in DOMAIN Tables[d] : SchemaSound(d, Tables[d], msg)
<1>1. /\ Tables["core"] = Core!Table /\ Tables["ble"] = Ble!Table /\ Tables["phy"] = Phy!Table
      /\ Tables["dot15d4"] = Dot15d4!Table /\ Tables["esb"] = Esb!Table
      /\ Tables["unifying"] = Unifying!Table /\ Tables["board"] = Board!Table
      /\ d \in {"core", "ble", "phy", "dot15d4", "esb", "unifying", "board"}
  BY DEF Tables
<1> QED
  BY <1>1, CoreSchemas, BleSchemas, PhySchemas, DotSchemas, EsbSchemas, UnifyingSchemas,
     BoardSchemas

\* The tables of every domain are tables of schemas.
LEMMA TablesTyped ==
  ASSUME NEW d \in DOMAIN Tables
  PROVE  IsTable(Tables[d])
BY TablesSound DEF IsTable, IsSchema, SchemaSound, FieldSound

--------------------------------------------------------------------------
(* The classes.                                                            *)

\* The constructor accepts whatever it is called with; it never succeeds; and what
\* makes it fail is a size that is too long, which is written and not encoded.
Accepts(m)  == \A x \in DOMAIN m.fields : m.fields[x].refuses = {} /\ m.fields[x].fails = {}
Hopeless(m) == /\ "none" \notin DOMAIN m.fields
               /\ \E x \in DOMAIN m.fields : LET k == m.fields[x]
                                            IN  ~k.opt /\ k.unless = "none" /\ k.fails = Size
TooLong(m) ==
  \A x \in DOMAIN m.fields :
    LET k == m.fields[x]
    IN  k.fails = {} \/ /\ k.fails = {"over"} /\ ~k.opt /\ k.bounded
                        /\ "over" \notin k.cuts \cup k.wraps
                        /\ x \in DOMAIN m.early /\ "len" \in m.early[x] \cap k.writes["over"]

\* The parser always reports the field x.
Reported(d, msg, x) ==
  <<d, <<msg, x>>>> \notin Misread \cup Uncounted /\ \A t : <<d, <<msg, x>>, t>> \notin Overlooked

\* A field that only the fields the class restores can be written over, where listed.
Overwritten(d, cls, msg, x, k) ==
  /\ k.cuts = {} /\ k.wraps = {} /\ k.spoils = {}
  /\ \A y \in k.under : /\ Sized(d, msg, x, y, "full") \in Spoilt /\ Reported(d, msg, y)
                        /\ <<d, <<cls, y>>>> \notin Forgotten

\* What is known of the class c of the message m = T0[c.msg]: it does nothing but what
\* its constructor and its parser do, but for what it is listed for.
ClassSound(d, cls, c) ==
  LET T0 == Tables[d]
      m  == T0[c.msg]
      class == <<d, cls>>
      member(x) == <<d, <<cls, x>>>>
  IN  /\ {c.msg, c.packer} \cup c.again \subseteq DOMAIN T0
      \* What pack() calls.
      /\ IF class \in Strange THEN ~c.strict /\ c.nulls = {} /\ Accepts(T0[c.packer])
         ELSE c.packer = c.msg /\ DOMAIN c.onto = {}
      /\ class \notin Retyping => /\ c.packer = c.msg /\ DOMAIN c.onto = {} /\ c.again = {c.msg}
                                  /\ m.tag = c.msg
      /\ class \notin Unasked => c.nulls = {}
      /\ <<d, c.packer>> \in Doubtful => class \in Unasked \/ (/\ ~c.loose /\ c.long # "emptied"
                                                       /\ m.tag = c.msg /\ TooLong(m))
      \* What the constructor from arguments does.
      /\ c.packs \/ (c.direct /\ c.nulls = {} /\ \A x \in DOMAIN m.fields : m.fields[x].fails = {})
      /\ c.direct /\ c.packs /\ class \notin Strange => class \in Unasked /\ Hopeless(m)
      /\ c.strict => ~c.direct /\ ~c.loose /\ c.long = "kept"
      /\ c.nulls = {} \/ (~c.loose /\ c.long = "kept")
      /\ c.loose => c.long = "kept" /\ \A x \in DOMAIN m.fields :
                      /\ m.fields[x].refuses = {} /\ "some" \notin m.fields[x].fails
                      /\ m.fields[x].opt => member(x) \in Garbled
      /\ c.long # "kept" => "none" \notin DOMAIN m.fields /\
           \A x \in DOMAIN m.fields :
             LET k == m.fields[x]
             IN  /\ k.refuses = {}
                 /\ \/ member(x) \in Shortened /\ k.fails = {}
                    \/ "over" \notin k.lens /\ k.fails = {}
                    \/ k.fails = {"over"} /\ ~k.opt /\ k.unless = "none"
      \* What the constructor from a message does.
      /\ \/ class \in Blind \/ c.reads \in {"absent", "parse"}
         \/ c.reads = "none" /\ DOMAIN m.fields = {}
         \/ /\ c.reads = "twice" /\ c.forgets = {} /\ c.given = {} /\ class \notin Retyping
            /\ <<d, c.msg>> \notin Doubtful
            /\ \A x \in DOMAIN m.fields : Whole(m.fields[x]) /\ Fits(m.fields[x])
      /\ <<d, c.msg>> \in Unheard => c.reads = "absent"
      /\ \A x \in DOMAIN m.fields : <<d, <<c.msg, x>>>> \in Uncounted =>
           LET k == m.fields[x]
           IN  /\ x \in c.nulls /\ c.forgets = {} /\ ~k.strays /\ k.blank.len = "empty"
               /\ \A s \in Size : "len" \notin k.reads[s]
      /\ \A x \in c.given : class \in Blind \/ member(x) \in Changed
      /\ \A x \in c.forgets : member(x) \in Forgotten
      /\ c.reads = "absent" \/ \A x \in DOMAIN m.fields : \/ member(x) \in Changed
                                                          \/ Steady(d, c.msg, x, m.fields[x])
                                                          \/ Overwritten(d, cls, c.msg, x, m.fields[x])

\* A class that does nothing else.
Ordinary(c, msg) ==
  /\ c.msg = msg /\ c.packer = msg /\ DOMAIN c.onto = {} /\ c.packs /\ c.again = {msg}
  /\ ~c.direct /\ ~c.loose /\ c.given = {} /\ c.nulls = {} /\ c.long = "kept"
  /\ c.reads \in {"absent", "none", "parse"} /\ c.forgets = {}

\* A message without a parser, or whose parser does not report a size, is Doubtful.
LEMMA DoubtfulFirst ==
  ASSUME NEW d, NEW msg, <<d, msg>> \notin Doubtful
  PROVE  <<d, msg>> \notin Unheard /\ \A x : <<d, <<msg, x>>>> \notin Uncounted
BY DEF Doubtful, Unheard, Uncounted, Of

\* A class that does nothing else is sound.
LEMMA OrdinarySound ==
  ASSUME NEW d \in DOMAIN Tables, NEW cls, NEW c, NEW msg \in DOMAIN Tables[d], Ordinary(c, msg),
         <<d, cls>> \notin Strange, <<d, msg>> \notin Doubtful \cup Renamed,
         <<d, msg>> \notin Unlimited \/ c.reads = "absent",
         c.reads = "none" => DOMAIN Tables[d][msg].fields = {}
  PROVE  ClassSound(d, cls, c)
<1> DEFINE m == Tables[d][msg]
<1>1. SchemaSound(d, Tables[d], msg)
  BY TablesSound
<1>2. m.tag = msg /\ (c.reads = "absent" \/ \A x \in DOMAIN m.fields : Steady(d, msg, x, m.fields[x]))
  BY <1>1 DEF SchemaSound, FieldSound
<1> HIDE DEF m
<1>3. /\ c.msg = msg /\ c.packer = msg /\ DOMAIN c.onto = {} /\ c.packs /\ c.again = {msg}
      /\ ~c.direct /\ ~c.loose /\ c.given = {} /\ c.nulls = {} /\ c.long = "kept"
      /\ c.reads \in {"absent", "none", "parse"} /\ c.forgets = {}
  BY DEF Ordinary
<1>4. ~c.strict \/ (~c.direct /\ ~c.loose /\ c.long = "kept")
  BY <1>3
<1>5. <<d, msg>> \notin Unheard /\ \A x : <<d, <<msg, x>>>> \notin Uncounted
  BY DoubtfulFirst
<1> QED BY <1>2, <1>3, <1>4, <1>5 DEF ClassSound, m

\* What the lists say of a message.
LEMMA MessageFacts ==
  ASSUME NEW d \in DOMAIN Tables, NEW msg \in DOMAIN Tables[d]
  PROVE  LET m == Tables[d][msg]
         IN  /\ <<d, msg>> \notin Renamed => m.tag = msg
             /\ \A x \in DOMAIN m.fields :
                  /\ <<d, msg>> \notin Unlimited => Steady(d, msg, x, m.fields[x])
                  /\ <<d, msg>> \notin HalfBuilt => m.fields[x].fails = {}
BY TablesSound DEF SchemaSound, FieldSound

\* A packet received, raw or not: what is optional, and what may fail.
EsbOptions == {"rssi", "timestamp", "crc_validity", "address"}

\* The classes of what is received in the ESB domain, whose flags have no initialiser.
LEMMA EsbReceptions ==
  ASSUME NEW msg \in {"raw_pdu", "pdu"}, NEW x \in DOMAIN Esb!Table[msg].fields
  PROVE  LET k == Esb!Table[msg].fields[x]
         IN  /\ Whole(k) /\ Fits(k) /\ k.refuses = {} /\ "some" \notin k.fails
             /\ k.opt => x \in EsbOptions
<1> DEFINE late == Esb!Optional(Esb!Failing(Esb!Address, {"over"}))
           opt  == Esb!Optional(Esb!Plain)
           time == Esb!Narrowed(Esb!Optional(Esb!Plain))
           F == Esb!Table[msg].fields
<1>1. F = Esb!Received
  BY DEF Esb!Table, Esb!RawPduReceived, Esb!PduReceived, Esb!Early, Esb!Message
<1>2. F = [channel |-> Esb!Plain, packet |-> Esb!Bytes, rssi |-> opt, timestamp |-> time,
           crc_validity |-> opt, address |-> late]
  BY <1>1 DEF Esb!Received
<1>3. late = Optional(Failing(Rejecting(Wide, {"over"}), {"over"})) /\ opt = Optional(Plain)
  BY EsbKinds DEF Esb!Failing, Failing, Esb!Optional, Optional
<1>4. Regular(late) /\ late.refuses = {} /\ "some" \notin late.fails
  <2>1. Regular(late)
    BY <1>3, LateAddress
  <2> DEFINE l == Optional(Failing(Rejecting(Wide, {"over"}), {"over"}))
  <2>2. l.refuses = {} /\ l.fails = {"over"}
    BY DEF Optional, Failing, Rejecting, Wide, Plain
  <2> HIDE DEF l, late
  <2> QED BY <1>3, <2>1, <2>2 DEF l
<1>5. Regular(opt) /\ opt.refuses = {} /\ "some" \notin opt.fails
  BY <1>3, OptionalRegular DEF Optional, Plain
<1>8. Whole(time) /\ Fits(time) /\ time.refuses = {} /\ "some" \notin time.fails
  BY DEF Esb!Narrowed, Esb!Optional, Esb!Reading, Esb!Plain, Esb!Size, Esb!Parts, Size, Parts,
     Whole, Fits
<1>6. \A k \in {Esb!Plain, Esb!Bytes} : /\ Regular(k) /\ k.refuses = {} /\ "some" \notin k.fails
                                        /\ ~k.opt
  <2>1. Plain.refuses = {} /\ Plain.fails = {} /\ ~Plain.opt
    BY DEF Plain
  <2>2. Bytes.refuses = {} /\ Bytes.fails = {} /\ ~Bytes.opt
    BY <2>1 DEF Bytes
  <2> QED BY <2>1, <2>2, EsbKinds, PlainRegular, BytesRegular
<1>7. x \in DOMAIN F
  OBVIOUS
<1> SUFFICES /\ Whole(F[x]) /\ Fits(F[x]) /\ F[x].refuses = {} /\ "some" \notin F[x].fails
             /\ F[x].opt => x \in EsbOptions
  OBVIOUS
<1> HIDE DEF late, opt, time, F
<1>9. \A k : Regular(k) => Whole(k) /\ Fits(k)
  BY DEF Regular
<1> QED BY <1>2, <1>4, <1>5, <1>6, <1>7, <1>8, <1>9 DEF EsbOptions

\* Advertising data is never refused.
LEMMA BleModes ==
  ASSUME NEW msg \in {"adv_mode", "periph_mode"}, NEW x \in DOMAIN Ble!Table[msg].fields
  PROVE  /\ x # "none" /\ Ble!Table[msg].fields[x].refuses = {}
         /\ x \in {"adv_data", "scanrsp_data"}
<1>1. Ble!Table[msg].fields[x] = Ble!AdvData /\ x \in {"adv_data", "scanrsp_data"}
  BY DEF Ble!Table, Ble!AdvMode, Ble!PeripheralMode, Ble!Message
<1>2. Ble!AdvData.refuses = {}
  BY DEF Ble!AdvData, Ble!Cut, Ble!Writing, Ble!Reading, Ble!Wide, Ble!Plain
<1> QED BY <1>1, <1>2

\* Setting advertising data always fails.
LEMMA BleUnset == Hopeless(Ble!Table["set_adv_data"])
<1> DEFINE k == Ble!Rejecting(Ble!Failing(Ble!Wide, Ble!Size), Ble!Size)
           F == Ble!Table["set_adv_data"].fields
<1>1. "adv_data" \in DOMAIN F /\ F["adv_data"] = k
  BY DEF Ble!Table, Ble!SetAdvData, Ble!Message
<1>2. ~k.opt /\ k.unless = "none" /\ k.fails = Size
  BY DEF Ble!Rejecting, Ble!Failing, Ble!Wide, Ble!Plain, Ble!Size, Size
<1> HIDE DEF F, k
<1>3. "none" \notin DOMAIN F
  BY DEF F, Ble!Table, Ble!SetAdvData, Ble!Message
<1>4. \E x \in DOMAIN F : ~F[x].opt /\ F[x].unless = "none" /\ F[x].fails = Size
  BY <1>1, <1>2
<1> QED BY <1>3, <1>4 DEF F, Hopeless

\* A pattern that is too long is the only one that fails, once its size is written.
LEMMA BleReactive ==
  LET m == Ble!Table["reactive_jam"]
  IN  /\ TooLong(m) /\ "none" \notin DOMAIN m.fields
      /\ \A x \in DOMAIN m.fields :
           LET k == m.fields[x]
           IN  k.refuses = {} /\ (\/ "over" \notin k.lens /\ k.fails = {}
                                  \/ k.fails = {"over"} /\ ~k.opt /\ k.unless = "none")
<1> DEFINE k == Ble!Rejecting(Ble!Failing(Ble!Wide, {"over"}), {"over"})
           m == Ble!Table["reactive_jam"]
<1>1. /\ m.fields = [channel |-> Ble!Plain, position |-> Ble!Plain, pattern |-> k]
      /\ m.early = [channel |-> Ble!Parts, position |-> Ble!Parts, pattern |-> {"has", "len"}]
  BY DEF Ble!Table, Ble!ReactiveJam, Ble!Early, Ble!Message
<1>2. /\ Ble!Plain.refuses = {} /\ Ble!Plain.fails = {} /\ "over" \notin Ble!Plain.lens
  BY DEF Ble!Plain
<1>3. /\ k.refuses = {} /\ k.fails = {"over"} /\ ~k.opt /\ k.unless = "none" /\ k.bounded
      /\ k.cuts = {} /\ k.wraps = {} /\ k.writes["over"] = {"has", "len", "val"}
  BY DEF Ble!Rejecting, Ble!Failing, Ble!Wide, Ble!Plain, Ble!Size, Ble!Parts
<1> HIDE DEF k, m
<1>4. TooLong(m)
  <2>1. ASSUME NEW x \in DOMAIN m.fields, m.fields[x].fails # {}
        PROVE  x = "pattern" /\ m.fields[x] = k
    BY <1>1, <1>2, <2>1
  <2>2. "pattern" \in DOMAIN m.early /\ "len" \in m.early["pattern"]
    BY <1>1
  <2> QED BY <1>3, <2>1, <2>2 DEF TooLong
<1> QED BY <1>1, <1>2, <1>3, <1>4 DEF m

\* Of the PDU to send, only encrypt is written over.
LEMMA BleOverwritten ==
  ASSUME NEW cls, NEW x \in DOMAIN Ble!Table["send_pdu"].fields, x # "pdu"
  PROVE  Overwritten("ble", cls, "send_pdu", x, Ble!Table["send_pdu"].fields[x])
<1> DEFINE k == Ble!Table["send_pdu"].fields[x]
           over == [Ble!Plain EXCEPT !.under = {"pdu"}]
<1>1. (x = "encrypt" /\ k = over) \/ k = Ble!Plain
  <2> DEFINE moved == [Ble!Unsized EXCEPT !.spoils = Ble!Size]
             F == Ble!Table["send_pdu"].fields
  <2>1. F = [direction |-> Ble!Plain, conn_handle |-> Ble!Plain, pdu |-> moved, encrypt |-> over]
    BY DEF Ble!Table, Ble!SendPdu, Ble!Message
  <2>2. x \in DOMAIN F /\ k = F[x]
    OBVIOUS
  <2> HIDE DEF k, over, moved, F
  <2> QED BY ONLY <2>1, <2>2, x # "pdu"
<1>2. /\ over.cuts = {} /\ over.wraps = {} /\ over.spoils = {} /\ over.under = {"pdu"}
      /\ Ble!Plain.cuts = {} /\ Ble!Plain.wraps = {} /\ Ble!Plain.spoils = {} /\ Ble!Plain.under = {}
  BY DEF Ble!Plain
<1>3. Sized("ble", "send_pdu", "encrypt", "pdu", "full") \in Spoilt
  BY DEF Sized, Spoilt
<1>4. Reported("ble", "send_pdu", "pdu")
  BY DEF Reported, Misread, Uncounted, Overlooked, When, AdvertisingData, NarrowedFields,
     PhyTimestamps, Of
<1>5. <<"ble", <<cls, "pdu">>>> \notin Forgotten
  BY DEF Forgotten, Of
<1> HIDE DEF k, over
<1>6. Overwritten("ble", cls, "send_pdu", x, k)
  BY <1>1, <1>2, <1>3, <1>4, <1>5 DEF Overwritten
<1> QED BY <1>6 DEF k

\* The packets of a sequence are reported without their number.
LEMMA BleSequences ==
  ASSUME NEW msg \in {"prepare_manual", "prepare_connevt"}, NEW x \in DOMAIN Ble!Table[msg].fields,
         <<"ble", <<msg, x>>>> \in Uncounted
  PROVE  LET k == Ble!Table[msg].fields[x]
         IN  /\ x = "packets" /\ ~k.strays /\ k.blank.len = "empty"
             /\ \A s \in Size : "len" \notin k.reads[s]
<1>1. x = "packets"
  BY DEF Uncounted, Of
<1>2. Ble!Table[msg].fields["packets"] = Ble!Sequence
  <2>1. CASE msg = "prepare_manual"
    BY <2>1 DEF Ble!Table, Ble!PrepareManual, Ble!Early, Ble!Message, Ble!SequenceFields
  <2>2. CASE msg = "prepare_connevt"
    <3>1. Ble!Table[msg].fields = Ble!Also(Ble!SequenceFields, [conn_evt |-> Ble!Plain])
      BY <2>2 DEF Ble!Table, Ble!PrepareConnEvt, Ble!Early, Ble!Message
    <3> QED BY <2>2, <3>1 DEF Ble!SequenceFields, Ble!Also
  <2> QED BY <2>1, <2>2
<1>3. /\ ~Ble!Sequence.strays /\ Ble!Sequence.blank.len = "empty"
      /\ \A s \in Size : "len" \notin Ble!Sequence.reads[s]
  BY DEF Ble!Sequence, Ble!Reading, Ble!Failing, Ble!Wide, Ble!Plain, Ble!Size, Ble!Zeroed,
     Ble!Slot,
     Size
<1> QED BY <1>1, <1>2, <1>3

\* Discovery and the generic messages: the classes without exceptions.
LEMMA CoreOrdinaryClasses ==
  ASSUME NEW cls \in DOMAIN ClassTables["core"],
         cls \notin {"DeviceInfoResp", "DomainInfoResp"}
  PROVE  ClassSound("core", cls, ClassTables["core"][cls])
<1> DEFINE c == ClassTables["core"][cls]
<1>1. /\ ClassTables["core"] = CoreC!Table
      /\ Tables["core"] = Core!Table /\ "core" \in DOMAIN Tables
  BY DEF ClassTables, Tables
<1>2. ASSUME cls \in {"DeviceInfoQuery", "DomainInfoQuery", "SetTransportSpeed", "CommandResult"}
      PROVE  ClassSound("core", cls, c)
  <2> DEFINE messages == {"info_query", "domain_query", "set_speed", "cmd_result"}
  <2>1. \E msg \in messages : c = CoreC!Class(msg)
    BY <1>1, <1>2 DEF CoreC!Table, CoreC!DeviceInfoQuery, CoreC!DomainInfoQuery,
     CoreC!SetTransportSpeed, CoreC!CommandResult
  <2>2. \A msg : LET k == CoreC!Class(msg) IN Ordinary(k, msg) /\ k.reads = "parse"
    BY DEF Ordinary, CoreC!Class
  <2>3. messages \subseteq DOMAIN Core!Table
    BY DEF Core!Table
  <2>4. /\ <<"core", cls>> \notin Strange
        /\ \A msg \in messages : <<"core", msg>> \notin Doubtful \cup Renamed \cup Unlimited
    BY <1>2 DEF Strange, Doubtful, Renamed, Unlimited, Of
  <2> HIDE DEF messages, c
  <2> QED BY <1>1, <2>1, <2>2, <2>3, <2>4, OrdinarySound
<1>3. ASSUME cls \in {"DeviceReset"}
      PROVE  ClassSound("core", cls, c)
  <2> DEFINE messages == {"reset_query"}
  <2>1. \E msg \in messages : c = CoreC!Signal(msg)
    BY <1>1, <1>3 DEF CoreC!Table, CoreC!DeviceReset
  <2>2. \A msg : LET k == CoreC!Signal(msg) IN Ordinary(k, msg) /\ k.reads = "none"
    BY DEF Ordinary, CoreC!Signal, CoreC!Class
  <2>3. messages \subseteq DOMAIN Core!Table
    BY DEF Core!Table
  <2>4. /\ <<"core", cls>> \notin Strange
        /\ \A msg \in messages : <<"core", msg>> \notin Doubtful \cup Renamed \cup Unlimited
    BY <1>3 DEF Strange, Doubtful, Renamed, Unlimited, Of
  <2>5. \A msg \in messages : DOMAIN Core!Table[msg].fields = {}
    BY DEF Core!Table, Core!Message, Core!Command, Core!DeviceReset
  <2> HIDE DEF messages, c
  <2> QED BY <1>1, <2>1, <2>2, <2>3, <2>4, <2>5, OrdinarySound
<1>4. ASSUME cls \in {"ReadyResp", "Debug", "Progress", "Verbose"}
      PROVE  ClassSound("core", cls, c)
  <2> DEFINE messages == {"ready_resp", "debug", "progress", "verbose"}
  <2>1. \E msg \in messages : c = CoreC!Outgoing(msg)
    BY <1>1, <1>4 DEF CoreC!Table, CoreC!ReadyResp, CoreC!Debug, CoreC!Progress, CoreC!Verbose
  <2>2. \A msg : LET k == CoreC!Outgoing(msg) IN Ordinary(k, msg) /\ k.reads = "absent"
    BY DEF Ordinary, CoreC!Outgoing, CoreC!Class
  <2>3. messages \subseteq DOMAIN Core!Table
    BY DEF Core!Table
  <2>4. /\ <<"core", cls>> \notin Strange
        /\ \A msg \in messages : <<"core", msg>> \notin Doubtful \cup Renamed
    BY <1>4 DEF Strange, Doubtful, Renamed, Unlimited, Of
  <2> HIDE DEF messages, c
  <2> QED BY <1>1, <2>1, <2>2, <2>3, <2>4, OrdinarySound
<1> QED BY <1>1, <1>2, <1>3, <1>4 DEF CoreC!Table

\* Bluetooth Low Energy: the classes without exceptions.
LEMMA BleOrdinaryClasses ==
  ASSUME NEW cls \in DOMAIN ClassTables["ble"],
         cls \notin {"AdvMode", "ConnectTo", "Hijacked", "JamActiveConn", "JamAdv",
                  "JamAdvChannel", "ReactiveJam", "PeripheralMode", "PrepareSequenceManual",
                  "PrepareSequenceConnEvt", "RawPdu", "SetAdvData", "SetBdAddress",
                  "SendPdu", "SetEncryption", "SniffConnReq"}
  PROVE  ClassSound("ble", cls, ClassTables["ble"][cls])
<1> DEFINE c == ClassTables["ble"][cls]
<1>1. /\ ClassTables["ble"] = BleC!Table
      /\ Tables["ble"] = Ble!Table /\ "ble" \in DOMAIN Tables
  BY DEF ClassTables, Tables
<1>2. ASSUME cls \in {"Connected", "DeleteSequence", "Disconnect", "Disconnected", "HijackBoth",
                        "HijackMaster", "HijackSlave", "Injected"}
      PROVE  ClassSound("ble", cls, c)
  <2> DEFINE messages == {"connected", "delete_seq", "disconnect", "disconnected", "hijack_both",
                               "hijack_master", "hijack_slave", "injected"}
  <2>1. \E msg \in messages : c = BleC!Class(msg)
    BY <1>1, <1>2 DEF BleC!Table, BleC!Connected, BleC!DeleteSequence, BleC!Disconnect,
     BleC!Disconnected, BleC!HijackBoth, BleC!HijackMaster, BleC!HijackSlave, BleC!Injected
  <2>2. \A msg : LET k == BleC!Class(msg) IN Ordinary(k, msg) /\ k.reads = "parse"
    BY DEF Ordinary, BleC!Class
  <2>3. messages \subseteq DOMAIN Ble!Table
    BY DEF Ble!Table
  <2>4. /\ <<"ble", cls>> \notin Strange
        /\ \A msg \in messages : <<"ble", msg>> \notin Doubtful \cup Renamed \cup Unlimited
    BY <1>2 DEF Strange, Doubtful, Renamed, Unlimited, Of
  <2> HIDE DEF messages, c
  <2> QED BY <1>1, <2>1, <2>2, <2>3, <2>4, OrdinarySound
<1>3. ASSUME cls \in {"LinkLayerPdu", "ManualTrigger", "ScanMode", "AdvPdu",
                        "SendRawPdu", "SequenceTriggered", "SniffAccessAddress"}
      PROVE  ClassSound("ble", cls, c)
  <2> DEFINE messages == {"pdu", "trigger", "scan_mode", "adv_pdu", "send_raw_pdu",
                               "triggered", "sniff_aa"}
  <2>1. \E msg \in messages : c = BleC!Class(msg)
    BY <1>1, <1>3 DEF BleC!Table, BleC!LinkLayerPdu, BleC!ManualTrigger, BleC!ScanMode,
     BleC!AdvPdu, BleC!SendRawPdu, BleC!SequenceTriggered, BleC!SniffAccessAddress
  <2>2. \A msg : LET k == BleC!Class(msg) IN Ordinary(k, msg) /\ k.reads = "parse"
    BY DEF Ordinary, BleC!Class
  <2>3. messages \subseteq DOMAIN Ble!Table
    BY DEF Ble!Table
  <2>4. /\ <<"ble", cls>> \notin Strange
        /\ \A msg \in messages : <<"ble", msg>> \notin Doubtful \cup Renamed \cup Unlimited
    BY <1>3 DEF Strange, Doubtful, Renamed, Unlimited, Of
  <2> HIDE DEF messages, c
  <2> QED BY <1>1, <2>1, <2>2, <2>3, <2>4, OrdinarySound
<1>4. ASSUME cls \in {"AccessAddressDiscovered", "SniffActiveConn", "SniffAdv", "Synchronized",
                        "Desynchronized"}
      PROVE  ClassSound("ble", cls, c)
  <2> DEFINE messages == {"aa_disc", "sniff_conn", "sniff_adv", "synchronized", "desynchronized"}
  <2>1. \E msg \in messages : c = BleC!Class(msg)
    BY <1>1, <1>4 DEF BleC!Table, BleC!AccessAddressDiscovered, BleC!SniffActiveConn,
     BleC!SniffAdv, BleC!Synchronized, BleC!Desynchronized
  <2>2. \A msg : LET k == BleC!Class(msg) IN Ordinary(k, msg) /\ k.reads = "parse"
    BY DEF Ordinary, BleC!Class
  <2>3. messages \subseteq DOMAIN Ble!Table
    BY DEF Ble!Table
  <2>4. /\ <<"ble", cls>> \notin Strange
        /\ \A msg \in messages : <<"ble", msg>> \notin Doubtful \cup Renamed \cup Unlimited
    BY <1>4 DEF Strange, Doubtful, Renamed, Unlimited, Of
  <2> HIDE DEF messages, c
  <2> QED BY <1>1, <2>1, <2>2, <2>3, <2>4, OrdinarySound
<1>5. ASSUME cls \in {"CentralMode", "Start", "Stop"}
      PROVE  ClassSound("ble", cls, c)
  <2> DEFINE messages == {"central_mode", "start", "stop"}
  <2>1. \E msg \in messages : c = BleC!Signal(msg)
    BY <1>1, <1>5 DEF BleC!Table, BleC!CentralMode, BleC!Start, BleC!Stop
  <2>2. \A msg : LET k == BleC!Signal(msg) IN Ordinary(k, msg) /\ k.reads = "none"
    BY DEF Ordinary, BleC!Signal, BleC!Class
  <2>3. messages \subseteq DOMAIN Ble!Table
    BY DEF Ble!Table
  <2>4. /\ <<"ble", cls>> \notin Strange
        /\ \A msg \in messages : <<"ble", msg>> \notin Doubtful \cup Renamed \cup Unlimited
    BY <1>5 DEF Strange, Doubtful, Renamed, Unlimited, Of
  <2>5. \A msg \in messages : DOMAIN Ble!Table[msg].fields = {}
    BY DEF Ble!Table, Ble!Message, Ble!Command, Ble!CentralMode, Ble!Start, Ble!Stop
  <2> HIDE DEF messages, c
  <2> QED BY <1>1, <2>1, <2>2, <2>3, <2>4, <2>5, OrdinarySound
<1> QED BY <1>1, <1>2, <1>3, <1>4, <1>5 DEF BleC!Table

\* The physical layer: the classes without exceptions.
LEMMA PhyOrdinaryClasses ==
  ASSUME NEW cls \in DOMAIN ClassTables["phy"],
         cls # "MonitorMode"
  PROVE  ClassSound("phy", cls, ClassTables["phy"][cls])
<1> DEFINE c == ClassTables["phy"][cls]
<1>1. /\ ClassTables["phy"] = PhyC!Table
      /\ Tables["phy"] = Phy!Table /\ "phy" \in DOMAIN Tables
  BY DEF ClassTables, Tables
<1>2. ASSUME cls \in {"JamMode", "PacketScheduled", "ScheduledPacketSent", "SendPacket",
                        "Set4FskMod", "SetAskMod", "SetDatarate", "SetEndianness"}
      PROVE  ClassSound("phy", cls, c)
  <2> DEFINE messages == {"jam", "sched_pkt_rsp", "sched_pkt_sent", "send", "mod_4fsk",
                               "mod_ask", "datarate", "endianness"}
  <2>1. \E msg \in messages : c = PhyC!Class(msg)
    BY <1>1, <1>2 DEF PhyC!Table, PhyC!JamMode, PhyC!PacketScheduled, PhyC!ScheduledPacketSent,
     PhyC!SendPacket, PhyC!Set4FskMod, PhyC!SetAskMod, PhyC!SetDatarate, PhyC!SetEndianness
  <2>2. \A msg : LET k == PhyC!Class(msg) IN Ordinary(k, msg) /\ k.reads = "parse"
    BY DEF Ordinary, PhyC!Class
  <2>3. messages \subseteq DOMAIN Phy!Table
    BY DEF Phy!Table
  <2>4. /\ <<"phy", cls>> \notin Strange
        /\ \A msg \in messages : <<"phy", msg>> \notin Doubtful \cup Renamed \cup Unlimited
    BY <1>2 DEF Strange, Doubtful, Renamed, Unlimited, Of
  <2> HIDE DEF messages, c
  <2> QED BY <1>1, <2>1, <2>2, <2>3, <2>4, OrdinarySound
<1>3. ASSUME cls \in {"SetFreq", "SetFskMod", "SetGfskMod", "SetLoraMod", "SetMskMod",
                        "SetPacketSize", "SetQpskMod", "SetSyncWord"}
      PROVE  ClassSound("phy", cls, c)
  <2> DEFINE messages == {"set_freq", "mod_fsk", "mod_gfsk", "mod_lora", "mod_msk",
                               "packet_size", "mod_qpsk", "sync_word"}
  <2>1. \E msg \in messages : c = PhyC!Class(msg)
    BY <1>1, <1>3 DEF PhyC!Table, PhyC!SetFreq, PhyC!SetFskMod, PhyC!SetGfskMod, PhyC!SetLoraMod,
     PhyC!SetMskMod, PhyC!SetPacketSize, PhyC!SetQpskMod, PhyC!SetSyncWord
  <2>2. \A msg : LET k == PhyC!Class(msg) IN Ordinary(k, msg) /\ k.reads = "parse"
    BY DEF Ordinary, PhyC!Class
  <2>3. messages \subseteq DOMAIN Phy!Table
    BY DEF Phy!Table
  <2>4. /\ <<"phy", cls>> \notin Strange
        /\ \A msg \in messages : <<"phy", msg>> \notin Doubtful \cup Renamed \cup Unlimited
    BY <1>3 DEF Strange, Doubtful, Renamed, Unlimited, Of
  <2> HIDE DEF messages, c
  <2> QED BY <1>1, <2>1, <2>2, <2>3, <2>4, OrdinarySound
<1>4. ASSUME cls \in {"SetTxPower", "SniffMode", "Jammed", "SchedulePacket", "PacketReceived"}
      PROVE  ClassSound("phy", cls, c)
  <2> DEFINE messages == {"tx_power", "sniff", "jammed", "sched_send", "packet"}
  <2>1. \E msg \in messages : c = PhyC!Class(msg)
    BY <1>1, <1>4 DEF PhyC!Table, PhyC!SetTxPower, PhyC!SniffMode, PhyC!Jammed,
     PhyC!SchedulePacket, PhyC!PacketReceived
  <2>2. \A msg : LET k == PhyC!Class(msg) IN Ordinary(k, msg) /\ k.reads = "parse"
    BY DEF Ordinary, PhyC!Class
  <2>3. messages \subseteq DOMAIN Phy!Table
    BY DEF Phy!Table
  <2>4. /\ <<"phy", cls>> \notin Strange
        /\ \A msg \in messages : <<"phy", msg>> \notin Doubtful \cup Renamed \cup Unlimited
    BY <1>4 DEF Strange, Doubtful, Renamed, Unlimited, Of
  <2> HIDE DEF messages, c
  <2> QED BY <1>1, <2>1, <2>2, <2>3, <2>4, OrdinarySound
<1>5. ASSUME cls \in {"SetBpskMod", "Start", "Stop"}
      PROVE  ClassSound("phy", cls, c)
  <2> DEFINE messages == {"mod_bpsk", "start", "stop"}
  <2>1. \E msg \in messages : c = PhyC!Signal(msg)
    BY <1>1, <1>5 DEF PhyC!Table, PhyC!SetBpskMod, PhyC!Start, PhyC!Stop
  <2>2. \A msg : LET k == PhyC!Signal(msg) IN Ordinary(k, msg) /\ k.reads = "none"
    BY DEF Ordinary, PhyC!Signal, PhyC!Class
  <2>3. messages \subseteq DOMAIN Phy!Table
    BY DEF Phy!Table
  <2>4. /\ <<"phy", cls>> \notin Strange
        /\ \A msg \in messages : <<"phy", msg>> \notin Doubtful \cup Renamed \cup Unlimited
    BY <1>5 DEF Strange, Doubtful, Renamed, Unlimited, Of
  <2>5. \A msg \in messages : DOMAIN Phy!Table[msg].fields = {}
    BY DEF Phy!Table, Phy!Message, Phy!Command, Phy!SetBpsk, Phy!Start, Phy!Stop
  <2> HIDE DEF messages, c
  <2> QED BY <1>1, <2>1, <2>2, <2>3, <2>4, <2>5, OrdinarySound
<1>6. ASSUME cls \in {"SupportedFreqsResp"}
      PROVE  ClassSound("phy", cls, c)
  <2> DEFINE messages == {"supported_freq"}
  <2>1. \E msg \in messages : c = PhyC!Outgoing(msg)
    BY <1>1, <1>6 DEF PhyC!Table, PhyC!SupportedFreqsResp
  <2>2. \A msg : LET k == PhyC!Outgoing(msg) IN Ordinary(k, msg) /\ k.reads = "absent"
    BY DEF Ordinary, PhyC!Outgoing, PhyC!Class
  <2>3. messages \subseteq DOMAIN Phy!Table
    BY DEF Phy!Table
  <2>4. /\ <<"phy", cls>> \notin Strange
        /\ \A msg \in messages : <<"phy", msg>> \notin Doubtful \cup Renamed
    BY <1>6 DEF Strange, Doubtful, Renamed, Unlimited, Of
  <2> HIDE DEF messages, c
  <2> QED BY <1>1, <2>1, <2>2, <2>3, <2>4, OrdinarySound
<1> QED BY <1>1, <1>2, <1>3, <1>4, <1>5, <1>6 DEF PhyC!Table

\* IEEE 802.15.4: the classes without exceptions.
LEMMA DotOrdinaryClasses ==
  ASSUME NEW cls \in DOMAIN ClassTables["dot15d4"],
         cls \notin {"RawPduReceived", "SendRawPdu"}
  PROVE  ClassSound("dot15d4", cls, ClassTables["dot15d4"][cls])
<1> DEFINE c == ClassTables["dot15d4"][cls]
<1>1. /\ ClassTables["dot15d4"] = Dot15d4C!Table
      /\ Tables["dot15d4"] = Dot15d4!Table /\ "dot15d4" \in DOMAIN Tables
  BY DEF ClassTables, Tables
<1>2. ASSUME cls \in {"CoordMode", "EndDeviceMode", "JamMode", "Jammed", "MitmMode",
                        "EnergyDetect", "EnergySample", "PduReceived"}
      PROVE  ClassSound("dot15d4", cls, c)
  <2> DEFINE messages == {"coordinator", "end_device", "jam", "jammed", "mitm", "ed",
                               "ed_sample", "pdu"}
  <2>1. \E msg \in messages : c = Dot15d4C!Class(msg)
    BY <1>1, <1>2 DEF Dot15d4C!Table, Dot15d4C!CoordMode, Dot15d4C!EndDeviceMode,
     Dot15d4C!JamMode, Dot15d4C!Jammed, Dot15d4C!MitmMode, Dot15d4C!EnergyDetect,
     Dot15d4C!EnergySample, Dot15d4C!PduReceived
  <2>2. \A msg : LET k == Dot15d4C!Class(msg) IN Ordinary(k, msg) /\ k.reads = "parse"
    BY DEF Ordinary, Dot15d4C!Class
  <2>3. messages \subseteq DOMAIN Dot15d4!Table
    BY DEF Dot15d4!Table
  <2>4. /\ <<"dot15d4", cls>> \notin Strange
        /\ \A msg \in messages : <<"dot15d4", msg>> \notin Doubtful \cup Renamed \cup Unlimited
    BY <1>2 DEF Strange, Doubtful, Renamed, Unlimited, Of
  <2> HIDE DEF messages, c
  <2> QED BY <1>1, <2>1, <2>2, <2>3, <2>4, OrdinarySound
<1>3. ASSUME cls \in {"RouterMode", "SendPdu", "SetNodeAddress", "SniffMode"}
      PROVE  ClassSound("dot15d4", cls, c)
  <2> DEFINE messages == {"router", "send", "set_node_addr", "sniff"}
  <2>1. \E msg \in messages : c = Dot15d4C!Class(msg)
    BY <1>1, <1>3 DEF Dot15d4C!Table, Dot15d4C!RouterMode, Dot15d4C!SendPdu,
     Dot15d4C!SetNodeAddress, Dot15d4C!SniffMode
  <2>2. \A msg : LET k == Dot15d4C!Class(msg) IN Ordinary(k, msg) /\ k.reads = "parse"
    BY DEF Ordinary, Dot15d4C!Class
  <2>3. messages \subseteq DOMAIN Dot15d4!Table
    BY DEF Dot15d4!Table
  <2>4. /\ <<"dot15d4", cls>> \notin Strange
        /\ \A msg \in messages : <<"dot15d4", msg>> \notin Doubtful \cup Renamed \cup Unlimited
    BY <1>3 DEF Strange, Doubtful, Renamed, Unlimited, Of
  <2> HIDE DEF messages, c
  <2> QED BY <1>1, <2>1, <2>2, <2>3, <2>4, OrdinarySound
<1> QED BY <1>1, <1>2, <1>3 DEF Dot15d4C!Table

\* Enhanced ShockBurst: the classes without exceptions.
LEMMA EsbOrdinaryClasses ==
  ASSUME NEW cls \in DOMAIN ClassTables["esb"],
         cls \notin {"RawPacketReceived", "PacketReceived", "SendPacket"}
  PROVE  ClassSound("esb", cls, ClassTables["esb"][cls])
<1> DEFINE c == ClassTables["esb"][cls]
<1>1. /\ ClassTables["esb"] = EsbC!Table
      /\ Tables["esb"] = Esb!Table /\ "esb" \in DOMAIN Tables
  BY DEF ClassTables, Tables
<1>2. ASSUME cls \in {"JamMode", "Jammed", "PrxMode", "PtxMode", "SendPacketRaw",
                        "SetNodeAddress", "SniffMode"}
      PROVE  ClassSound("esb", cls, c)
  <2> DEFINE messages == {"jam", "jammed", "prx", "ptx", "send_raw", "set_node_addr", "sniff"}
  <2>1. \E msg \in messages : c = EsbC!Class(msg)
    BY <1>1, <1>2 DEF EsbC!Table, EsbC!JamMode, EsbC!Jammed, EsbC!PrxMode, EsbC!PtxMode,
     EsbC!SendPacketRaw, EsbC!SetNodeAddress, EsbC!SniffMode
  <2>2. \A msg : LET k == EsbC!Class(msg) IN Ordinary(k, msg) /\ k.reads = "parse"
    BY DEF Ordinary, EsbC!Class
  <2>3. messages \subseteq DOMAIN Esb!Table
    BY DEF Esb!Table
  <2>4. /\ <<"esb", cls>> \notin Strange
        /\ \A msg \in messages : <<"esb", msg>> \notin Doubtful \cup Renamed \cup Unlimited
    BY <1>2 DEF Strange, Doubtful, Renamed, Unlimited, Of
  <2> HIDE DEF messages, c
  <2> QED BY <1>1, <2>1, <2>2, <2>3, <2>4, OrdinarySound
<1>3. ASSUME cls \in {"Start", "Stop"}
      PROVE  ClassSound("esb", cls, c)
  <2> DEFINE messages == {"start", "stop"}
  <2>1. \E msg \in messages : c = EsbC!Signal(msg)
    BY <1>1, <1>3 DEF EsbC!Table, EsbC!Start, EsbC!Stop
  <2>2. \A msg : LET k == EsbC!Signal(msg) IN Ordinary(k, msg) /\ k.reads = "none"
    BY DEF Ordinary, EsbC!Signal, EsbC!Class
  <2>3. messages \subseteq DOMAIN Esb!Table
    BY DEF Esb!Table
  <2>4. /\ <<"esb", cls>> \notin Strange
        /\ \A msg \in messages : <<"esb", msg>> \notin Doubtful \cup Renamed \cup Unlimited
    BY <1>3 DEF Strange, Doubtful, Renamed, Unlimited, Of
  <2>5. \A msg \in messages : DOMAIN Esb!Table[msg].fields = {}
    BY DEF Esb!Table, Esb!Message, Esb!Command, Esb!Start, Esb!Stop
  <2> HIDE DEF messages, c
  <2> QED BY <1>1, <2>1, <2>2, <2>3, <2>4, <2>5, OrdinarySound
<1> QED BY <1>1, <1>2, <1>3 DEF EsbC!Table

\* Logitech Unifying: the classes without exceptions.
LEMMA UnifyingOrdinaryClasses ==
  ASSUME NEW cls \in DOMAIN ClassTables["unifying"],
         cls \notin {"Jammed", "PduReceived", "RawPduReceived"}
  PROVE  ClassSound("unifying", cls, ClassTables["unifying"][cls])
<1> DEFINE c == ClassTables["unifying"][cls]
<1>1. /\ ClassTables["unifying"] = UnifyingC!Table
      /\ Tables["unifying"] = Unifying!Table /\ "unifying" \in DOMAIN Tables
  BY DEF ClassTables, Tables
<1>2. ASSUME cls \in {"DongleMode", "JamMode", "KeyboardMode", "MouseMode", "SendPdu",
                        "SendRawPdu", "SetNodeAddress", "SniffMode"}
      PROVE  ClassSound("unifying", cls, c)
  <2> DEFINE messages == {"dongle", "jam", "keyboard", "mouse", "send", "send_raw",
                               "set_node_addr", "sniff"}
  <2>1. \E msg \in messages : c = UnifyingC!Class(msg)
    BY <1>1, <1>2 DEF UnifyingC!Table, UnifyingC!DongleMode, UnifyingC!JamMode,
     UnifyingC!KeyboardMode, UnifyingC!MouseMode, UnifyingC!SendPdu, UnifyingC!SendRawPdu,
     UnifyingC!SetNodeAddress, UnifyingC!SniffMode
  <2>2. \A msg : LET k == UnifyingC!Class(msg) IN Ordinary(k, msg) /\ k.reads = "parse"
    BY DEF Ordinary, UnifyingC!Class
  <2>3. messages \subseteq DOMAIN Unifying!Table
    BY DEF Unifying!Table
  <2>4. /\ <<"unifying", cls>> \notin Strange
        /\ \A msg \in messages : <<"unifying", msg>> \notin Doubtful \cup Renamed \cup Unlimited
    BY <1>2 DEF Strange, Doubtful, Renamed, Unlimited, Of
  <2> HIDE DEF messages, c
  <2> QED BY <1>1, <2>1, <2>2, <2>3, <2>4, OrdinarySound
<1> QED BY <1>1, <1>2 DEF UnifyingC!Table

\* The board: the classes without exceptions.
LEMMA BoardOrdinaryClasses ==
  ASSUME NEW cls \in DOMAIN ClassTables["board"]
  PROVE  ClassSound("board", cls, ClassTables["board"][cls])
<1> DEFINE c == ClassTables["board"][cls]
<1>1. /\ ClassTables["board"] = BoardC!Table
      /\ Tables["board"] = Board!Table /\ "board" \in DOMAIN Tables
  BY DEF ClassTables, Tables
<1>2. ASSUME cls \in {"AdcRead", "AdcValue", "AudioChunk", "AudioConfigure", "AudioConfigured",
                        "BoardInfo", "BoardStatus", "Calibrate", "Calibration", "CommandResult"}
      PROVE  ClassSound("board", cls, c)
  <2> DEFINE messages == {"adc_read", "adc_value", "audio_chunk", "audio_configure",
                               "audio_configured", "board_info", "board_status", "calibrate",
                               "calibration", "command_result"}
  <2>1. \E msg \in messages : c = BoardC!BoardClass(msg)
    BY <1>1, <1>2 DEF BoardC!Table, BoardC!AdcRead, BoardC!AdcValue, BoardC!AudioChunk,
     BoardC!AudioConfigure, BoardC!AudioConfigured, BoardC!BoardInfo, BoardC!BoardStatus,
     BoardC!Calibrate, BoardC!Calibration, BoardC!CommandResult
  <2>2. \A msg : LET k == BoardC!BoardClass(msg) IN Ordinary(k, msg) /\ k.reads = "parse"
    BY DEF Ordinary, BoardC!BoardClass, BoardC!Class
  <2>3. messages \subseteq DOMAIN Board!Table
    BY DEF Board!Table, Board!Also, Board!Validated, Board!ValidatedOk
  <2>4. /\ <<"board", cls>> \notin Strange
        /\ \A msg \in messages : <<"board", msg>> \notin Doubtful \cup Renamed \cup Unlimited
    BY <1>2 DEF Strange, Doubtful, Renamed, Unlimited, Of
  <2> HIDE DEF messages, c
  <2> QED BY <1>1, <2>1, <2>2, <2>3, <2>4, OrdinarySound
<1>3. ASSUME cls \in {"ConfigureInput", "ConfigureStream", "GestureEvent", "GetBoardInfo",
                        "GetCalibration", "GetInputState", "GetRuntimeConfig", "GpioConfigure",
                        "GpioConfigured", "GpioRead"}
      PROVE  ClassSound("board", cls, c)
  <2> DEFINE messages == {"configure_input", "configure_stream", "gesture_event",
                               "get_board_info", "get_calibration", "get_input_state",
                               "get_runtime_config", "gpio_configure", "gpio_configured",
                               "gpio_read"}
  <2>1. \E msg \in messages : c = BoardC!BoardClass(msg)
    BY <1>1, <1>3 DEF BoardC!Table, BoardC!ConfigureInput, BoardC!ConfigureStream,
     BoardC!GestureEvent, BoardC!GetBoardInfo, BoardC!GetCalibration, BoardC!GetInputState,
     BoardC!GetRuntimeConfig, BoardC!GpioConfigure, BoardC!GpioConfigured, BoardC!GpioRead
  <2>2. \A msg : LET k == BoardC!BoardClass(msg) IN Ordinary(k, msg) /\ k.reads = "parse"
    BY DEF Ordinary, BoardC!BoardClass, BoardC!Class
  <2>3. messages \subseteq DOMAIN Board!Table
    BY DEF Board!Table, Board!Also, Board!Validated, Board!ValidatedOk
  <2>4. /\ <<"board", cls>> \notin Strange
        /\ \A msg \in messages : <<"board", msg>> \notin Doubtful \cup Renamed \cup Unlimited
    BY <1>3 DEF Strange, Doubtful, Renamed, Unlimited, Of
  <2> HIDE DEF messages, c
  <2> QED BY <1>1, <2>1, <2>2, <2>3, <2>4, OrdinarySound
<1>4. ASSUME cls \in {"GpioValue", "GpioWrite", "I2cResult", "I2cTransfer", "InputEvent",
                        "InputState", "ListSensors", "LogChunk", "RawPcmDiagnostics",
                        "ReadSensor"}
      PROVE  ClassSound("board", cls, c)
  <2> DEFINE messages == {"gpio_value", "gpio_write", "i2c_result", "i2c_transfer",
                               "input_event", "input_state", "list_sensors", "log_chunk",
                               "raw_pcm_diagnostics", "read_sensor"}
  <2>1. \E msg \in messages : c = BoardC!BoardClass(msg)
    BY <1>1, <1>4 DEF BoardC!Table, BoardC!GpioValue, BoardC!GpioWrite, BoardC!I2cResult,
     BoardC!I2cTransfer, BoardC!InputEvent, BoardC!InputState, BoardC!ListSensors,
     BoardC!LogChunk, BoardC!RawPcmDiagnostics, BoardC!ReadSensor
  <2>2. \A msg : LET k == BoardC!BoardClass(msg) IN Ordinary(k, msg) /\ k.reads = "parse"
    BY DEF Ordinary, BoardC!BoardClass, BoardC!Class
  <2>3. messages \subseteq DOMAIN Board!Table
    BY DEF Board!Table, Board!Also, Board!Validated, Board!ValidatedOk
  <2>4. /\ <<"board", cls>> \notin Strange
        /\ \A msg \in messages : <<"board", msg>> \notin Doubtful \cup Renamed \cup Unlimited
    BY <1>4 DEF Strange, Doubtful, Renamed, Unlimited, Of
  <2> HIDE DEF messages, c
  <2> QED BY <1>1, <2>1, <2>2, <2>3, <2>4, OrdinarySound
<1>5. ASSUME cls \in {"ReleasePin", "RemoteProfile", "RemoteProfileGet", "RemoteProfileSet",
                        "RuntimeConfig", "SensorDescriptor", "SensorSample", "SetOutput",
                        "SetRuntimeConfig", "SetRuntimeMode"}
      PROVE  ClassSound("board", cls, c)
  <2> DEFINE messages == {"release_pin", "remote_profile", "remote_profile_get",
                               "remote_profile_set", "runtime_config", "sensor_descriptor",
                               "sensor_sample", "set_output", "set_runtime_config",
                               "set_runtime_mode"}
  <2>1. \E msg \in messages : c = BoardC!BoardClass(msg)
    BY <1>1, <1>5 DEF BoardC!Table, BoardC!ReleasePin, BoardC!RemoteProfile,
     BoardC!RemoteProfileGet, BoardC!RemoteProfileSet, BoardC!RuntimeConfig,
     BoardC!SensorDescriptor, BoardC!SensorSample, BoardC!SetOutput, BoardC!SetRuntimeConfig,
     BoardC!SetRuntimeMode
  <2>2. \A msg : LET k == BoardC!BoardClass(msg) IN Ordinary(k, msg) /\ k.reads = "parse"
    BY DEF Ordinary, BoardC!BoardClass, BoardC!Class
  <2>3. messages \subseteq DOMAIN Board!Table
    BY DEF Board!Table, Board!Also, Board!Validated, Board!ValidatedOk
  <2>4. /\ <<"board", cls>> \notin Strange
        /\ \A msg \in messages : <<"board", msg>> \notin Doubtful \cup Renamed \cup Unlimited
    BY <1>5 DEF Strange, Doubtful, Renamed, Unlimited, Of
  <2> HIDE DEF messages, c
  <2> QED BY <1>1, <2>1, <2>2, <2>3, <2>4, OrdinarySound
<1>6. ASSUME cls \in {"SpiResult", "SpiTransfer", "StopStream", "StorageAdopt",
                        "StorageEraseLog", "StorageInfo", "StorageReadLog", "StorageStatus",
                        "StreamConfigured"}
      PROVE  ClassSound("board", cls, c)
  <2> DEFINE messages == {"spi_result", "spi_transfer", "stop_stream", "storage_adopt",
                               "storage_erase_log", "storage_info", "storage_read_log",
                               "storage_status", "stream_configured"}
  <2>1. \E msg \in messages : c = BoardC!BoardClass(msg)
    BY <1>1, <1>6 DEF BoardC!Table, BoardC!SpiResult, BoardC!SpiTransfer, BoardC!StopStream,
     BoardC!StorageAdopt, BoardC!StorageEraseLog, BoardC!StorageInfo, BoardC!StorageReadLog,
     BoardC!StorageStatus, BoardC!StreamConfigured
  <2>2. \A msg : LET k == BoardC!BoardClass(msg) IN Ordinary(k, msg) /\ k.reads = "parse"
    BY DEF Ordinary, BoardC!BoardClass, BoardC!Class
  <2>3. messages \subseteq DOMAIN Board!Table
    BY DEF Board!Table, Board!Also, Board!Validated, Board!ValidatedOk
  <2>4. /\ <<"board", cls>> \notin Strange
        /\ \A msg \in messages : <<"board", msg>> \notin Doubtful \cup Renamed \cup Unlimited
    BY <1>6 DEF Strange, Doubtful, Renamed, Unlimited, Of
  <2> HIDE DEF messages, c
  <2> QED BY <1>1, <2>1, <2>2, <2>3, <2>4, OrdinarySound
<1> QED BY <1>1, <1>2, <1>3, <1>4, <1>5, <1>6 DEF BoardC!Table

\* And those with exceptions.
LEMMA CoreOtherClasses ==
  ASSUME NEW cls \in DOMAIN ClassTables["core"]
  PROVE  ClassSound("core", cls, ClassTables["core"][cls])
<1> DEFINE c == ClassTables["core"][cls]
           m == Tables["core"][c.msg]
<1>1. /\ ClassTables["core"] = CoreC!Table
      /\ Tables["core"] = Core!Table /\ "core" \in DOMAIN Tables
  BY DEF ClassTables, Tables
<1> SUFFICES ClassSound("core", cls, c)
  OBVIOUS
<1> HIDE DEF m
<1>2. CASE cls = "DeviceInfoResp"
  <2>1. /\ c.msg = "info_resp" /\ c.packer = "info_resp" /\ DOMAIN c.onto = {} /\ ~c.packs
        /\ c.again = {"info_resp"} /\ c.direct /\ ~c.loose /\ c.given = {} /\ c.nulls = {}
        /\ c.long = "kept" /\ c.reads = "absent" /\ c.forgets = {} /\ ~c.strict
    <3>1. c = CoreC!DeviceInfoResp
      BY <1>1, <1>2 DEF CoreC!Table
    <3> HIDE DEF c
    <3> QED BY <3>1 DEF CoreC!DeviceInfoResp, CoreC!Immediate, CoreC!Class
  <2>2. {"info_resp"} \subseteq DOMAIN Core!Table
    BY DEF Core!Table
  <2>3. /\ <<"core", cls>> \notin Strange \cup Retyping \cup Unasked \cup Blind
        /\ <<"core", "info_resp">> \in Unlimited
        /\ <<"core", "info_resp">> \notin Doubtful \cup Renamed \cup HalfBuilt
    BY <1>2, <2>1 DEF Strange, Retyping, Unasked, Blind, Doubtful, Renamed, Unlimited,
       HalfBuilt, Unheard, Uncounted, Of
  <2> HIDE DEF c
  <2>4. m.tag = "info_resp" /\ \A x \in DOMAIN m.fields : m.fields[x].fails = {}
    BY <1>1, <2>1, <2>2, <2>3, MessageFacts DEF m
  <2> QED BY <1>1, <2>1, <2>2, <2>3, <2>4, DoubtfulFirst DEF ClassSound, m
<1>3. CASE cls = "DomainInfoResp"
  <2>1. /\ c.msg = "domain_resp" /\ c.packer = "domain_resp" /\ DOMAIN c.onto = {} /\ ~c.packs
        /\ c.again = {"domain_resp"} /\ c.direct /\ ~c.loose /\ c.given = {} /\ c.nulls = {}
        /\ c.long = "kept" /\ c.reads = "absent" /\ c.forgets = {} /\ ~c.strict
    <3>1. c = CoreC!DomainInfoResp
      BY <1>1, <1>3 DEF CoreC!Table
    <3> HIDE DEF c
    <3> QED BY <3>1 DEF CoreC!DomainInfoResp, CoreC!Immediate, CoreC!Class
  <2>2. {"domain_resp"} \subseteq DOMAIN Core!Table
    BY DEF Core!Table
  <2>3. /\ <<"core", cls>> \notin Strange \cup Retyping \cup Unasked \cup Blind
        /\ <<"core", "domain_resp">> \notin Doubtful \cup Renamed \cup Unlimited \cup HalfBuilt
    BY <1>3, <2>1 DEF Strange, Retyping, Unasked, Blind, Doubtful, Renamed, Unlimited,
       HalfBuilt, Unheard, Uncounted, Of
  <2> HIDE DEF c
  <2>4. m.tag = "domain_resp" /\ \A x \in DOMAIN m.fields :
        Steady("core", "domain_resp", x, m.fields[x]) /\ m.fields[x].fails = {}
    BY <1>1, <2>1, <2>2, <2>3, MessageFacts DEF m
  <2> QED BY <1>1, <2>1, <2>2, <2>3, <2>4, DoubtfulFirst DEF ClassSound, m
<1> QED BY <1>2, <1>3, CoreOrdinaryClasses

\* And those with exceptions.
LEMMA BleOtherClasses ==
  ASSUME NEW cls \in DOMAIN ClassTables["ble"]
  PROVE  ClassSound("ble", cls, ClassTables["ble"][cls])
<1> DEFINE c == ClassTables["ble"][cls]
           m == Tables["ble"][c.msg]
<1>1. /\ ClassTables["ble"] = BleC!Table
      /\ Tables["ble"] = Ble!Table /\ "ble" \in DOMAIN Tables
  BY DEF ClassTables, Tables
<1> SUFFICES ClassSound("ble", cls, c)
  OBVIOUS
<1> HIDE DEF m
<1>2. CASE cls = "AdvMode"
  <2>1. /\ c.msg = "adv_mode" /\ c.packer = "adv_mode" /\ DOMAIN c.onto = {} /\ c.packs
        /\ c.again = {"adv_mode"} /\ ~c.direct /\ ~c.loose /\ c.given = {} /\ c.nulls = {}
        /\ c.long = "emptied" /\ c.reads = "parse" /\ c.forgets = {} /\ ~c.strict
    <3>1. c = BleC!AdvMode
      BY <1>1, <1>2 DEF BleC!Table
    <3> HIDE DEF c
    <3> QED BY <3>1 DEF BleC!AdvMode, BleC!Class
  <2>2. {"adv_mode"} \subseteq DOMAIN Ble!Table
    BY DEF Ble!Table
  <2>3. /\ <<"ble", cls>> \notin Strange \cup Retyping \cup Unasked \cup Blind
        /\ <<"ble", "adv_mode">> \notin Doubtful \cup Renamed \cup Unlimited \cup HalfBuilt
    BY <1>2, <2>1 DEF Strange, Retyping, Unasked, Blind, Doubtful, Renamed, Unlimited,
       HalfBuilt, Unheard, Uncounted, Of
  <2>4. \A x \in DOMAIN m.fields : /\ x # "none" /\ m.fields[x].refuses = {}
                                   /\ <<"ble", <<cls, x>>>> \in Shortened
    <3>1. \A x \in {"adv_data", "scanrsp_data"} : <<"ble", <<cls, x>>>> \in Shortened
      BY <1>2 DEF Shortened, Of
    <3> QED BY <1>1, <2>1, <3>1, BleModes DEF m
  <2> HIDE DEF c
  <2>5. m.tag = "adv_mode" /\ \A x \in DOMAIN m.fields :
        Steady("ble", "adv_mode", x, m.fields[x]) /\ m.fields[x].fails = {}
    BY <1>1, <2>1, <2>2, <2>3, MessageFacts DEF m
  <2> QED BY <1>1, <2>1, <2>2, <2>3, <2>4, <2>5, DoubtfulFirst DEF ClassSound, m
<1>3. CASE cls = "PeripheralMode"
  <2>1. /\ c.msg = "periph_mode" /\ c.packer = "periph_mode" /\ DOMAIN c.onto = {} /\ c.packs
        /\ c.again = {"periph_mode"} /\ ~c.direct /\ ~c.loose /\ c.given = {} /\ c.nulls = {}
        /\ c.long = "zeroed" /\ c.reads = "parse" /\ c.forgets = {} /\ ~c.strict
    <3>1. c = BleC!PeripheralMode
      BY <1>1, <1>3 DEF BleC!Table
    <3> HIDE DEF c
    <3> QED BY <3>1 DEF BleC!PeripheralMode, BleC!Class
  <2>2. {"periph_mode"} \subseteq DOMAIN Ble!Table
    BY DEF Ble!Table
  <2>3. /\ <<"ble", cls>> \notin Strange \cup Retyping \cup Unasked \cup Blind
        /\ <<"ble", "periph_mode">> \notin Doubtful \cup Renamed \cup Unlimited \cup HalfBuilt
    BY <1>3, <2>1 DEF Strange, Retyping, Unasked, Blind, Doubtful, Renamed, Unlimited,
       HalfBuilt, Unheard, Uncounted, Of
  <2>4. \A x \in DOMAIN m.fields : /\ x # "none" /\ m.fields[x].refuses = {}
                                   /\ <<"ble", <<cls, x>>>> \in Shortened
    <3>1. \A x \in {"adv_data", "scanrsp_data"} : <<"ble", <<cls, x>>>> \in Shortened
      BY <1>3 DEF Shortened, Of
    <3> QED BY <1>1, <2>1, <3>1, BleModes DEF m
  <2> HIDE DEF c
  <2>5. m.tag = "periph_mode" /\ \A x \in DOMAIN m.fields :
        Steady("ble", "periph_mode", x, m.fields[x]) /\ m.fields[x].fails = {}
    BY <1>1, <2>1, <2>2, <2>3, MessageFacts DEF m
  <2> QED BY <1>1, <2>1, <2>2, <2>3, <2>4, <2>5, DoubtfulFirst DEF ClassSound, m
<1>4. CASE cls = "ConnectTo"
  <2>1. /\ c.msg = "connect" /\ c.packer = "connect" /\ DOMAIN c.onto = {} /\ c.packs
        /\ c.again = {"connect"} /\ ~c.direct /\ ~c.loose /\ c.given = {"channel_map"}
        /\ c.nulls = {} /\ c.long = "kept" /\ c.reads = "parse" /\ c.forgets = {} /\ ~c.strict
    <3>1. c = BleC!ConnectTo
      BY <1>1, <1>4 DEF BleC!Table
    <3> HIDE DEF c
    <3> QED BY <3>1 DEF BleC!ConnectTo, BleC!Class
  <2>2. {"connect"} \subseteq DOMAIN Ble!Table
    BY DEF Ble!Table
  <2>3. /\ <<"ble", cls>> \notin Strange \cup Retyping \cup Unasked \cup Blind
        /\ <<"ble", "connect">> \notin Doubtful \cup Renamed \cup Unlimited \cup HalfBuilt
        /\ \A x \in c.given : <<"ble", <<cls, x>>>> \in Changed
    BY <1>4, <2>1 DEF Strange, Retyping, Unasked, Blind, Doubtful, Renamed, Unlimited,
       HalfBuilt, Unheard, Uncounted, Changed, Of
  <2> HIDE DEF c
  <2>4. m.tag = "connect" /\ \A x \in DOMAIN m.fields :
        Steady("ble", "connect", x, m.fields[x]) /\ m.fields[x].fails = {}
    BY <1>1, <2>1, <2>2, <2>3, MessageFacts DEF m
  <2> QED BY <1>1, <2>1, <2>2, <2>3, <2>4, DoubtfulFirst DEF ClassSound, m
<1>5. CASE cls = "Hijacked"
  <2>1. /\ c.msg = "hijacked" /\ c.packer = "hijacked" /\ DOMAIN c.onto = {} /\ c.packs
        /\ c.again = {"hijacked"} /\ ~c.direct /\ ~c.loose /\ c.given = {} /\ c.nulls = {}
        /\ c.long = "kept" /\ c.reads = "none" /\ c.forgets = {} /\ ~c.strict
    <3>1. c = BleC!Hijacked
      BY <1>1, <1>5 DEF BleC!Table
    <3> HIDE DEF c
    <3> QED BY <3>1 DEF BleC!Hijacked, BleC!Class
  <2>2. {"hijacked"} \subseteq DOMAIN Ble!Table
    BY DEF Ble!Table
  <2>3. /\ <<"ble", cls>> \in Blind
        /\ <<"ble", cls>> \notin Strange \cup Retyping \cup Unasked
        /\ <<"ble", "hijacked">> \notin Doubtful \cup Renamed \cup Unlimited \cup HalfBuilt
    BY <1>5, <2>1 DEF Strange, Retyping, Unasked, Blind, Doubtful, Renamed, Unlimited,
       HalfBuilt, Unheard, Uncounted, Of
  <2> HIDE DEF c
  <2>4. m.tag = "hijacked" /\ \A x \in DOMAIN m.fields :
        Steady("ble", "hijacked", x, m.fields[x]) /\ m.fields[x].fails = {}
    BY <1>1, <2>1, <2>2, <2>3, MessageFacts DEF m
  <2> QED BY <1>1, <2>1, <2>2, <2>3, <2>4, DoubtfulFirst DEF ClassSound, m
<1>6. CASE cls = "JamActiveConn"
  <2>1. /\ c.msg = "jam_conn" /\ c.packer = "jam_conn" /\ DOMAIN c.onto = {} /\ c.packs
        /\ c.again = {"jam_conn"} /\ ~c.direct /\ ~c.loose /\ c.given = {} /\ c.nulls = {}
        /\ c.long = "kept" /\ c.reads = "none" /\ c.forgets = {} /\ ~c.strict
    <3>1. c = BleC!JamActiveConn
      BY <1>1, <1>6 DEF BleC!Table
    <3> HIDE DEF c
    <3> QED BY <3>1 DEF BleC!JamActiveConn, BleC!Class
  <2>2. {"jam_conn"} \subseteq DOMAIN Ble!Table
    BY DEF Ble!Table
  <2>3. /\ <<"ble", cls>> \in Blind
        /\ <<"ble", cls>> \notin Strange \cup Retyping \cup Unasked
        /\ <<"ble", "jam_conn">> \notin Doubtful \cup Renamed \cup Unlimited \cup HalfBuilt
    BY <1>6, <2>1 DEF Strange, Retyping, Unasked, Blind, Doubtful, Renamed, Unlimited,
       HalfBuilt, Unheard, Uncounted, Of
  <2> HIDE DEF c
  <2>4. m.tag = "jam_conn" /\ \A x \in DOMAIN m.fields :
        Steady("ble", "jam_conn", x, m.fields[x]) /\ m.fields[x].fails = {}
    BY <1>1, <2>1, <2>2, <2>3, MessageFacts DEF m
  <2> QED BY <1>1, <2>1, <2>2, <2>3, <2>4, DoubtfulFirst DEF ClassSound, m
<1>7. CASE cls = "JamAdv"
  <2>1. /\ c.msg = "jam_adv" /\ c.packer = "jam_adv" /\ DOMAIN c.onto = {} /\ c.packs
        /\ c.again = {"jam_adv", "jam_adv_chan"} /\ ~c.direct /\ ~c.loose /\ c.given = {}
        /\ c.nulls = {} /\ c.long = "kept" /\ c.reads = "parse" /\ c.forgets = {} /\ ~c.strict
    <3>1. c = BleC!JamAdv
      BY <1>1, <1>7 DEF BleC!Table
    <3> HIDE DEF c
    <3> QED BY <3>1 DEF BleC!JamAdv, BleC!Class
  <2>2. {"jam_adv", "jam_adv_chan"} \subseteq DOMAIN Ble!Table
    BY DEF Ble!Table
  <2>3. /\ <<"ble", cls>> \in Retyping
        /\ <<"ble", cls>> \notin Strange \cup Unasked \cup Blind
        /\ <<"ble", "jam_adv">> \notin Doubtful \cup Renamed \cup Unlimited \cup HalfBuilt
    BY <1>7, <2>1 DEF Strange, Retyping, Unasked, Blind, Doubtful, Renamed, Unlimited,
       HalfBuilt, Unheard, Uncounted, Of
  <2> HIDE DEF c
  <2>4. m.tag = "jam_adv" /\ \A x \in DOMAIN m.fields :
        Steady("ble", "jam_adv", x, m.fields[x]) /\ m.fields[x].fails = {}
    BY <1>1, <2>1, <2>2, <2>3, MessageFacts DEF m
  <2> QED BY <1>1, <2>1, <2>2, <2>3, <2>4, DoubtfulFirst DEF ClassSound, m
<1>8. CASE cls = "JamAdvChannel"
  <2>1. /\ c.msg = "jam_adv_chan" /\ c.packer = "jam_adv_chan" /\ DOMAIN c.onto = {} /\ c.packs
        /\ c.again = {"jam_adv", "jam_adv_chan"} /\ ~c.direct /\ ~c.loose /\ c.given = {}
        /\ c.nulls = {} /\ c.long = "kept" /\ c.reads = "parse" /\ c.forgets = {} /\ ~c.strict
    <3>1. c = BleC!JamAdvChannel
      BY <1>1, <1>8 DEF BleC!Table
    <3> HIDE DEF c
    <3> QED BY <3>1 DEF BleC!JamAdvChannel, BleC!Class
  <2>2. {"jam_adv_chan", "jam_adv"} \subseteq DOMAIN Ble!Table
    BY DEF Ble!Table
  <2>3. /\ <<"ble", cls>> \in Retyping
        /\ <<"ble", cls>> \notin Strange \cup Unasked \cup Blind
        /\ <<"ble", "jam_adv_chan">> \notin Doubtful \cup Renamed \cup Unlimited \cup HalfBuilt
    BY <1>8, <2>1 DEF Strange, Retyping, Unasked, Blind, Doubtful, Renamed, Unlimited,
       HalfBuilt, Unheard, Uncounted, Of
  <2> HIDE DEF c
  <2>4. m.tag = "jam_adv_chan" /\ \A x \in DOMAIN m.fields :
        Steady("ble", "jam_adv_chan", x, m.fields[x]) /\ m.fields[x].fails = {}
    BY <1>1, <2>1, <2>2, <2>3, MessageFacts DEF m
  <2> QED BY <1>1, <2>1, <2>2, <2>3, <2>4, DoubtfulFirst DEF ClassSound, m
<1>9. CASE cls = "ReactiveJam"
  <2>1. /\ c.msg = "reactive_jam" /\ c.packer = "reactive_jam" /\ DOMAIN c.onto = {} /\ c.packs
        /\ c.again = {"reactive_jam"} /\ ~c.direct /\ ~c.loose /\ c.given = {} /\ c.nulls = {}
        /\ c.long = "zeroed" /\ c.reads = "parse" /\ c.forgets = {} /\ ~c.strict
    <3>1. c = BleC!ReactiveJam
      BY <1>1, <1>9 DEF BleC!Table
    <3> HIDE DEF c
    <3> QED BY <3>1 DEF BleC!ReactiveJam, BleC!Class
  <2>2. {"reactive_jam"} \subseteq DOMAIN Ble!Table
    BY DEF Ble!Table
  <2>3. /\ <<"ble", cls>> \notin Strange \cup Retyping \cup Unasked \cup Blind
        /\ <<"ble", "reactive_jam">> \in Doubtful \cap HalfBuilt
        /\ <<"ble", "reactive_jam">> \notin Renamed \cup Unlimited
        /\ <<"ble", "reactive_jam">> \notin Unheard
        /\ \A x : <<"ble", <<"reactive_jam", x>>>> \notin Uncounted
    BY <1>9, <2>1 DEF Strange, Retyping, Unasked, Blind, Doubtful, Renamed, Unlimited,
       HalfBuilt, Unheard, Uncounted, Of
  <2>4. /\ TooLong(m) /\ "none" \notin DOMAIN m.fields /\ \A x \in DOMAIN m.fields :
             LET k == m.fields[x]
             IN  k.refuses = {} /\ (\/ "over" \notin k.lens /\ k.fails = {}
                                    \/ k.fails = {"over"} /\ ~k.opt /\ k.unless = "none")
    BY <1>1, <2>1, BleReactive DEF m
  <2> HIDE DEF c
  <2>5. m.tag = "reactive_jam" /\ \A x \in DOMAIN m.fields :
        Steady("ble", "reactive_jam", x, m.fields[x])
    BY <1>1, <2>1, <2>2, <2>3, MessageFacts DEF m
  <2> QED BY <1>1, <2>1, <2>2, <2>3, <2>4, <2>5 DEF ClassSound, m
<1>10. CASE cls = "PrepareSequenceManual"
  <2>1. /\ c.msg = "prepare_manual" /\ c.packer = "prepare_manual" /\ DOMAIN c.onto = {}
        /\ c.packs /\ c.again = {"prepare_manual"} /\ ~c.direct /\ ~c.loose /\ c.given = {}
        /\ c.nulls = {"packets"} /\ c.long = "kept" /\ c.reads = "parse" /\ c.forgets = {}
        /\ ~c.strict
    <3>1. c = BleC!PrepareSequenceManual
      BY <1>1, <1>10 DEF BleC!Table
    <3> HIDE DEF c
    <3> QED BY <3>1 DEF BleC!PrepareSequenceManual, BleC!Class
  <2>2. {"prepare_manual"} \subseteq DOMAIN Ble!Table
    BY DEF Ble!Table
  <2>3. /\ <<"ble", cls>> \in Unasked
        /\ <<"ble", cls>> \notin Strange \cup Retyping \cup Blind
        /\ <<"ble", "prepare_manual">> \in Doubtful \cap HalfBuilt
        /\ <<"ble", "prepare_manual">> \notin Renamed \cup Unlimited
        /\ <<"ble", "prepare_manual">> \notin Unheard
    BY <1>10, <2>1 DEF Strange, Retyping, Unasked, Blind, Doubtful, Renamed, Unlimited,
       HalfBuilt, Unheard, Uncounted, Of
  <2>4. \A x \in DOMAIN m.fields : <<"ble", <<"prepare_manual", x>>>> \in Uncounted =>
             LET k == m.fields[x]
             IN  /\ x \in c.nulls /\ ~k.strays /\ k.blank.len = "empty"
                 /\ \A s \in Size : "len" \notin k.reads[s]
    BY <1>1, <2>1, BleSequences DEF m
  <2> HIDE DEF c
  <2>5. m.tag = "prepare_manual" /\ \A x \in DOMAIN m.fields :
        Steady("ble", "prepare_manual", x, m.fields[x])
    BY <1>1, <2>1, <2>2, <2>3, MessageFacts DEF m
  <2> QED BY <1>1, <2>1, <2>2, <2>3, <2>4, <2>5 DEF ClassSound, m
<1>11. CASE cls = "PrepareSequenceConnEvt"
  <2>1. /\ c.msg = "prepare_connevt" /\ c.packer = "prepare_connevt" /\ DOMAIN c.onto = {}
        /\ c.packs /\ c.again = {"prepare_connevt"} /\ ~c.direct /\ ~c.loose /\ c.given = {}
        /\ c.nulls = {"packets"} /\ c.long = "kept" /\ c.reads = "parse" /\ c.forgets = {}
        /\ ~c.strict
    <3>1. c = BleC!PrepareSequenceConnEvt
      BY <1>1, <1>11 DEF BleC!Table
    <3> HIDE DEF c
    <3> QED BY <3>1 DEF BleC!PrepareSequenceConnEvt, BleC!Class
  <2>2. {"prepare_connevt"} \subseteq DOMAIN Ble!Table
    BY DEF Ble!Table
  <2>3. /\ <<"ble", cls>> \in Unasked
        /\ <<"ble", cls>> \notin Strange \cup Retyping \cup Blind
        /\ <<"ble", "prepare_connevt">> \in Doubtful \cap HalfBuilt
        /\ <<"ble", "prepare_connevt">> \notin Renamed \cup Unlimited
        /\ <<"ble", "prepare_connevt">> \notin Unheard
    BY <1>11, <2>1 DEF Strange, Retyping, Unasked, Blind, Doubtful, Renamed, Unlimited,
       HalfBuilt, Unheard, Uncounted, Of
  <2>4. \A x \in DOMAIN m.fields : <<"ble", <<"prepare_connevt", x>>>> \in Uncounted =>
             LET k == m.fields[x]
             IN  /\ x \in c.nulls /\ ~k.strays /\ k.blank.len = "empty"
                 /\ \A s \in Size : "len" \notin k.reads[s]
    BY <1>1, <2>1, BleSequences DEF m
  <2> HIDE DEF c
  <2>5. m.tag = "prepare_connevt" /\ \A x \in DOMAIN m.fields :
        Steady("ble", "prepare_connevt", x, m.fields[x])
    BY <1>1, <2>1, <2>2, <2>3, MessageFacts DEF m
  <2> QED BY <1>1, <2>1, <2>2, <2>3, <2>4, <2>5 DEF ClassSound, m
<1>12. CASE cls = "RawPdu"
  <2>1. /\ c.msg = "raw_pdu" /\ c.packer = "raw_pdu" /\ DOMAIN c.onto = {} /\ c.packs
        /\ c.again = {"raw_pdu"} /\ ~c.direct /\ ~c.loose /\ c.given = {"rssi"} /\ c.nulls = {}
        /\ c.long = "kept" /\ c.reads = "none" /\ c.forgets = {} /\ ~c.strict
    <3>1. c = BleC!RawPdu
      BY <1>1, <1>12 DEF BleC!Table
    <3> HIDE DEF c
    <3> QED BY <3>1 DEF BleC!RawPdu, BleC!Class
  <2>2. {"raw_pdu"} \subseteq DOMAIN Ble!Table
    BY DEF Ble!Table
  <2>3. /\ <<"ble", cls>> \in Blind
        /\ <<"ble", cls>> \notin Strange \cup Retyping \cup Unasked
        /\ <<"ble", "raw_pdu">> \notin Doubtful \cup Renamed \cup Unlimited \cup HalfBuilt
    BY <1>12, <2>1 DEF Strange, Retyping, Unasked, Blind, Doubtful, Renamed, Unlimited,
       HalfBuilt, Unheard, Uncounted, Changed, Of
  <2> HIDE DEF c
  <2>4. m.tag = "raw_pdu" /\ \A x \in DOMAIN m.fields :
        Steady("ble", "raw_pdu", x, m.fields[x]) /\ m.fields[x].fails = {}
    BY <1>1, <2>1, <2>2, <2>3, MessageFacts DEF m
  <2> QED BY <1>1, <2>1, <2>2, <2>3, <2>4, DoubtfulFirst DEF ClassSound, m
<1>13. CASE cls = "SetAdvData"
  <2>1. /\ c.msg = "set_adv_data" /\ c.packer = "set_adv_data" /\ DOMAIN c.onto = {} /\ c.packs
        /\ c.again = {"set_adv_data"} /\ c.direct /\ ~c.loose /\ c.given = {} /\ c.nulls = {}
        /\ c.long = "kept" /\ c.reads = "parse" /\ c.forgets = {} /\ ~c.strict
    <3>1. c = BleC!SetAdvData
      BY <1>1, <1>13 DEF BleC!Table
    <3> HIDE DEF c
    <3> QED BY <3>1 DEF BleC!SetAdvData, BleC!Class
  <2>2. {"set_adv_data"} \subseteq DOMAIN Ble!Table
    BY DEF Ble!Table
  <2>3. /\ <<"ble", cls>> \in Unasked
        /\ <<"ble", cls>> \notin Strange \cup Retyping \cup Blind
        /\ <<"ble", "set_adv_data">> \in Doubtful \cap HalfBuilt
        /\ <<"ble", "set_adv_data">> \notin Renamed \cup Unlimited
        /\ <<"ble", "set_adv_data">> \notin Unheard
        /\ \A x : <<"ble", <<"set_adv_data", x>>>> \notin Uncounted
    BY <1>13, <2>1 DEF Strange, Retyping, Unasked, Blind, Doubtful, Renamed, Unlimited,
       HalfBuilt, Unheard, Uncounted, Of
  <2>4. Hopeless(m)
    BY <1>1, <2>1, BleUnset DEF m
  <2> HIDE DEF c
  <2>5. m.tag = "set_adv_data" /\ \A x \in DOMAIN m.fields :
        Steady("ble", "set_adv_data", x, m.fields[x])
    BY <1>1, <2>1, <2>2, <2>3, MessageFacts DEF m
  <2> QED BY <1>1, <2>1, <2>2, <2>3, <2>4, <2>5 DEF ClassSound, m
<1>14. CASE cls = "SetBdAddress"
  <2>1. /\ c.msg = "set_bd_addr" /\ c.packer = "set_bd_addr" /\ DOMAIN c.onto = {} /\ ~c.packs
        /\ c.again = {"set_bd_addr"} /\ c.direct /\ ~c.loose /\ c.given = {} /\ c.nulls = {}
        /\ c.long = "kept" /\ c.reads = "parse" /\ c.forgets = {} /\ ~c.strict
    <3>1. c = BleC!SetBdAddress
      BY <1>1, <1>14 DEF BleC!Table
    <3> HIDE DEF c
    <3> QED BY <3>1 DEF BleC!SetBdAddress, BleC!Immediate, BleC!Class
  <2>2. {"set_bd_addr"} \subseteq DOMAIN Ble!Table
    BY DEF Ble!Table
  <2>3. /\ <<"ble", cls>> \notin Strange \cup Retyping \cup Unasked \cup Blind
        /\ <<"ble", "set_bd_addr">> \notin Doubtful \cup Renamed \cup Unlimited \cup HalfBuilt
    BY <1>14, <2>1 DEF Strange, Retyping, Unasked, Blind, Doubtful, Renamed, Unlimited,
       HalfBuilt, Unheard, Uncounted, Of
  <2> HIDE DEF c
  <2>4. m.tag = "set_bd_addr" /\ \A x \in DOMAIN m.fields :
        Steady("ble", "set_bd_addr", x, m.fields[x]) /\ m.fields[x].fails = {}
    BY <1>1, <2>1, <2>2, <2>3, MessageFacts DEF m
  <2> QED BY <1>1, <2>1, <2>2, <2>3, <2>4, DoubtfulFirst DEF ClassSound, m
<1>15. CASE cls = "SetEncryption"
  <2>1. /\ c.msg = "encryption" /\ c.packer = "encryption" /\ DOMAIN c.onto = {} /\ c.packs
        /\ c.again = {"encryption"} /\ ~c.direct /\ ~c.loose /\ c.given = {} /\ c.nulls = {}
        /\ c.long = "kept" /\ c.reads = "packs" /\ c.forgets = {} /\ ~c.strict
    <3>1. c = BleC!SetEncryption
      BY <1>1, <1>15 DEF BleC!Table
    <3> HIDE DEF c
    <3> QED BY <3>1 DEF BleC!SetEncryption, BleC!Class
  <2>2. {"encryption"} \subseteq DOMAIN Ble!Table
    BY DEF Ble!Table
  <2>3. /\ <<"ble", cls>> \in Blind
        /\ <<"ble", cls>> \notin Strange \cup Retyping \cup Unasked
        /\ <<"ble", "encryption">> \notin Doubtful \cup Renamed \cup Unlimited \cup HalfBuilt
    BY <1>15, <2>1 DEF Strange, Retyping, Unasked, Blind, Doubtful, Renamed, Unlimited,
       HalfBuilt, Unheard, Uncounted, Of
  <2> HIDE DEF c
  <2>4. m.tag = "encryption" /\ \A x \in DOMAIN m.fields :
        Steady("ble", "encryption", x, m.fields[x]) /\ m.fields[x].fails = {}
    BY <1>1, <2>1, <2>2, <2>3, MessageFacts DEF m
  <2> QED BY <1>1, <2>1, <2>2, <2>3, <2>4, DoubtfulFirst DEF ClassSound, m
<1>16. CASE cls = "SniffConnReq"
  <2>1. /\ c.msg = "sniff_connreq" /\ c.packer = "sniff_connreq" /\ DOMAIN c.onto = {}
        /\ c.packs /\ c.again = {"sniff_connreq"} /\ c.direct /\ ~c.loose /\ c.given = {}
        /\ c.nulls = {} /\ c.long = "kept" /\ c.reads = "parse" /\ c.forgets = {} /\ ~c.strict
    <3>1. c = BleC!SniffConnReq
      BY <1>1, <1>16 DEF BleC!Table
    <3> HIDE DEF c
    <3> QED BY <3>1 DEF BleC!SniffConnReq, BleC!Class
  <2>2. {"sniff_connreq"} \subseteq DOMAIN Ble!Table
    BY DEF Ble!Table
  <2>3. /\ <<"ble", cls>> \in Strange
        /\ <<"ble", cls>> \notin Retyping \cup Unasked \cup Blind
        /\ <<"ble", "sniff_connreq">> \notin Doubtful \cup Renamed \cup Unlimited \cup HalfBuilt
    BY <1>16, <2>1 DEF Strange, Retyping, Unasked, Blind, Doubtful, Renamed, Unlimited,
       HalfBuilt, Unheard, Uncounted, Of
  <2>4. Accepts(m)
    <3>1. m = Ble!Table["sniff_connreq"]
      BY <1>1, <2>1 DEF m
    <3> HIDE DEF m
    <3>2. m = Ble!SniffConnReq
      BY ONLY <3>1 DEF Ble!Table
    <3>3. m.fields = [show_empty_packets |-> Ble!Plain, show_adv |-> Ble!Plain,
                      channel |-> Ble!Plain, bd_address |-> Ble!Plain]
      BY ONLY <3>2 DEF Ble!SniffConnReq, Ble!Message
    <3>4. Ble!Plain.refuses = {} /\ Ble!Plain.fails = {}
      BY ONLY DEF Ble!Plain
    <3> QED BY ONLY <3>3, <3>4 DEF Accepts
  <2> HIDE DEF c
  <2>5. m.tag = "sniff_connreq" /\ \A x \in DOMAIN m.fields :
        Steady("ble", "sniff_connreq", x, m.fields[x]) /\ m.fields[x].fails = {}
    BY <1>1, <2>1, <2>2, <2>3, MessageFacts DEF m
  <2> QED BY <1>1, <2>1, <2>2, <2>3, <2>4, <2>5, DoubtfulFirst DEF ClassSound, m
<1>17. CASE cls = "SendPdu"
  <2>1. /\ c.msg = "send_pdu" /\ c.packer = "send_pdu" /\ DOMAIN c.onto = {} /\ c.packs
        /\ c.again = {"send_pdu"} /\ ~c.direct /\ ~c.loose /\ c.given = {} /\ c.nulls = {}
        /\ c.long = "kept" /\ c.reads = "parse" /\ c.forgets = {} /\ ~c.strict
    <3>1. c = BleC!SendPdu
      BY <1>1, <1>17 DEF BleC!Table
    <3> HIDE DEF c
    <3> QED BY <3>1 DEF BleC!SendPdu, BleC!Class
  <2>2. {"send_pdu"} \subseteq DOMAIN Ble!Table
    BY DEF Ble!Table
  <2>3. /\ <<"ble", cls>> \notin Strange \cup Retyping \cup Unasked \cup Blind
        /\ <<"ble", "send_pdu">> \notin Doubtful \cup Renamed \cup HalfBuilt
        /\ <<"ble", <<cls, "pdu">>>> \in Changed
    BY <1>17, <2>1 DEF Strange, Retyping, Unasked, Blind, Doubtful, Renamed, HalfBuilt, Unheard,
       Uncounted, Changed, Of
  <2>4. \A x \in DOMAIN m.fields : x = "pdu" \/ Overwritten("ble", cls, "send_pdu", x, m.fields[x])
    BY <1>1, <2>1, BleOverwritten DEF m
  <2> HIDE DEF c
  <2>5. m.tag = "send_pdu" /\ \A x \in DOMAIN m.fields : m.fields[x].fails = {}
    BY <1>1, <2>1, <2>2, <2>3, MessageFacts DEF m
  <2> QED BY <1>1, <2>1, <2>2, <2>3, <2>4, <2>5, DoubtfulFirst DEF ClassSound, m
<1> QED BY <1>2, <1>3, <1>4, <1>5, <1>6, <1>7, <1>8, <1>9, <1>10, <1>11, <1>12, <1>13, <1>14, <1>15,
   <1>16, <1>17, BleOrdinaryClasses

\* And those with exceptions.
LEMMA PhyOtherClasses ==
  ASSUME NEW cls \in DOMAIN ClassTables["phy"]
  PROVE  ClassSound("phy", cls, ClassTables["phy"][cls])
<1> DEFINE c == ClassTables["phy"][cls]
           m == Tables["phy"][c.msg]
<1>1. /\ ClassTables["phy"] = PhyC!Table
      /\ Tables["phy"] = Phy!Table /\ "phy" \in DOMAIN Tables
  BY DEF ClassTables, Tables
<1> SUFFICES ClassSound("phy", cls, c)
  OBVIOUS
<1> HIDE DEF m
<1>2. CASE cls = "MonitorMode"
  <2>1. /\ c.msg = "monitor" /\ c.packer = "monitor" /\ DOMAIN c.onto = {} /\ ~c.packs
        /\ c.again = {"monitor"} /\ c.direct /\ ~c.loose /\ c.given = {} /\ c.nulls = {}
        /\ c.long = "kept" /\ c.reads = "none" /\ c.forgets = {} /\ ~c.strict
    <3>1. c = PhyC!MonitorMode
      BY <1>1, <1>2 DEF PhyC!Table
    <3> HIDE DEF c
    <3> QED BY <3>1 DEF PhyC!MonitorMode, PhyC!Immediate, PhyC!Class
  <2>2. {"monitor"} \subseteq DOMAIN Phy!Table
    BY DEF Phy!Table
  <2>3. /\ <<"phy", cls>> \notin Strange \cup Retyping \cup Unasked \cup Blind
        /\ <<"phy", "monitor">> \notin Doubtful \cup Renamed \cup Unlimited \cup HalfBuilt
    BY <1>2, <2>1 DEF Strange, Retyping, Unasked, Blind, Doubtful, Renamed, Unlimited,
       HalfBuilt, Unheard, Uncounted, Of
  <2>4. DOMAIN m.fields = {}
    BY <1>1, <2>1 DEF m, Phy!Table, Phy!MonitorMode, Phy!Command, Phy!Message
  <2> HIDE DEF c
  <2>5. m.tag = "monitor" /\ \A x \in DOMAIN m.fields :
        Steady("phy", "monitor", x, m.fields[x]) /\ m.fields[x].fails = {}
    BY <1>1, <2>1, <2>2, <2>3, MessageFacts DEF m
  <2> QED BY <1>1, <2>1, <2>2, <2>3, <2>4, <2>5, DoubtfulFirst DEF ClassSound, m
<1> QED BY <1>2, PhyOrdinaryClasses

\* And those with exceptions.
LEMMA DotOtherClasses ==
  ASSUME NEW cls \in DOMAIN ClassTables["dot15d4"]
  PROVE  ClassSound("dot15d4", cls, ClassTables["dot15d4"][cls])
<1> DEFINE c == ClassTables["dot15d4"][cls]
           m == Tables["dot15d4"][c.msg]
<1>1. /\ ClassTables["dot15d4"] = Dot15d4C!Table
      /\ Tables["dot15d4"] = Dot15d4!Table /\ "dot15d4" \in DOMAIN Tables
  BY DEF ClassTables, Tables
<1> SUFFICES ClassSound("dot15d4", cls, c)
  OBVIOUS
<1> HIDE DEF m
<1>2. CASE cls = "RawPduReceived"
  <2>1. /\ c.msg = "raw_pdu" /\ c.packer = "raw_pdu" /\ DOMAIN c.onto = {} /\ c.packs
        /\ c.again = {"raw_pdu"} /\ ~c.direct /\ ~c.loose /\ c.given = {} /\ c.nulls = {}
        /\ c.long = "kept" /\ c.reads = "parse" /\ c.forgets = {"fcs"} /\ ~c.strict
    <3>1. c = Dot15d4C!RawPduReceived
      BY <1>1, <1>2 DEF Dot15d4C!Table
    <3> HIDE DEF c
    <3> QED BY <3>1 DEF Dot15d4C!RawPduReceived, Dot15d4C!Class
  <2>2. {"raw_pdu"} \subseteq DOMAIN Dot15d4!Table
    BY DEF Dot15d4!Table
  <2>3. /\ <<"dot15d4", cls>> \notin Strange \cup Retyping \cup Unasked \cup Blind
        /\ <<"dot15d4", "raw_pdu">> \notin Doubtful \cup Renamed \cup Unlimited \cup HalfBuilt
        /\ \A x \in c.forgets : <<"dot15d4", <<cls, x>>>> \in Forgotten
    BY <1>2, <2>1 DEF Strange, Retyping, Unasked, Blind, Doubtful, Renamed, Unlimited,
       HalfBuilt, Unheard, Uncounted, Forgotten, Of
  <2> HIDE DEF c
  <2>4. m.tag = "raw_pdu" /\ \A x \in DOMAIN m.fields :
        Steady("dot15d4", "raw_pdu", x, m.fields[x]) /\ m.fields[x].fails = {}
    BY <1>1, <2>1, <2>2, <2>3, MessageFacts DEF m
  <2> QED BY <1>1, <2>1, <2>2, <2>3, <2>4, DoubtfulFirst DEF ClassSound, m
<1>3. CASE cls = "SendRawPdu"
  <2>1. /\ c.msg = "send_raw" /\ c.packer = "send_raw" /\ DOMAIN c.onto = {} /\ c.packs
        /\ c.again = {"send_raw"} /\ ~c.direct /\ ~c.loose /\ c.given = {} /\ c.nulls = {}
        /\ c.long = "kept" /\ c.reads = "parse" /\ c.forgets = {} /\ ~c.strict
    <3>1. c = Dot15d4C!SendRawPdu
      BY <1>1, <1>3 DEF Dot15d4C!Table
    <3> HIDE DEF c
    <3> QED BY <3>1 DEF Dot15d4C!SendRawPdu, Dot15d4C!Class
  <2>2. {"send_raw"} \subseteq DOMAIN Dot15d4!Table
    BY DEF Dot15d4!Table
  <2>3. /\ <<"dot15d4", cls>> \in Retyping
        /\ <<"dot15d4", cls>> \notin Strange \cup Unasked \cup Blind
        /\ <<"dot15d4", "send_raw">> \in Renamed \cap HalfBuilt
        /\ <<"dot15d4", "send_raw">> \notin Doubtful \cup Unlimited
    BY <1>3, <2>1 DEF Strange, Retyping, Unasked, Blind, Doubtful, Renamed, Unlimited,
       HalfBuilt, Unheard, Uncounted, Of
  <2> HIDE DEF c
  <2>4. \A x \in DOMAIN m.fields : Steady("dot15d4", "send_raw", x, m.fields[x])
    BY <1>1, <2>1, <2>2, <2>3, MessageFacts DEF m
  <2> QED BY <1>1, <2>1, <2>2, <2>3, <2>4, DoubtfulFirst DEF ClassSound, m
<1> QED BY <1>2, <1>3, DotOrdinaryClasses

\* And those with exceptions.
LEMMA EsbOtherClasses ==
  ASSUME NEW cls \in DOMAIN ClassTables["esb"]
  PROVE  ClassSound("esb", cls, ClassTables["esb"][cls])
<1> DEFINE c == ClassTables["esb"][cls]
           m == Tables["esb"][c.msg]
<1>1. /\ ClassTables["esb"] = EsbC!Table
      /\ Tables["esb"] = Esb!Table /\ "esb" \in DOMAIN Tables
  BY DEF ClassTables, Tables
<1> SUFFICES ClassSound("esb", cls, c)
  OBVIOUS
<1> HIDE DEF m
<1>2. CASE cls = "RawPacketReceived"
  <2>1. /\ c.msg = "raw_pdu" /\ c.packer = "raw_pdu" /\ DOMAIN c.onto = {} /\ c.packs
        /\ c.again = {"raw_pdu"} /\ ~c.direct /\ c.loose /\ c.given = {} /\ c.nulls = {}
        /\ c.long = "kept" /\ c.reads = "parse" /\ c.forgets = {} /\ ~c.strict
    <3>1. c = EsbC!RawPacketReceived
      BY <1>1, <1>2 DEF EsbC!Table
    <3> HIDE DEF c
    <3> QED BY <3>1 DEF EsbC!RawPacketReceived, EsbC!Class
  <2>2. {"raw_pdu"} \subseteq DOMAIN Esb!Table
    BY DEF Esb!Table
  <2>3. /\ <<"esb", cls>> \notin Strange \cup Retyping \cup Unasked \cup Blind
        /\ <<"esb", "raw_pdu">> \in HalfBuilt
        /\ <<"esb", "raw_pdu">> \notin Doubtful \cup Renamed \cup Unlimited
    BY <1>2, <2>1 DEF Strange, Retyping, Unasked, Blind, Doubtful, Renamed, Unlimited,
       HalfBuilt, Unheard, Uncounted, Of
  <2>4. \A x \in DOMAIN m.fields : /\ Whole(m.fields[x]) /\ Fits(m.fields[x])
                                   /\ m.fields[x].refuses = {}
                                   /\ "some" \notin m.fields[x].fails
                                   /\ m.fields[x].opt => <<"esb", <<cls, x>>>> \in Garbled
    <3>1. \A x \in EsbOptions : <<"esb", <<cls, x>>>> \in Garbled
      BY <1>2 DEF EsbOptions, Garbled, Of
    <3> QED BY <1>1, <2>1, <3>1, EsbReceptions DEF m
  <2> HIDE DEF c
  <2>5. m.tag = "raw_pdu" /\ \A x \in DOMAIN m.fields :
        Steady("esb", "raw_pdu", x, m.fields[x])
    BY <1>1, <2>1, <2>2, <2>3, MessageFacts DEF m
  <2> QED BY <1>1, <2>1, <2>2, <2>3, <2>4, <2>5, DoubtfulFirst DEF ClassSound, m
<1>3. CASE cls = "PacketReceived"
  <2>1. /\ c.msg = "pdu" /\ c.packer = "pdu" /\ DOMAIN c.onto = {} /\ c.packs
        /\ c.again = {"pdu"} /\ ~c.direct /\ c.loose /\ c.given = {} /\ c.nulls = {}
        /\ c.long = "kept" /\ c.reads = "twice" /\ c.forgets = {} /\ ~c.strict
    <3>1. c = EsbC!PacketReceived
      BY <1>1, <1>3 DEF EsbC!Table
    <3> HIDE DEF c
    <3> QED BY <3>1 DEF EsbC!PacketReceived, EsbC!Class
  <2>2. {"pdu"} \subseteq DOMAIN Esb!Table
    BY DEF Esb!Table
  <2>3. /\ <<"esb", cls>> \notin Strange \cup Retyping \cup Unasked \cup Blind
        /\ <<"esb", "pdu">> \in HalfBuilt
        /\ <<"esb", "pdu">> \notin Doubtful \cup Renamed \cup Unlimited
    BY <1>3, <2>1 DEF Strange, Retyping, Unasked, Blind, Doubtful, Renamed, Unlimited,
       HalfBuilt, Unheard, Uncounted, Of
  <2>4. \A x \in DOMAIN m.fields : /\ Whole(m.fields[x]) /\ Fits(m.fields[x])
                                   /\ m.fields[x].refuses = {}
                                   /\ "some" \notin m.fields[x].fails
                                   /\ m.fields[x].opt => <<"esb", <<cls, x>>>> \in Garbled
    <3>1. \A x \in EsbOptions : <<"esb", <<cls, x>>>> \in Garbled
      BY <1>3 DEF EsbOptions, Garbled, Of
    <3> QED BY <1>1, <2>1, <3>1, EsbReceptions DEF m
  <2> HIDE DEF c
  <2>5. m.tag = "pdu" /\ \A x \in DOMAIN m.fields :
        Steady("esb", "pdu", x, m.fields[x])
    BY <1>1, <2>1, <2>2, <2>3, MessageFacts DEF m
  <2> QED BY <1>1, <2>1, <2>2, <2>3, <2>4, <2>5, DoubtfulFirst DEF ClassSound, m
<1>4. CASE cls = "SendPacket"
  <2>1. /\ c.msg = "send" /\ c.packer = "send" /\ DOMAIN c.onto = {} /\ c.packs
        /\ c.again = {"send"} /\ ~c.direct /\ ~c.loose /\ c.given = {} /\ c.nulls = {}
        /\ c.long = "kept" /\ c.reads = "packs" /\ c.forgets = {} /\ ~c.strict
    <3>1. c = EsbC!SendPacket
      BY <1>1, <1>4 DEF EsbC!Table
    <3> HIDE DEF c
    <3> QED BY <3>1 DEF EsbC!SendPacket, EsbC!Class
  <2>2. {"send"} \subseteq DOMAIN Esb!Table
    BY DEF Esb!Table
  <2>3. /\ <<"esb", cls>> \in Blind
        /\ <<"esb", cls>> \notin Strange \cup Retyping \cup Unasked
        /\ <<"esb", "send">> \notin Doubtful \cup Renamed \cup Unlimited \cup HalfBuilt
    BY <1>4, <2>1 DEF Strange, Retyping, Unasked, Blind, Doubtful, Renamed, Unlimited,
       HalfBuilt, Unheard, Uncounted, Of
  <2> HIDE DEF c
  <2>4. m.tag = "send" /\ \A x \in DOMAIN m.fields :
        Steady("esb", "send", x, m.fields[x]) /\ m.fields[x].fails = {}
    BY <1>1, <2>1, <2>2, <2>3, MessageFacts DEF m
  <2> QED BY <1>1, <2>1, <2>2, <2>3, <2>4, DoubtfulFirst DEF ClassSound, m
<1> QED BY <1>2, <1>3, <1>4, EsbOrdinaryClasses

\* And those with exceptions.
LEMMA UnifyingOtherClasses ==
  ASSUME NEW cls \in DOMAIN ClassTables["unifying"]
  PROVE  ClassSound("unifying", cls, ClassTables["unifying"][cls])
<1> DEFINE c == ClassTables["unifying"][cls]
           m == Tables["unifying"][c.msg]
<1>1. /\ ClassTables["unifying"] = UnifyingC!Table
      /\ Tables["unifying"] = Unifying!Table /\ "unifying" \in DOMAIN Tables
  BY DEF ClassTables, Tables
<1> SUFFICES ClassSound("unifying", cls, c)
  OBVIOUS
<1> HIDE DEF m
<1>2. CASE cls = "Jammed"
  <2>1. /\ c.msg = "jammed" /\ c.packer = "jam" /\ c.onto = [channel |-> "timestamp"] /\ c.packs
        /\ c.again = {"jam"} /\ ~c.direct /\ ~c.loose /\ c.given = {} /\ c.nulls = {}
        /\ c.long = "kept" /\ c.reads = "parse" /\ c.forgets = {} /\ ~c.strict
    <3>1. c = UnifyingC!Jammed
      BY <1>1, <1>2 DEF UnifyingC!Table
    <3> HIDE DEF c
    <3> QED BY <3>1 DEF UnifyingC!Jammed, UnifyingC!Class
  <2>2. {"jammed", "jam"} \subseteq DOMAIN Unifying!Table
    BY DEF Unifying!Table
  <2>3. /\ <<"unifying", cls>> \in Strange \cap Retyping
        /\ <<"unifying", cls>> \notin Unasked \cup Blind
        /\ <<"unifying", "jammed">> \notin Doubtful \cup Renamed \cup Unlimited \cup HalfBuilt
        /\ <<"unifying", "jam">> \notin Doubtful
    BY <1>2, <2>1 DEF Strange, Retyping, Unasked, Blind, Doubtful, Renamed, Unlimited,
       HalfBuilt, Unheard, Uncounted, Of
  <2>4. Accepts(Unifying!Table["jam"])
    BY DEF Accepts, Unifying!Table, Unifying!Jam, Unifying!Message, Unifying!Plain
  <2> HIDE DEF c
  <2>5. m.tag = "jammed" /\ \A x \in DOMAIN m.fields :
        Steady("unifying", "jammed", x, m.fields[x]) /\ m.fields[x].fails = {}
    BY <1>1, <2>1, <2>2, <2>3, MessageFacts DEF m
  <2> QED BY <1>1, <2>1, <2>2, <2>3, <2>4, <2>5, DoubtfulFirst DEF ClassSound, m
<1>3. CASE cls = "PduReceived"
  <2>1. /\ c.msg = "pdu" /\ c.packer = "pdu" /\ DOMAIN c.onto = {} /\ c.packs
        /\ c.again = {"pdu"} /\ ~c.direct /\ ~c.loose /\ c.given = {} /\ c.nulls = {}
        /\ c.long = "kept" /\ c.reads = "parse" /\ c.forgets = {"address"} /\ ~c.strict
    <3>1. c = UnifyingC!PduReceived
      BY <1>1, <1>3 DEF UnifyingC!Table
    <3> HIDE DEF c
    <3> QED BY <3>1 DEF UnifyingC!PduReceived, UnifyingC!Class
  <2>2. {"pdu"} \subseteq DOMAIN Unifying!Table
    BY DEF Unifying!Table
  <2>3. /\ <<"unifying", cls>> \notin Strange \cup Retyping \cup Unasked \cup Blind
        /\ <<"unifying", "pdu">> \in HalfBuilt
        /\ <<"unifying", "pdu">> \notin Doubtful \cup Renamed \cup Unlimited
        /\ \A x \in c.forgets : <<"unifying", <<cls, x>>>> \in Forgotten
    BY <1>3, <2>1 DEF Strange, Retyping, Unasked, Blind, Doubtful, Renamed, Unlimited,
       HalfBuilt, Unheard, Uncounted, Forgotten, Of
  <2> HIDE DEF c
  <2>4. m.tag = "pdu" /\ \A x \in DOMAIN m.fields :
        Steady("unifying", "pdu", x, m.fields[x])
    BY <1>1, <2>1, <2>2, <2>3, MessageFacts DEF m
  <2> QED BY <1>1, <2>1, <2>2, <2>3, <2>4, DoubtfulFirst DEF ClassSound, m
<1>4. CASE cls = "RawPduReceived"
  <2>1. /\ c.msg = "raw_pdu" /\ c.packer = "raw_pdu" /\ DOMAIN c.onto = {} /\ c.packs
        /\ c.again = {"raw_pdu"} /\ ~c.direct /\ ~c.loose /\ c.given = {} /\ c.nulls = {}
        /\ c.long = "kept" /\ c.reads = "parse" /\ c.forgets = {"address"} /\ ~c.strict
    <3>1. c = UnifyingC!RawPduReceived
      BY <1>1, <1>4 DEF UnifyingC!Table
    <3> HIDE DEF c
    <3> QED BY <3>1 DEF UnifyingC!RawPduReceived, UnifyingC!Class
  <2>2. {"raw_pdu"} \subseteq DOMAIN Unifying!Table
    BY DEF Unifying!Table
  <2>3. /\ <<"unifying", cls>> \notin Strange \cup Retyping \cup Unasked \cup Blind
        /\ <<"unifying", "raw_pdu">> \in HalfBuilt
        /\ <<"unifying", "raw_pdu">> \notin Doubtful \cup Renamed \cup Unlimited
        /\ \A x \in c.forgets : <<"unifying", <<cls, x>>>> \in Forgotten
    BY <1>4, <2>1 DEF Strange, Retyping, Unasked, Blind, Doubtful, Renamed, Unlimited,
       HalfBuilt, Unheard, Uncounted, Forgotten, Of
  <2> HIDE DEF c
  <2>4. m.tag = "raw_pdu" /\ \A x \in DOMAIN m.fields :
        Steady("unifying", "raw_pdu", x, m.fields[x])
    BY <1>1, <2>1, <2>2, <2>3, MessageFacts DEF m
  <2> QED BY <1>1, <2>1, <2>2, <2>3, <2>4, DoubtfulFirst DEF ClassSound, m
<1> QED BY <1>2, <1>3, <1>4, UnifyingOrdinaryClasses

\* The classes of every domain.
LEMMA ClassesSound ==
  ASSUME NEW d \in DOMAIN Tables
  PROVE  /\ d \in DOMAIN ClassTables /\ "none" \notin DOMAIN ClassTables[d]
         /\ \A cls \in DOMAIN ClassTables[d] : ClassSound(d, cls, ClassTables[d][cls])
<1>1. DOMAIN Tables = {"core", "ble", "phy", "dot15d4", "esb", "unifying", "board"}
      /\ DOMAIN ClassTables = DOMAIN Tables
  BY DEF Tables, ClassTables
<1>2. /\ ClassTables["core"] = CoreC!Table /\ ClassTables["ble"] = BleC!Table
      /\ ClassTables["phy"] = PhyC!Table /\ ClassTables["dot15d4"] = Dot15d4C!Table
      /\ ClassTables["esb"] = EsbC!Table /\ ClassTables["unifying"] = UnifyingC!Table
      /\ ClassTables["board"] = BoardC!Table
  BY DEF ClassTables
<1>3. "none" \notin DOMAIN ClassTables["core"] \cup DOMAIN ClassTables["phy"]
                    \cup DOMAIN ClassTables["dot15d4"]
  BY <1>2 DEF CoreC!Table, PhyC!Table, Dot15d4C!Table
<1>4. "none" \notin DOMAIN ClassTables["ble"]
  BY <1>2 DEF BleC!Table
<1>5. "none" \notin DOMAIN ClassTables["esb"] \cup DOMAIN ClassTables["unifying"]
                    \cup DOMAIN ClassTables["board"]
  BY <1>2 DEF EsbC!Table, UnifyingC!Table, BoardC!Table
<1>6. ASSUME NEW cls \in DOMAIN ClassTables[d]
      PROVE  ClassSound(d, cls, ClassTables[d][cls])
  BY <1>1, CoreOtherClasses, BleOtherClasses, PhyOtherClasses, DotOtherClasses,
     EsbOtherClasses, UnifyingOtherClasses, BoardOrdinaryClasses
<1> QED BY <1>1, <1>3, <1>4, <1>5, <1>6

\* The tables of messages and of classes of every domain have the types the exchange
\* needs.
LEMMA TablesAreTyped ==
  ASSUME NEW d \in DOMAIN Tables
  PROVE  /\ IsTable(Tables[d]) /\ d \in DOMAIN ClassTables /\ "none" \notin DOMAIN ClassTables[d]
         /\ \A cls \in DOMAIN ClassTables[d] : IsClass(Tables[d], ClassTables[d][cls])
BY TablesTyped, ClassesSound DEF ClassSound, IsClass

--------------------------------------------------------------------------
(* What a class does with its message.                                     *)

\* The arguments of a class: none that is too long for the class that contains it, and
\* those that pack() always passes are there.
Given(c, m) ==
  {a \in Calls(m) : \A x \in DOMAIN m.fields : /\ a[x].len \in m.fields[x].lens \cup {"some"}
                                               /\ x \in Contained => a[x].len # "over"
                                               /\ x \in c.given => a[x].has}

\* What pack() passes for a member that is kept under its own name.
LEMMA PassedSame ==
  ASSUME NEW c, DOMAIN c.onto = {}, NEW m, NEW f \in FieldsOf(m, Marks), NEW x \in DOMAIN m.fields
  PROVE  /\ Passed(c, m, f)[x] \in Slots(Marks) /\ Passed(c, m, f)[x].len = f[x].len
         /\ Passed(c, m, f)[x].has = (f[x].has \/ x \in c.given)
         /\ (x \in c.given => f[x].has) => Passed(c, m, f)[x] = f[x]
<1> DEFINE s == f[x]
<1>1. s \in Slots(Marks) /\ DOMAIN f = DOMAIN m.fields
  BY DEF FieldsOf
<1>2. Passed(c, m, f)[x] = [s EXCEPT !.has = @ \/ x \in c.given]
  BY <1>1 DEF Passed
<1> HIDE DEF s
<1>3. s.has \in BOOLEAN /\ s = [has |-> s.has, len |-> s.len, val |-> s.val]
  BY <1>1 DEF Slots
<1>4. [s EXCEPT !.has = @ \/ x \in c.given]
        = [has |-> s.has \/ x \in c.given, len |-> s.len, val |-> s.val]
  BY <1>3
<1>5. (x \in c.given => s.has) => (s.has \/ x \in c.given) = s.has
  BY <1>3
<1>6. [has |-> s.has \/ x \in c.given, len |-> s.len, val |-> s.val] \in Slots(Marks)
  BY <1>1, <1>3 DEF Slots
<1> HIDE DEF Passed
<1> SUFFICES /\ Passed(c, m, f)[x] \in Slots(Marks) /\ Passed(c, m, f)[x].len = s.len
             /\ Passed(c, m, f)[x].has = (s.has \/ x \in c.given)
             /\ (x \in c.given => s.has) => Passed(c, m, f)[x] = s
  BY DEF s
<1>7. ASSUME x \in c.given => s.has PROVE Passed(c, m, f)[x] = s
  BY <1>2, <1>3, <1>4, <1>5, <1>7
<1>8. Passed(c, m, f)[x].len = s.len /\ Passed(c, m, f)[x].has = (s.has \/ x \in c.given)
  BY <1>2, <1>4
<1> QED BY <1>2, <1>4, <1>6, <1>7, <1>8

\* What pack() passes for an argument a: the argument itself, but for a flag without an
\* initialiser and for data that is too long.
Kin(c, k, a, p) ==
  \/ p = a
  \/ c.loose /\ k.opt /\ ~a.has /\ p.len = "some"
  \/ /\ c.long # "kept" /\ a.len = "over" /\ p.has = a.has
     /\ p.len = "over" \/ (p.len = "empty" /\ c.long = "emptied")

\* From the constructor of a class to the arguments of the C constructor.
LEMMA MembersPassed ==
  ASSUME NEW c, DOMAIN c.onto = {}, ~c.direct, NEW m, NEW a \in Given(c, m), NEW stray \in BOOLEAN,
         NEW x \in DOMAIN m.fields
  PROVE  Kin(c, m.fields[x], a[x], Passed(c, m, Members(c, m, a, stray))[x])
<1> DEFINE f == Members(c, m, a, stray)
           p == Passed(c, m, f)[x]
           s == a[x]
           k == m.fields[x]
<1> SUFFICES Kin(c, k, s, p)
  OBVIOUS
<1>1. a \in FieldsOf(m, Marks) /\ f \in FieldsOf(m, Marks) /\ (x \in c.given => s.has)
  BY MembersType DEF Given, Calls
<1>2. s.has \in BOOLEAN /\ s.len \in Size /\ s = [has |-> s.has, len |-> s.len, val |-> s.val]
  BY <1>1 DEF FieldsOf, Slots
<1>3. f[x] = IF c.loose /\ k.opt /\ ~s.has THEN Slot(stray, "some", "junk") ELSE Long(c, s)
  BY DEF Members
<1> HIDE DEF f
<1>4. p.len = f[x].len /\ p.has = (f[x].has \/ x \in c.given)
      /\ ((x \in c.given => f[x].has) => p = f[x])
  BY <1>1, PassedSame
<1> HIDE DEF p, s, k
<1>5. CASE c.loose /\ k.opt /\ ~s.has
  BY <1>3, <1>4, <1>5 DEF Slot, Kin
<1>6. CASE ~(c.loose /\ k.opt /\ ~s.has)
  <2>1. CASE s.len # "over" \/ c.long = "kept"
    BY <1>1, <1>3, <1>4, <1>6, <2>1 DEF Long, Kin
  <2>2. CASE s.len = "over" /\ c.long # "kept"
    <3>1. f[x].has = s.has /\ f[x].len = IF c.long = "emptied" THEN "empty" ELSE "over"
      BY <1>3, <1>6, <2>2 DEF Long, Slot
    <3> QED BY <1>1, <1>2, <1>4, <2>2, <3>1 DEF Kin
  <2> QED BY <2>1, <2>2
<1> QED BY <1>5, <1>6

\* What a class passes is refused when the arguments are, and fails only if they do.
LEMMA PackAccepts ==
  ASSUME NEW d \in DOMAIN Tables, NEW cls, NEW c, ClassSound(d, cls, c),
         NEW m, m = Tables[d][c.msg], NEW a \in FieldsOf(m, Marks), NEW p \in FieldsOf(m, Marks),
         \A x \in DOMAIN m.fields : Kin(c, m.fields[x], a[x], p[x])
  PROVE  (Refused(m, p) <=> Refused(m, a)) /\ (Failed(m, p) => Failed(m, a))
<1>1. /\ c.loose => c.long = "kept" /\ \A x \in DOMAIN m.fields :
                      m.fields[x].refuses = {} /\ "some" \notin m.fields[x].fails
      /\ c.long # "kept" => "none" \notin DOMAIN m.fields /\ \A x \in DOMAIN m.fields :
           /\ m.fields[x].refuses = {}
           /\ m.fields[x].fails # {} => /\ m.fields[x].fails = {"over"} /\ ~m.fields[x].opt
                                        /\ m.fields[x].unless = "none"
  BY DEF ClassSound
<1>2. DOMAIN a = DOMAIN m.fields /\ DOMAIN p = DOMAIN m.fields
  BY DEF FieldsOf
<1>3. CASE ~c.loose /\ c.long = "kept"
  <2>1. \A x \in DOMAIN m.fields : p[x] = a[x]
    BY <1>3 DEF Kin
  <2>2. p = a
    BY <2>1 DEF FieldsOf
  <2> QED BY <2>2
<1>4. CASE c.loose
  <2>1. ~Refused(m, p) /\ ~Refused(m, a)
    BY <1>1, <1>4 DEF Refused
  <2>2. ASSUME NEW x \in DOMAIN m.fields, Looked(m, x, p), p[x].len \in m.fields[x].fails
        PROVE  Failed(m, a)
    <3>1. p[x] = a[x]
      BY <1>1, <1>4, <2>2 DEF Kin
    <3>2. \A u \in DOMAIN m.fields : ~p[u].has => ~a[u].has
      BY <1>1, <1>4 DEF Kin
    <3>3. Looked(m, x, a)
      BY <1>2, <2>2, <3>1, <3>2 DEF Looked
    <3> QED BY <2>2, <3>1, <3>3 DEF Failed
  <2> QED BY <2>1, <2>2 DEF Failed
<1>5. CASE c.long # "kept"
  <2>1. ~Refused(m, p) /\ ~Refused(m, a)
    BY <1>1, <1>5 DEF Refused
  <2>2. ASSUME NEW x \in DOMAIN m.fields, Looked(m, x, p), p[x].len \in m.fields[x].fails
        PROVE  Failed(m, a)
    <3>1. m.fields[x].fails = {"over"} /\ ~m.fields[x].opt /\ m.fields[x].unless = "none"
      BY <1>1, <1>5, <2>2
    <3>2. a[x].len = "over"
      <4>1. p[x].len = "over" /\ ~c.loose
        BY <1>1, <1>5, <2>2, <3>1
      <4> QED BY <4>1 DEF Kin
    <3>3. Looked(m, x, a)
      BY <1>1, <1>2, <1>5, <3>1 DEF Looked, Present
    <3> QED BY <3>1, <3>2, <3>3 DEF Failed
  <2> QED BY <2>1, <2>2 DEF Failed
<1> QED BY <1>3, <1>4, <1>5

\* Constructing on cleared memory: a flag that is not assigned is clear.
LEMMA FreshCarried ==
  ASSUME NEW T, NEW m, m.tag \in DOMAIN T, m.tag # "none",
         NEW a \in FieldsOf(m, Marks), NEW left, ~Refused(m, a), ~Failed(m, a),
         NEW x \in DOMAIN m.fields, x \in DOMAIN T[m.tag].fields,
         T[m.tag].fields[x] = m.fields[x], m.fields[x].opt \in BOOLEAN,
         WholeAt(m.fields[x], a[x].len), Taken(m, x, a) = a[x]
  PROVE  LET w == Transmitted(T, Constructed(T, m, a, Fresh(TRUE), left))
         IN  /\ w.tag = m.tag /\ DOMAIN w.f = DOMAIN T[m.tag].fields
             /\ Same(m.fields[x], Meant(m.fields[x], a[x]), w.f[x])
<1>1. Fresh(TRUE).tag = "none" /\ Fresh(TRUE).clean
  BY DEF Fresh
<1> DEFINE z == Fresh(TRUE)
<1> HIDE DEF z
<1>2. Selected(T, m, z, left)[x].has = FALSE
  BY <1>1 DEF Selected, Zeroed, Slot, z
<1>3. Cleared(m.fields[x], Selected(T, m, z, left)[x])
  BY <1>2 DEF Cleared
<1>4. z.tag = m.tag => DOMAIN z.f = DOMAIN T[m.tag].fields
  BY <1>1 DEF z
<1> QED BY <1>3, <1>4, FieldCarried DEF z

\* An argument that is not lost is one whose field is written whole, and over which no
\* other is: so it is with arguments p that are full only where a is.
LEMMA NotLost ==
  ASSUME NEW d, NEW T, NEW msg, NEW m, m = T[msg], SchemaSound(d, T, msg),
         NEW a \in FieldsOf(m, Marks), NEW x \in DOMAIN m.fields, ~Lost(d, msg, x, a),
         NEW p \in FieldsOf(m, Marks), p[x] = a[x],
         \A y \in DOMAIN m.fields : p[y].len = "full" => a[y].len = "full"
  PROVE  /\ x \in DOMAIN T[m.tag].fields /\ T[m.tag].fields[x] = m.fields[x]
         /\ m.fields[x].opt \in BOOLEAN /\ WholeAt(m.fields[x], p[x].len) /\ Taken(m, x, p) = p[x]
<1> DEFINE k == m.fields[x]
<1>1. <<d, <<msg, x>>>> \notin Dropped
      /\ \A y \in DOMAIN m.fields : Sized(d, msg, x, y, a[y].len) \notin Missing \cup Spoilt
  <2>1. DOMAIN a = DOMAIN m.fields
    BY DEF FieldsOf
  <2> QED BY <2>1 DEF Lost, At, Sized
<1>2. /\ x \in DOMAIN T[m.tag].fields /\ T[m.tag].fields[x] = k /\ FieldSound(d, msg, x, k)
  BY <1>1 DEF SchemaSound
<1> HIDE DEF k
<1>3. /\ k.opt \in BOOLEAN
      /\ \A s \in Size : Sized(d, msg, x, x, s) \in Missing \cup Spoilt \/ WholeAt(k, s)
      /\ \A y \in k.under : Sized(d, msg, x, y, "full") \in Spoilt
  BY ONLY <1>1, <1>2 DEF FieldSound, IsField
<1>4. a[x].len \in Size /\ DOMAIN p = DOMAIN m.fields
  BY DEF FieldsOf, Slots
<1>5. WholeAt(k, p[x].len)
  BY <1>1, <1>3, <1>4
<1>6. ASSUME NEW y \in k.under \cap DOMAIN p PROVE p[y].len # "full"
  BY <1>1, <1>3, <1>4, <1>6
<1>7. Taken(m, x, p) = p[x]
  BY <1>6 DEF Taken, k
<1> QED BY <1>2, <1>3, <1>5, <1>7 DEF k

\* The table of the domain d, and the message in it that the class c stands for.
About(d, c, T, m) == T = Tables[d] /\ m = T[c.msg]

\* The members f and the Message z of a new object, its constructor called with a.
NewObject(T, c, m, a, f, z) ==
  /\ \E stray \in BOOLEAN : f = Members(c, m, a, stray)
  /\ IF c.direct THEN \E left \in Leftovers : z = Constructed(T, m, a, Fresh(TRUE), left)
     ELSE z = Fresh(TRUE)

\* An object that is sent through getRaw() carries its arguments, whatever its members
\* and the union held, but for what the C constructor loses and what the class does to it.
LEMMA ClassCarried ==
  ASSUME NEW d \in DOMAIN Tables, NEW cls, <<d, cls>> \notin Strange, NEW c, ClassSound(d, cls, c),
         NEW T, NEW m, About(d, c, T, m),
         NEW a \in Given(c, m), ~PackFails(T, c, c.packer, a),
         NEW f, NEW z, NewObject(T, c, m, a, f, z), NEW left,
         NEW w, w = Transmitted(T, Packed(T, c, c.packer, f, z, left))
  PROVE  /\ w.tag = m.tag
         /\ \A x \in DOMAIN m.fields :
              \/ Lost(d, c.msg, x, a) \/ <<d, <<cls, x>>>> \in Garbled
              \/ <<d, <<cls, x>>>> \in Shortened /\ a[x].len = "over"
              \/ /\ x \in DOMAIN w.f
                 /\ Same(m.fields[x], Meant(m.fields[x], a[x]), w.f[x])
<1>t. T = Tables[d] /\ m = T[c.msg]
  BY DEF About
<1> USE <1>t
<1> DEFINE Good(v) ==
             /\ v.tag = m.tag
             /\ \A x \in DOMAIN m.fields :
                  \/ Lost(d, c.msg, x, a) \/ <<d, <<cls, x>>>> \in Garbled
                  \/ <<d, <<cls, x>>>> \in Shortened /\ a[x].len = "over"
                  \/ /\ x \in DOMAIN v.f
                     /\ Same(m.fields[x], Meant(m.fields[x], a[x]), v.f[x])
<1>a. PICK stray \in BOOLEAN : f = Members(c, m, a, stray)
  BY DEF NewObject
<1>b. PICK first : /\ c.direct => z = Constructed(T, m, a, Fresh(TRUE), first)
                   /\ ~c.direct => z = Fresh(TRUE)
  BY DEF NewObject
<1>1. c.packer = c.msg /\ DOMAIN c.onto = {} /\ c.msg \in DOMAIN T
  BY DEF ClassSound
<1>2. a \in FieldsOf(m, Marks) /\ DOMAIN a = DOMAIN m.fields
  BY DEF Given, Calls, FieldsOf
<1>3. Passed(c, m, a) = a
  <2>1. \A x \in DOMAIN m.fields : Passed(c, m, a)[x] = a[x]
    BY <1>1, <1>2, PassedSame DEF Given
  <2>2. Passed(c, m, a) \in FieldsOf(m, Marks)
    BY <1>2, PassedType DEF FieldsOf
  <2> QED BY <1>2, <2>1, <2>2 DEF FieldsOf
<1>4. ~Refused(m, a) /\ ~Failed(m, a) /\ \A x \in c.nulls : a[x].len # "empty"
  BY <1>1, <1>3 DEF PackFails
<1>5. SchemaSound(d, T, c.msg) /\ "none" \notin DOMAIN T
  BY <1>1, TablesSound
\* A call of the C constructor on cleared memory.
<1>6. ASSUME NEW p \in FieldsOf(m, Marks), \A x \in DOMAIN m.fields : Kin(c, m.fields[x], a[x], p[x]),
             NEW rest
      PROVE  Good(Transmitted(T, Constructed(T, m, p, Fresh(TRUE), rest)))
  <2> DEFINE v == Transmitted(T, Constructed(T, m, p, Fresh(TRUE), rest))
  <2>1. ~Refused(m, p) /\ ~Failed(m, p)
    BY <1>2, <1>4, <1>6, PackAccepts
  <2>2. m.tag \in DOMAIN T /\ m.tag # "none"
    BY <1>5 DEF SchemaSound
  <2>3. ASSUME NEW x \in DOMAIN m.fields, ~Lost(d, c.msg, x, a), p[x] = a[x]
        PROVE  /\ v.tag = m.tag /\ x \in DOMAIN v.f
               /\ Same(m.fields[x], Meant(m.fields[x], p[x]), v.f[x])
    <3>0. \A y \in DOMAIN m.fields : p[y].len = "full" => a[y].len = "full"
      BY <1>6 DEF Kin
    <3>1. x \in DOMAIN T[m.tag].fields /\ T[m.tag].fields[x] = m.fields[x]
      BY <1>2, <1>5, <1>6, <2>3, <3>0, NotLost
    <3>2. m.fields[x].opt \in BOOLEAN /\ WholeAt(m.fields[x], p[x].len) /\ Taken(m, x, p) = p[x]
      BY <1>2, <1>5, <1>6, <2>3, <3>0, NotLost
    <3>3. /\ v.tag = m.tag /\ DOMAIN v.f = DOMAIN T[m.tag].fields
          /\ Same(m.fields[x], Meant(m.fields[x], p[x]), v.f[x])
      BY ONLY <1>6, <2>1, <2>2, <2>3, <3>1, <3>2, FreshCarried DEF v
    <3> QED BY <3>1, <3>3
  <2>4. ASSUME NEW x \in DOMAIN m.fields
        PROVE  \/ p[x] = a[x] \/ <<d, <<cls, x>>>> \in Garbled
               \/ <<d, <<cls, x>>>> \in Shortened /\ a[x].len = "over"
    <3>1. CASE c.loose /\ m.fields[x].opt
      BY <3>1 DEF ClassSound
    <3>2. CASE c.long # "kept" /\ a[x].len = "over"
      <4>1. \/ <<d, <<cls, x>>>> \in Shortened
            \/ "over" \notin m.fields[x].lens
            \/ /\ m.fields[x].fails = {"over"} /\ ~m.fields[x].opt
               /\ m.fields[x].unless = "none" /\ "none" \notin DOMAIN m.fields
        BY <3>2 DEF ClassSound
      <4>2. a[x].len \in m.fields[x].lens \cup {"some"}
        BY DEF Given
      <4>3. ASSUME m.fields[x].fails = {"over"}, ~m.fields[x].opt, m.fields[x].unless = "none",
                   "none" \notin DOMAIN m.fields
            PROVE  FALSE
        BY <1>2, <1>4, <3>2, <4>3 DEF Failed, Looked, Present
      <4> QED BY <3>2, <4>1, <4>2, <4>3
    <3> QED BY <1>6, <3>1, <3>2 DEF Kin
  <2>5. v.tag = m.tag
    <3>1. Constructed(T, m, p, Fresh(TRUE), rest).tag = m.tag
      BY <2>1 DEF Constructed, Filled
    <3> QED BY <3>1 DEF Transmitted
  <2> HIDE DEF v
  <2>6. Good(v)
    BY <2>3, <2>4, <2>5
  <2> QED BY <2>6 DEF v
<1> HIDE DEF Good
<1>7. CASE ~c.packs
  <2>0. c.direct
    BY <1>7 DEF ClassSound
  <2>1. w = Transmitted(T, Constructed(T, m, a, Fresh(TRUE), first))
    <3>1. z = Constructed(T, m, a, Fresh(TRUE), first)
      BY <1>b, <2>0
    <3>2. w = Transmitted(T, z)
      BY <1>7 DEF Packed
    <3> QED BY <3>1, <3>2
  <2>2. \A x \in DOMAIN m.fields : Kin(c, m.fields[x], a[x], a[x])
    BY DEF Kin
  <2>3. Good(Transmitted(T, Constructed(T, m, a, Fresh(TRUE), first)))
    BY <1>2, <1>6, <2>2
  <2>4. Good(w)
    BY <2>1, <2>3
  <2> QED BY <2>4 DEF Good
<1>8. CASE c.packs /\ c.direct
  <2>1. Hopeless(m)
    BY <1>8 DEF ClassSound
  <2>2. PICK x \in DOMAIN m.fields : ~m.fields[x].opt /\ m.fields[x].unless = "none"
                                     /\ m.fields[x].fails = Size
    BY <2>1 DEF Hopeless
  <2>3. Looked(m, x, a) /\ a[x].len \in Size
    BY <1>2, <2>1, <2>2 DEF Hopeless, Looked, Present, FieldsOf, Slots
  <2> QED BY <1>4, <2>2, <2>3 DEF Failed
<1>9. CASE c.packs /\ ~c.direct
  <2>1. f \in FieldsOf(m, Marks)
    BY <1>a, <1>2, MembersType
  <2>2. \A x \in c.nulls : f[x].len # "empty"
    <3>1. ASSUME c.nulls # {} PROVE f = a
      <4>1. ~c.loose /\ c.long = "kept"
        BY <3>1 DEF ClassSound
      <4>2. \A x \in DOMAIN m.fields : f[x] = a[x]
        BY <1>a, <1>9, <4>1 DEF Members, Long
      <4> QED BY <1>2, <2>1, <4>2 DEF FieldsOf
    <3> QED BY <1>4, <3>1
  <2>3. w = Transmitted(T, Constructed(T, m, Passed(c, m, f), Fresh(TRUE), left))
    BY <1>a, <1>b, <1>1, <1>9, <2>2 DEF Packed
  <2>4. Passed(c, m, f) \in FieldsOf(m, Marks)
    BY <2>1, PassedType DEF FieldsOf
  <2>5. \A x \in DOMAIN m.fields : Kin(c, m.fields[x], a[x], Passed(c, m, f)[x])
    BY <1>a, <1>1, <1>9, MembersPassed
  <2> DEFINE p == Passed(c, m, f)
  <2>6. p \in FieldsOf(m, Marks) /\ \A x \in DOMAIN m.fields : Kin(c, m.fields[x], a[x], p[x])
    BY <2>4, <2>5
  <2>7. w = Transmitted(T, Constructed(T, m, p, Fresh(TRUE), left))
    BY <2>3
  <2> HIDE DEF p
  <2>8. Good(Transmitted(T, Constructed(T, m, p, Fresh(TRUE), left)))
    BY ONLY <1>6, <2>6
  <2>9. Good(w)
    BY <2>7, <2>8
  <2> QED BY <2>9 DEF Good
<1> QED BY <1>7, <1>8, <1>9

\* An object whose arguments the C constructor does not accept leaves its Message as it
\* was cleared, or makes one that the encoder fails on.
LEMMA ClassSilent ==
  ASSUME NEW d \in DOMAIN Tables, NEW cls, <<d, cls>> \notin Unasked, NEW c, ClassSound(d, cls, c),
         NEW T, NEW m, About(d, c, T, m),
         NEW a \in Given(c, m), PackFails(T, c, c.packer, a),
         NEW f, NEW z, NewObject(T, c, m, a, f, z), NEW left,
         NEW packed, packed = Packed(T, c, c.packer, f, z, left), Encodable(T, packed)
  PROVE  packed.tag = "none"
<1>t. T = Tables[d] /\ m = T[c.msg]
  BY DEF About
<1> USE <1>t
<1>a. PICK stray \in BOOLEAN : f = Members(c, m, a, stray)
  BY DEF NewObject
<1>b. PICK first : /\ c.direct => z = Constructed(T, m, a, Fresh(TRUE), first)
                   /\ ~c.direct => z = Fresh(TRUE)
  BY DEF NewObject
<1>1. <<d, cls>> \notin Strange
  <2> SUFFICES ASSUME ~c.strict, c.nulls = {}, Accepts(T[c.packer]) PROVE FALSE
    BY DEF ClassSound
  <2>1. ~Refused(T[c.packer], Passed(c, T[c.packer], a)) /\ ~Failed(T[c.packer], Passed(c, T[c.packer], a))
    BY DEF Accepts, Refused, Failed
  <2> QED BY <2>1 DEF PackFails
<1>2. c.packer = c.msg /\ DOMAIN c.onto = {} /\ c.msg \in DOMAIN T /\ c.nulls = {}
  BY <1>1 DEF ClassSound
<1>3. a \in FieldsOf(m, Marks) /\ DOMAIN a = DOMAIN m.fields
  BY DEF Given, Calls, FieldsOf
<1>4. Passed(c, m, a) = a
  <2>1. \A x \in DOMAIN m.fields : Passed(c, m, a)[x] = a[x]
    BY <1>2, <1>3, PassedSame DEF Given
  <2>2. Passed(c, m, a) \in FieldsOf(m, Marks)
    BY <1>3, PassedType DEF FieldsOf
  <2> QED BY <1>3, <2>1, <2>2 DEF FieldsOf
<1>5. Refused(m, a) \/ Failed(m, a)
  BY <1>2, <1>4 DEF PackFails
<1>6. Fresh(TRUE).tag = "none"
  BY DEF Fresh
<1>7. SchemaSound(d, T, c.msg)
  BY <1>2, TablesSound
<1>8. CASE c.direct
  <2>1. ~c.packs /\ ~Failed(m, a)
    BY <1>1, <1>8 DEF ClassSound, Failed
  <2>2. z = Fresh(TRUE)
    <3>1. z = Constructed(T, m, a, Fresh(TRUE), first)
      BY <1>b, <1>8
    <3> QED BY <1>5, <2>1, <3>1 DEF Constructed
  <2>3. packed = z
    BY <2>1 DEF Packed
  <2> QED BY <1>6, <2>2, <2>3
<1>9. CASE ~c.direct
  <2> DEFINE p == Passed(c, m, f)
  <2>1. p \in FieldsOf(m, Marks) /\ \A x \in DOMAIN m.fields : Kin(c, m.fields[x], a[x], p[x])
    <3>1. f \in FieldsOf(m, Marks)
      BY <1>a, <1>3, MembersType
    <3>2. p \in FieldsOf(m, Marks)
      BY <3>1, PassedType DEF FieldsOf
    <3> QED BY <1>a, <1>2, <1>9, <3>2, MembersPassed
  <2>2. packed = Constructed(T, m, p, Fresh(TRUE), left)
    BY <1>a, <1>b, <1>2, <1>9 DEF Packed, ClassSound
  <2> HIDE DEF p
  <2>3. CASE Refused(m, p)
    BY <1>6, <2>2, <2>3 DEF Constructed
  <2>4. CASE ~Refused(m, p)
    <3>1. Failed(m, a)
      BY <1>3, <1>5, <2>1, <2>4, PackAccepts
    <3>2. PICK x \in DOMAIN m.fields : Looked(m, x, a) /\ a[x].len \in m.fields[x].fails
      BY <3>1 DEF Failed
    <3>3. <<d, c.msg>> \in Doubtful
      <4>1. FieldSound(d, c.msg, x, m.fields[x])
        BY <1>7 DEF SchemaSound
      <4> QED BY <3>2, <4>1 DEF FieldSound, Given
    <3>4. ~c.loose /\ c.long # "emptied" /\ m.tag = c.msg /\ TooLong(m)
      BY <1>2, <3>3 DEF ClassSound
    <3>5. /\ m.fields[x].fails = {"over"} /\ ~m.fields[x].opt /\ m.fields[x].bounded
          /\ "over" \notin m.fields[x].cuts \cup m.fields[x].wraps /\ x \in DOMAIN m.early
          /\ "len" \in m.early[x] \cap m.fields[x].writes["over"]
      BY <3>2, <3>4 DEF TooLong
    <3>6. p[x].len = "over"
      BY <2>1, <3>2, <3>4, <3>5 DEF Kin
    <3>7. Failed(m, p)
      <4>1. \A u \in DOMAIN m.fields : ~a[u].has => ~p[u].has
        BY <2>1, <3>4 DEF Kin
      <4>2. DOMAIN p = DOMAIN m.fields
        BY <2>1 DEF FieldsOf
      <4>3. Looked(m, x, p)
        BY <1>3, <3>2, <3>5, <4>1, <4>2 DEF Looked, Present
      <4> QED BY <3>5, <3>6, <4>3 DEF Failed
    <3>8. packed = Filled(T, m, p, Fresh(TRUE), left, m.early)
      BY <2>2, <2>4, <3>7 DEF Constructed
    <3> DEFINE old == Selected(T, m, Fresh(TRUE), left)
               t == Taken(m, x, p)
               s == Stored(m.fields[x], t, old[x], m.early[x])
    <3>9. packed.tag = c.msg /\ x \in DOMAIN packed.f /\ packed.f[x] = s
      <4>1. T[m.tag] = m /\ m.tag # "none"
        BY <1>2, <3>4, TablesSound
      <4>2. DOMAIN old = DOMAIN m.fields
        BY <1>6, <4>1 DEF Selected
      <4> HIDE DEF old
      <4>3. /\ packed.tag = m.tag
            /\ packed.f = [y \in DOMAIN old |-> IF y \in DOMAIN m.early
                             THEN Stored(m.fields[y], Taken(m, y, p), old[y], m.early[y])
                             ELSE old[y]]
        BY ONLY <3>8 DEF Filled, old
      <4> QED BY <3>4, <3>5, <4>2, <4>3
    <3>10. s.len = "over"
      <4> DEFINE k == m.fields[x]
                 b == Adjusted(k, t)
                 o == old[x]
                 e == m.early[x]
      <4>1. p[x] \in Slots(Marks)
        BY <2>1 DEF FieldsOf
      <4>2. t \in Slots(Marks) /\ t.len = "over"
        BY <3>6, <4>1, TakenType
      <4> HIDE DEF t
      <4>3. t = [has |-> t.has, len |-> t.len, val |-> t.val]
        BY <4>2 DEF Slots
      <4> HIDE DEF k
      <4>4. b.len = "over"
        BY <3>5, <4>2, <4>3 DEF Adjusted, k
      <4>5. "len" \in Assigned(k, t) \cap e
        BY <3>5, <4>2 DEF Assigned, Present, k
      <4> HIDE DEF b, o, e
      <4>6. s = [q \in Parts |-> IF q \in Assigned(k, t) \cap e THEN b[q] ELSE o[q]]
        BY DEF Stored, b, k, o, e
      <4> QED BY ONLY <4>4, <4>5, <4>6 DEF Parts
    <3> HIDE DEF s
    <3> QED BY <3>5, <3>9, <3>10 DEF Encodable, Present
  <2> QED BY <2>3, <2>4
<1> QED BY <1>8, <1>9

\* A constructor called with what a received field holds leaves the field as it was.
LEMMA OverItself ==
  ASSUME NEW T, NEW m, NEW z, z.tag = m.tag, NEW left, NEW a, NEW x \in DOMAIN z.f,
         z.f[x] \in Slots(Marks), Taken(m, x, a) = z.f[x], Fits(m.fields[x]),
         z.f[x].len \notin m.fields[x].wraps \cup m.fields[x].spoils,
         IF Present(m.fields[x], z.f[x]) THEN m.fields[x].bounded => z.f[x].len # "over"
         ELSE z.f[x] = Zeroed
  PROVE  Constructed(T, m, a, z, left).f[x] = z.f[x]
<1> DEFINE k == m.fields[x]
           s == z.f[x]
<1>1. s = [p \in Parts |-> s[p]]
  BY DEF Slots, Parts
<1>2. Adjusted(k, s) = s
  BY DEF Adjusted, Fits, Zeroed, Slot
<1>3. \A parts : Stored(k, s, s, parts) = s
  BY <1>1, <1>2 DEF Stored
<1>4. Selected(T, m, z, left) = z.f
  BY DEF Selected
<1>5. ASSUME NEW parts PROVE Filled(T, m, a, z, left, parts).f[x] = s
  BY <1>3, <1>4 DEF Filled
<1> QED BY <1>5 DEF Constructed

\* Constructing over the same member keeps its tag and its fields.
LEMMA SameMember ==
  ASSUME NEW T, NEW m, NEW z, z.tag = m.tag, NEW left, NEW a
  PROVE  LET b == Constructed(T, m, a, z, left)
         IN  b.tag = z.tag /\ DOMAIN b.f = DOMAIN z.f
BY DEF Constructed, Filled, Selected

\* A Message that has the fields of the message w received, but for what the parser of
\* msg misreads of them.
Like(d, msg, w, z) ==
  /\ z.tag = w.tag /\ DOMAIN z.f = DOMAIN w.f
  /\ \A x \in DOMAIN w.f : MisreadIn(d, msg, x, w.f) \/ z.f[x] = w.f[x]

\* A field that is not misread is read at the size it has.
LEMMA WellRead ==
  ASSUME NEW d, NEW T, NEW msg, NEW m, m = T[msg], SchemaSound(d, T, msg), <<d, msg>> \notin Unheard,
         NEW x \in DOMAIN m.fields, <<d, <<msg, x>>>> \notin Uncounted,
         NEW f, x \in DOMAIN f, f[x] \in Slots(Marks), ~MisreadIn(d, msg, x, f)
  PROVE  ~m.fields[x].strays /\ Read(m.fields[x], f[x]) = f[x]
<1>1. FieldSound(d, msg, x, m.fields[x]) /\ f[x].len \in Size
  BY DEF SchemaSound, Slots
<1>2. <<d, <<msg, x>>>> \notin Misread /\ Sized(d, msg, x, x, f[x].len) \notin Overlooked
  BY DEF MisreadIn, At, Sized
<1>3. ReadAt(m.fields[x], f[x].len)
  BY <1>1, <1>2 DEF FieldSound
<1>4. Read(m.fields[x], f[x]) = f[x]
  BY <1>3, FieldRead
<1> QED BY <1>3, <1>4 DEF ReadAt

\* What a class restores of a message it received: the Message is as it was received,
\* and so is every member, but for what the parser misreads and the class forgets.
LEMMA ClassRestored ==
  ASSUME NEW d \in DOMAIN Tables, NEW cls, <<d, cls>> \notin Blind, NEW c, ClassSound(d, cls, c),
         NEW T, NEW m, About(d, c, T, m), c.reads # "absent",
         NEW w, IsMessage(T, w), Arrived(T, w), w.tag = c.msg,
         NEW stray \in BOOLEAN, NEW left, NEW o, o = Restored(T, c, w, stray, left)
  PROVE  /\ Like(d, c.msg, w, o.mem)
         /\ \A x \in DOMAIN w.f :
              \/ MisreadIn(d, c.msg, x, w.f) \/ <<d, <<cls, x>>>> \in Forgotten
              \/ <<d, <<c.msg, x>>>> \in Uncounted /\ o.f[x].len = "empty"
              \/ o.f[x] = w.f[x]
<1>t. T = Tables[d] /\ m = T[c.msg]
  BY DEF About
<1> USE <1>t
<1> DEFINE Parse(y) == Recalled(c, m, Parsed(m, y, stray), stray)
           before == CASE c.reads = "packs" -> Packed(T, c, c.packer, Unassigned(m, stray), w, left)
                       [] c.reads = "twice" -> Packed(T, c, c.packer, Parse(w), w, left)
                       [] OTHER -> w
<1>1. o = [mem |-> before, f |-> IF c.reads = "none" THEN Unassigned(m, stray) ELSE Parse(before)]
  BY DEF Restored
<1>2. /\ c.msg \in DOMAIN T /\ "none" \notin DOMAIN T /\ SchemaSound(d, T, c.msg)
      /\ <<d, c.msg>> \notin Unheard
  <2>1. c.msg \in DOMAIN T /\ <<d, c.msg>> \notin Unheard
    BY DEF ClassSound
  <2> QED BY <2>1, TablesSound
<1>3. w.f \in [DOMAIN m.fields -> Slots(Marks)] /\ DOMAIN w.f = DOMAIN m.fields
  BY <1>2 DEF IsMessage, Names
\* The parser, whose result depends on the fields only.
<1>4. ASSUME NEW y, Like(d, c.msg, w, y)
      PROVE  /\ DOMAIN Parse(y) = DOMAIN m.fields
             /\ \A x \in DOMAIN m.fields :
                  \/ MisreadIn(d, c.msg, x, w.f) \/ x \in c.forgets
                  \/ <<d, <<c.msg, x>>>> \in Uncounted /\ Parse(y)[x].len = "empty"
                  \/ Parse(y)[x] = w.f[x]
  <2>1. DOMAIN Parse(y) = DOMAIN m.fields
    BY DEF Recalled, Parsed
  <2>2. ASSUME NEW x \in DOMAIN m.fields, x \notin c.forgets, ~MisreadIn(d, c.msg, x, w.f)
        PROVE  Parse(y)[x] = IF m.fields[x].strays THEN Slot(stray, "some", "junk")
                             ELSE Read(m.fields[x], w.f[x])
    <3>1. x \in DOMAIN y.f /\ y.f[x] = w.f[x]
      BY <1>3, <1>4, <2>2 DEF Like
    <3> QED BY <2>2, <3>1 DEF Recalled, Parsed
  <2> HIDE DEF Parse
  <2>3. ASSUME NEW x \in DOMAIN m.fields, x \notin c.forgets, ~MisreadIn(d, c.msg, x, w.f)
        PROVE  \/ <<d, <<c.msg, x>>>> \in Uncounted /\ Parse(y)[x].len = "empty"
               \/ Parse(y)[x] = w.f[x]
    <3> DEFINE k == m.fields[x]
               s == w.f[x]
    <3>1. s \in Slots(Marks)
      BY <1>3
    <3>2. CASE <<d, <<c.msg, x>>>> \in Uncounted
      <4>1. ~k.strays /\ k.blank.len = "empty" /\ \A t \in Size : "len" \notin k.reads[t]
        BY <3>2 DEF ClassSound
      <4> HIDE DEF k, s
      <4>2. Read(k, s).len = "empty"
        BY <3>1, <4>1 DEF Read, Parts, Slots
      <4> QED BY <2>2, <2>3, <3>2, <4>1, <4>2 DEF k, s
    <3>3. CASE <<d, <<c.msg, x>>>> \notin Uncounted
      <4>1. ~m.fields[x].strays /\ Read(m.fields[x], w.f[x]) = w.f[x]
        BY <1>2, <1>3, <2>3, <3>3, WellRead
      <4> QED BY <2>2, <2>3, <4>1
    <3> QED BY <3>2, <3>3
  <2> QED BY <2>1, <2>3
<1>5. Like(d, c.msg, w, before)
  <2>0. Like(d, c.msg, w, w)
    BY DEF Like
  <2>1. CASE c.reads # "twice"
    <3>1. c.reads # "packs"
      BY DEF ClassSound
    <3> QED BY <2>0, <2>1, <3>1
  <2>2. CASE c.reads = "twice"
    <3>1. /\ c.forgets = {} /\ c.given = {} /\ c.packer = c.msg /\ DOMAIN c.onto = {}
          /\ m.tag = c.msg /\ \A x \in DOMAIN m.fields : Whole(m.fields[x]) /\ Fits(m.fields[x])
          /\ \A x : <<d, <<c.msg, x>>>> \notin Uncounted
      BY <2>2, DoubtfulFirst DEF ClassSound
    <3> DEFINE f == Parse(w)
               a == Passed(c, m, f)
    <3>2. ASSUME NEW x \in DOMAIN m.fields, ~MisreadIn(d, c.msg, x, w.f)
          PROVE  f[x] = w.f[x]
      BY <1>4, <2>0, <3>1, <3>2
    <3>3. f \in FieldsOf(m, Marks)
      <4>1. \A x \in DOMAIN m.fields : IsField(m.fields[x])
        BY <1>2 DEF SchemaSound, FieldSound
      <4>2. Parsed(m, w, stray) \in FieldsOf(m, Marks)
        BY <1>3, <4>1, ParsedType
      <4> QED BY <4>2, RecalledType
    <3> HIDE DEF Parse, f
    <3>4. before = Packed(T, c, c.packer, f, w, left)
      BY <2>2 DEF f
    <3> HIDE DEF before
    <3>5. CASE before = w
      BY <2>0, <3>5
    <3>6. CASE before = Constructed(T, m, a, w, left)
      <4>1. before.tag = w.tag /\ DOMAIN before.f = DOMAIN w.f
        BY <3>1, <3>6, SameMember
      <4>2. ASSUME NEW x \in DOMAIN w.f, ~MisreadIn(d, c.msg, x, w.f)
            PROVE  before.f[x] = w.f[x]
        <5>1. x \in DOMAIN m.fields /\ w.f[x] \in Slots(Marks)
          BY <1>3, <4>2
        <5>2. a[x] = w.f[x]
          BY <3>1, <3>2, <3>3, <4>2, <5>1, PassedSame
        <5>3. /\ Taken(m, x, a) = a[x] /\ Fits(m.fields[x]) /\ w.tag = m.tag
              /\ w.f[x].len \notin m.fields[x].wraps \cup m.fields[x].spoils
          BY <3>1, <5>1, WholeFacts DEF Whole
        <5>4. IF Present(m.fields[x], w.f[x]) THEN m.fields[x].bounded => w.f[x].len # "over"
              ELSE w.f[x] = Zeroed
          BY <4>2 DEF Arrived
        <5> HIDE DEF a
        <5>5. Taken(m, x, a) = w.f[x]
          BY <5>2, <5>3
        <5>6. Constructed(T, m, a, w, left).f[x] = w.f[x]
          BY ONLY <4>2, <5>1, <5>3, <5>4, <5>5, OverItself
        <5> QED BY ONLY <3>6, <5>6
      <4> QED BY <4>1, <4>2 DEF Like
    <3> QED BY <3>1, <3>4, <3>5, <3>6 DEF Packed
  <2> QED BY <2>1, <2>2
<1> HIDE DEF before, Parse
<1>6. o.mem = before /\ (c.reads # "none" => o.f = Parse(before))
  BY <1>1
<1>7. CASE c.reads = "none"
  <2>1. DOMAIN m.fields = {}
    BY <1>7 DEF ClassSound
  <2> QED BY <1>3, <1>5, <1>6, <2>1
<1>8. CASE c.reads # "none"
  <2>1. o.f = Parse(before) /\ o.mem = before
    BY <1>6, <1>8
  <2>2. \A x \in c.forgets : <<d, <<cls, x>>>> \in Forgotten
    BY DEF ClassSound
  <2> QED BY <1>3, <1>4, <1>5, <2>1, <2>2
<1> QED BY <1>7, <1>8

\* What an object made from a received message sends on through getRaw() is what was
\* received, but for what is misread, spoilt, forgotten or changed.
LEMMA ClassForwarded ==
  ASSUME NEW d \in DOMAIN Tables, NEW cls, <<d, cls>> \notin Blind \cup Retyping,
         NEW c, ClassSound(d, cls, c), NEW T, NEW m, About(d, c, T, m), c.reads # "absent",
         NEW w, IsMessage(T, w), Arrived(T, w), w.tag = c.msg,
         NEW z, Like(d, c.msg, w, z), NEW f \in FieldsOf(m, Marks),
         \A x \in DOMAIN w.f :
           \/ MisreadIn(d, c.msg, x, w.f) \/ <<d, <<cls, x>>>> \in Forgotten
           \/ <<d, <<c.msg, x>>>> \in Uncounted /\ f[x].len = "empty"
           \/ f[x] = w.f[x],
         NEW packer \in c.again, NEW left, NEW packed, packed = Packed(T, c, packer, f, z, left)
  PROVE  /\ packed.tag = w.tag /\ DOMAIN packed.f = DOMAIN w.f
         /\ \A x \in DOMAIN w.f :
              \/ MisreadIn(d, c.msg, x, w.f) \/ At(Spoilt, d, c.msg, x, w.f)
              \/ <<d, <<cls, x>>>> \in Forgotten \cup Changed
              \/ packed.f[x] = w.f[x]
<1>t. T = Tables[d] /\ m = T[c.msg]
  BY DEF About
<1> USE <1>t
<1>1. packer = c.msg /\ DOMAIN c.onto = {} /\ m.tag = c.msg /\ c.msg \in DOMAIN T
  BY DEF ClassSound
<1>2. "none" \notin DOMAIN T /\ T[m.tag] = m
  BY <1>1, TablesSound
<1>3. w.f \in [DOMAIN m.fields -> Slots(Marks)] /\ DOMAIN w.f = DOMAIN m.fields
  BY <1>1, <1>2 DEF IsMessage, Names
<1>4. CASE packed = z
  BY <1>4 DEF Like
<1>5. CASE /\ packed = Constructed(T, m, Passed(c, m, f), z, left)
           /\ \A x \in c.nulls : f[x].len # "empty"
  <2>1. packed.tag = w.tag /\ DOMAIN packed.f = DOMAIN w.f
    BY <1>1, <1>5, SameMember DEF Like
  <2>2. ASSUME NEW x \in DOMAIN w.f, ~MisreadIn(d, c.msg, x, w.f), ~At(Spoilt, d, c.msg, x, w.f),
               <<d, <<cls, x>>>> \notin Forgotten \cup Changed
        PROVE  packed.f[x] = w.f[x]
    <3> DEFINE k == m.fields[x]
               a == Passed(c, m, f)
    <3>1. <<d, <<c.msg, x>>>> \in Uncounted => x \in c.nulls
      BY <1>3, <2>2 DEF ClassSound
    <3>2. f[x] = w.f[x]
      BY <1>5, <2>2, <3>1
    <3>3. x \notin c.given
      BY <2>2 DEF ClassSound
    <3>4. a[x] = w.f[x]
      BY <1>1, <1>3, <2>2, <3>2, <3>3, PassedSame
    <3>5. \A y \in DOMAIN w.f : Sized(d, c.msg, x, y, w.f[y].len) \notin Spoilt
      BY <2>2 DEF At, Sized
    <3>6. Steady(d, c.msg, x, k) \/ Overwritten(d, cls, c.msg, x, k)
      <4>1. <<d, <<c.msg, x>>>> \notin Misread
        BY <2>2 DEF MisreadIn
      <4> QED BY <1>3, <2>2, <4>1 DEF ClassSound
    <3>7. Fits(k) /\ w.f[x].len \notin k.wraps \cup k.spoils
      <4>1. w.f[x].len \in Size
        BY <1>3, <2>2 DEF Slots
      <4> QED BY <2>2, <3>5, <3>6, <4>1 DEF Steady, Overwritten, Fits
    <3>8. ASSUME NEW y \in k.under \cap DOMAIN a
          PROVE  a[y].len # "full"
      <4>1. /\ Sized(d, c.msg, x, y, "full") \in Spoilt /\ Reported(d, c.msg, y)
            /\ <<d, <<cls, y>>>> \notin Forgotten
        BY <3>6, <3>8 DEF Steady, Overwritten
      <4>2. y \in DOMAIN w.f /\ y \in DOMAIN m.fields
        BY <1>3, <3>8 DEF Passed
      <4>3. f[y] = w.f[y]
        BY <4>1, <4>2 DEF Reported, MisreadIn, At
      <4>4. a[y].len = f[y].len
        BY <1>1, <4>2, PassedSame
      <4> QED BY <3>5, <4>1, <4>2, <4>3, <4>4
    <3>9. Taken(m, x, a) = w.f[x]
      BY <3>4, <3>8 DEF Taken
    <3>10. /\ z.tag = m.tag /\ x \in DOMAIN z.f /\ z.f[x] = w.f[x] /\ z.f[x] \in Slots(Marks)
           /\ IF Present(k, z.f[x]) THEN k.bounded => z.f[x].len # "over" ELSE z.f[x] = Zeroed
      BY <1>1, <1>2, <1>3, <2>2 DEF Like, Arrived
    <3>11. packed = Constructed(T, m, a, z, left)
      BY <1>5
    <3> HIDE DEF a
    <3>12. Constructed(T, m, a, z, left).f[x] = z.f[x]
      BY ONLY <3>7, <3>9, <3>10, OverItself DEF k
    <3> QED BY ONLY <3>10, <3>11, <3>12
  <2> QED BY <2>1, <2>2
<1> QED BY <1>1, <1>4, <1>5 DEF Packed

\* What is transmitted of a field.
LEMMA TransmittedSame ==
  ASSUME NEW k, NEW s
  PROVE  Same(k, s, IF Present(k, s) THEN s ELSE Zeroed)
BY DEF Same, Present, Zeroed, Slot

--------------------------------------------------------------------------
(* What the constructors and the parsers of every domain do.               *)

\* What an accepted call of any constructor makes the encoding send, whatever the Message
\* held, but for the fields that are lost and the flags that are not cleared.
LEMMA CallCarried ==
  ASSUME NEW d \in DOMAIN Tables, NEW T, T = Tables[d], NEW msg \in DOMAIN T, NEW m, m = T[msg],
         NEW a \in FieldsOf(m, Marks), NEW z, IsMessage(T, z), NEW left,
         ~Refused(m, a), ~Failed(m, a),
         NEW w, w = Transmitted(T, Constructed(T, m, a, z, left))
  PROVE  /\ w.tag = msg \/ <<d, msg>> \in Renamed
         /\ \A x \in DOMAIN m.fields :
              \/ <<d, <<msg, x>>>> \in StaleFlags \/ Lost(d, msg, x, a)
              \/ /\ x \in DOMAIN w.f
                 /\ Same(m.fields[x], Meant(m.fields[x], a[x]), w.f[x])
<1>1. SchemaSound(d, T, msg) /\ "none" \notin DOMAIN T
  BY TablesSound
<1>2. m.tag \in DOMAIN T /\ m.tag # "none" /\ (m.tag = msg \/ <<d, msg>> \in Renamed)
  BY <1>1 DEF SchemaSound
<1>3. z.tag = m.tag => DOMAIN z.f = DOMAIN T[m.tag].fields
  BY <1>2 DEF IsMessage, Names
<1>4. w.tag = m.tag
  BY DEF Constructed, Filled, Transmitted
<1>5. ASSUME NEW x \in DOMAIN m.fields, <<d, <<msg, x>>>> \notin StaleFlags, ~Lost(d, msg, x, a)
      PROVE  x \in DOMAIN w.f /\ Same(m.fields[x], Meant(m.fields[x], a[x]), w.f[x])
  <2>1. /\ x \in DOMAIN T[m.tag].fields /\ T[m.tag].fields[x] = m.fields[x]
        /\ m.fields[x].opt \in BOOLEAN /\ WholeAt(m.fields[x], a[x].len) /\ Taken(m, x, a) = a[x]
    BY <1>1, <1>5, NotLost
  <2>2. Cleared(m.fields[x], Selected(T, m, z, left)[x])
    BY <1>1, <1>5 DEF SchemaSound, FieldSound, Cleared
  <2>3. /\ DOMAIN w.f = DOMAIN T[m.tag].fields
        /\ Same(m.fields[x], Meant(m.fields[x], a[x]), w.f[x])
    BY <1>3, <1>5, <2>1, <2>2, FieldCarried
  <2> QED BY <2>1, <2>3
<1> QED BY <1>2, <1>4, <1>5

\* A parser refuses what arrives of a message exactly when the constructor would have
\* refused to build it.
LEMMA SameVerdict ==
  ASSUME NEW d \in DOMAIN Tables, NEW T, T = Tables[d], NEW msg \in DOMAIN T, NEW m, m = T[msg],
         <<d, msg>> \notin Lenient, m.parser, NEW a \in Calls(m),
         NEW sent, sent = [tag |-> msg, f |-> a, clean |-> FALSE], Encodable(T, sent),
         NEW w, w = Transmitted(T, sent)
  PROVE  Rejected(m, w) <=> Refused(m, a) \/ Failed(m, a)
<1>1. SchemaSound(d, T, msg)
  BY TablesSound
<1>2. a \in FieldsOf(m, Marks) /\ DOMAIN a = DOMAIN m.fields
  BY DEF Calls, FieldsOf
<1>3. /\ w.tag = msg /\ DOMAIN w.f = DOMAIN m.fields
      /\ \A x \in DOMAIN m.fields : w.f[x] = IF Present(m.fields[x], a[x]) THEN a[x] ELSE Zeroed
  BY <1>2 DEF Transmitted
<1>4. ~(m.checked /\ w.tag # m.tag)
  BY <1>1, <1>3 DEF SchemaSound
<1>5. ASSUME NEW x \in DOMAIN m.fields
      PROVE  /\ Present(m.fields[x], w.f[x]) <=> Present(m.fields[x], a[x])
             /\ w.f[x].has <=> a[x].has
  <2>1. a[x].has \in BOOLEAN /\ m.fields[x].opt \in BOOLEAN
        /\ (~m.fields[x].opt => a[x].has)
    BY <1>1, <1>2 DEF Calls, FieldsOf, Slots, SchemaSound, FieldSound, IsField
  <2>2. Zeroed.has = FALSE
    BY DEF Zeroed, Slot
  <2>3. CASE Present(m.fields[x], a[x])
    BY <1>3, <2>3
  <2>4. CASE ~Present(m.fields[x], a[x])
    BY <1>3, <2>1, <2>2, <2>4 DEF Present
  <2> QED BY <2>3, <2>4
<1>6. ASSUME NEW x \in DOMAIN m.fields
      PROVE  Looked(m, x, w.f) <=> Looked(m, x, a)
  BY <1>2, <1>3, <1>5 DEF Looked
<1>7. ASSUME NEW x \in DOMAIN m.fields, Looked(m, x, a)
      PROVE  /\ w.f[x].len \in m.fields[x].rejects
                  <=> a[x].len \in m.fields[x].refuses \cup m.fields[x].fails
  <2>1. Present(m.fields[x], a[x]) /\ w.f[x] = a[x]
    BY <1>3, <1>7 DEF Looked
  <2>2. Agreeing(m.fields[x])
    BY <1>1 DEF SchemaSound, FieldSound
  <2>3. a[x].len \in Expressed(m.fields[x])
    BY DEF Calls
  <2>4. m.fields[x].bounded => a[x].len # "over"
    BY <1>2, <2>1 DEF Encodable
  <2> QED BY <2>1, <2>2, <2>3, <2>4 DEF Agreeing
<1>8. Rejected(m, w) <=> \E x \in DOMAIN m.fields :
                            Looked(m, x, w.f) /\ w.f[x].len \in m.fields[x].rejects
  BY ONLY <1>3, <1>4 DEF Rejected
<1>9. Refused(m, a) \/ Failed(m, a) <=> \E x \in DOMAIN m.fields :
        Looked(m, x, a) /\ a[x].len \in m.fields[x].refuses \cup m.fields[x].fails
  BY ONLY Zenon DEF Refused, Failed
<1> QED BY ONLY <1>6, <1>7, <1>8, <1>9, Zenon
=============================================================================

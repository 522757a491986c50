------------------------------ MODULE Classes ------------------------------
(***************************************************************************)
(* What the C++ message classes of src/src/cpp share. A class is built     *)
(* from arguments, which its constructor keeps in members, or from a       *)
(* received message, whose Message it borrows; pack() calls the C          *)
(* constructor with the members, unpack() calls the C parser and keeps     *)
(* what it returns. Classes that do anything else say so in their schema.  *)
(***************************************************************************)
EXTENDS Codec

\* msg     the message the class stands for
\* packer  the message whose C constructor pack() calls, onto: the member it
\*         passes for an argument of another name; packs: it overrides pack()
\* again   the packers an object made from a message may choose
\* direct  the constructor fills the Message itself and leaves the members
\* loose   the constructor leaves the flags of optional members uninitialised
\* given   optional members pack() always passes
\* nulls   members passed as a NULL pointer, which is refused, when empty
\* long    data that is too long is "kept", "emptied" or "zeroed"
\* reads   "absent": no constructor from a message; "none": one that does not
\*         parse; "parse"; "packs": through getRaw(), which packs first;
\*         "twice": so, once a base class has parsed
\* forgets members unpack() does not assign, or whose flag it does not
\* strict  pack() throws when the C constructor fails; the others ignore it
Class(msg) ==
  [msg |-> msg, packer |-> msg, onto |-> <<>>, packs |-> TRUE, again |-> {msg},
   direct |-> FALSE, loose |-> FALSE, given |-> {}, nulls |-> {}, long |-> "kept",
   reads |-> "parse", forgets |-> {}, strict |-> FALSE]
\* A command: both constructors do nothing, there is nothing to parse.
Signal(msg) == [Class(msg) EXCEPT !.reads = "none"]
\* Only built from arguments.
Outgoing(msg) == [Class(msg) EXCEPT !.reads = "absent"]
\* The constructor fills the Message, and that is all.
Immediate(msg) == [Class(msg) EXCEPT !.direct = TRUE, !.packs = FALSE]

\* A Packet, a PDU, an address and a SyncWord have classes of their own, that
\* hold no more than fits.
Contained == {"packet", "pdu", "address", "sync_word", "syncword"}
ClassArguments(c, m, mark) ==
  {[x \in DOMAIN m.fields |-> [a[x] EXCEPT !.has = @ \/ x \in c.given]] :
     a \in {b \in Arguments(m, mark) :
             \A x \in DOMAIN b : x \in Contained => b[x].len # "over"}}

\* Members nobody has assigned; stray: the flag found there.
Unassigned(m, stray) == [x \in DOMAIN m.fields |-> Slot(stray, "some", "junk")]

\* The members after the constructor from arguments.
Long(c, a) ==
  IF a.len # "over" \/ c.long = "kept" THEN a
  ELSE IF c.long = "emptied" THEN Slot(a.has, "empty", "zero") ELSE Slot(a.has, "over", "zero")
Members(c, m, a, stray) ==
  IF c.direct THEN Unassigned(m, stray)
  ELSE [x \in DOMAIN m.fields |->
          IF c.loose /\ m.fields[x].opt /\ ~a[x].has THEN Slot(stray, "some", "junk")
          ELSE Long(c, a[x])]

\* The arguments pack() calls the constructor of m with.
Passed(c, m, f) ==
  [x \in DOMAIN m.fields |->
     LET y == IF x \in DOMAIN c.onto THEN c.onto[x] ELSE x
         s == IF y \in DOMAIN f THEN f[y] ELSE Slot(FALSE, "some", "junk")
     IN  [s EXCEPT !.has = @ \/ x \in c.given]]

PackFails(T, c, packer, f) ==
  LET a == Passed(c, T[packer], f)
  IN  \/ \E x \in c.nulls : f[x].len = "empty"
      \/ Refused(T[packer], a) \/ Failed(T[packer], a)

\* The Message after getRaw(), pack() having chosen packer.
Packed(T, c, packer, f, mem, left) ==
  IF ~c.packs \/ \E x \in c.nulls : f[x].len = "empty" THEN mem
  ELSE Constructed(T, T[packer], Passed(c, T[packer], f), mem, left)

\* The members after unpack() found them in f.
Recalled(c, m, f, stray) ==
  [x \in DOMAIN f |->
     IF x \notin c.forgets THEN f[x]
     ELSE IF m.fields[x].opt THEN [f[x] EXCEPT !.has = stray] ELSE Slot(stray, "some", "junk")]

\* The object the class c makes of a message; stray and left: what its unassigned
\* members and the rest of the union hold.
Restored(T, c, msg, stray, left) ==
  LET m == T[c.msg]
      Parse(z) == Recalled(c, m, Parsed(m, z, stray), stray)
      Repack(f) == Packed(T, c, c.packer, f, msg, left)
      before == CASE c.reads = "packs" -> Repack(Unassigned(m, stray))
                  [] c.reads = "twice" -> Repack(Parse(msg))
                  [] OTHER -> msg
  IN  [mem |-> before,
       f |-> IF c.reads = "none" THEN Unassigned(m, stray) ELSE Parse(before)]
=============================================================================

------------------------------- MODULE Codec -------------------------------
(***************************************************************************)
(* What the constructors and parsers of src/src/domains share.             *)
(*                                                                         *)
(* A constructor whad_<domain>_<name>(p_message, ...) selects a member of  *)
(* the union inside a Message and fills its fields; whad_<domain>_<name>_  *)
(* parse reads them back. A message is described by a schema: the tag it   *)
(* selects and, for each field, what the two functions do with it. The     *)
(* union is never cleared, so a part that a constructor does not assign    *)
(* keeps what the memory held.                                             *)
(***************************************************************************)

\* What the code tells apart in an argument: nothing, something, exactly the
\* capacity (or the last legal value), and more than the field allows.
Size == {"empty", "some", "full", "over"}

\* A field is its has_ flag, its size and its contents.
Parts == {"has", "len", "val"}
Slot(has, len, val) == [has |-> has, len |-> len, val |-> val]

Zeroed == Slot(FALSE, "empty", "zero")
\* Bytes of another member read as this one: a flag that is set, contents
\* that mean nothing, and a size that fits or does not.
Leftovers == {Zeroed, Slot(TRUE, "some", "junk"), Slot(TRUE, "over", "junk")}
\* The variable of a caller that a parser did not assign.
Caller == Slot(FALSE, "some", "caller")

--------------------------------------------------------------------------
(* Kinds of fields.                                                        *)

\* lens     sizes the type of the argument can express;  wider: those only the
\*          type on the wire can
\* opt      governed by a has_ flag;  absent: parts assigned when not given
\* writes   parts the constructor assigns for each size
\* cuts     sizes cut down to the capacity;  wraps: those stored as another value
\* spoils   sizes whose contents are stored as something else
\* under    the fields whose contents, at full size, are written over this one
\* refuses  sizes refused before the tag is written;  fails: after it
\* unless   the optional field whose presence skips those checks
\* bounded  pb_encode fails when the size is over the capacity
\* reads    parts the parser reads;  blank: what it leaves in the others
\* rejects  sizes the parser refuses
\* strays   the parser reads it at the offset of another field
Plain ==
  [lens |-> {"some"}, wider |-> {}, opt |-> FALSE, absent |-> {"has"},
   writes |-> [s \in Size |-> Parts], cuts |-> {}, wraps |-> {}, spoils |-> {}, under |-> {},
   refuses |-> {}, fails |-> {}, unless |-> "none", bounded |-> TRUE,
   reads |-> [s \in Size |-> Parts], blank |-> Caller, rejects |-> {}, strays |-> FALSE]

\* A length the type of the argument keeps within the capacity, or that the
\* code trusts; a length that can exceed it; a value that can be out of range.
Bytes  == [Plain EXCEPT !.lens = Size \ {"over"}]
Wide   == [Plain EXCEPT !.lens = Size]
Ranged == [Plain EXCEPT !.lens = {"some", "over"}, !.bounded = FALSE]
\* A list that the encoder's callback walks to its end mark, or only as far as an
\* entry before it that looks like one ("over").
List == [Plain EXCEPT !.lens = Size \ {"full"}, !.wraps = {"over"}, !.bounded = FALSE]

Optional(k)     == [k EXCEPT !.opt = TRUE]
\* The flag of an absent argument is left as it was.
Kept(k)         == [k EXCEPT !.opt = TRUE, !.absent = {}]
Cut(k)          == [k EXCEPT !.cuts = {"over"}]
Refusing(k, s)  == [k EXCEPT !.refuses = s]
Failing(k, s)   == [k EXCEPT !.fails = s]
Rejecting(k, s) == [k EXCEPT !.rejects = s]
\* For the sizes s only the parts p are assigned, or read.
Writing(k, s, p) == [k EXCEPT !.writes = [z \in Size |-> IF z \in s THEN p ELSE @[z]]]
Reading(k, s, p) == [k EXCEPT !.reads = [z \in Size |-> IF z \in s THEN p ELSE @[z]]]
Unwritten(k)    == Writing(k, Size, {})
Unread(k)       == Reading(k, Size, {})
\* An integer the parser stores in a narrower type than that of the wire: a value
\* that does not fit ("over") is read as another one.
Narrowed(k) ==
  [Reading(k, {"over"}, {"has"}) EXCEPT !.wider = {"over"}, !.bounded = FALSE,
                                        !.blank = Slot(FALSE, "some", "wrapped")]

--------------------------------------------------------------------------
(* Schemas.                                                                *)

\* The fields f and the fields g.
Also(f, g) == [x \in DOMAIN f \cup DOMAIN g |-> IF x \in DOMAIN f THEN f[x] ELSE g[x]]

\* tag: the tag the constructor writes; early: the parts of the fields it has
\* assigned by the time it fails; checked: the parser tests the tag; parser:
\* there is one.
Message(tag, fields) ==
  [tag |-> tag, fields |-> fields, early |-> <<>>, checked |-> FALSE, parser |-> TRUE]
\* A command without parameters: there is nothing to parse.
Command(tag)     == [Message(tag, <<>>) EXCEPT !.parser = FALSE]
Early(m, parts)  == [m EXCEPT !.early = parts]
Tested(m)        == [m EXCEPT !.checked = TRUE]
Unparsed(m)      == [m EXCEPT !.parser = FALSE]

\* Values of the fields, of the sizes lens and their contents marked: all optional
\* ones there or none, their sizes alike but for one field at most.
Values(m, lens, mark) ==
  LET Arg(x, has, s) == Slot(m.fields[x].opt => has, IF s \in lens[x] THEN s ELSE "some", mark)
  IN  {[x \in DOMAIN m.fields |-> Arg(x, has, IF x = odd THEN t ELSE s)] :
         has \in BOOLEAN, s \in Size, odd \in DOMAIN m.fields, t \in Size}
      \cup {[x \in DOMAIN m.fields |-> Arg(x, has, "some")] : has \in BOOLEAN}

\* The arguments of the calls; and what another implementation can send.
Arguments(m, mark) == Values(m, [x \in DOMAIN m.fields |-> m.fields[x].lens], mark)
Foreigners(m, mark) ==
  Values(m, [x \in DOMAIN m.fields |-> m.fields[x].lens \cup m.fields[x].wider], mark)

--------------------------------------------------------------------------
(* A Message is [tag, f, clean]: the member selected, its fields, and      *)
(* whether all the memory is zero.                                         *)

Fresh(clean) == [tag |-> "none", f |-> <<>>, clean |-> clean]

Present(k, s) == k.opt => s.has
Looked(m, x, a) ==
  LET u == m.fields[x].unless
  IN  Present(m.fields[x], a[x]) /\ (u \in DOMAIN a => ~a[u].has)

Refused(m, a) == \E x \in DOMAIN m.fields : Looked(m, x, a) /\ a[x].len \in m.fields[x].refuses
Failed(m, a)  == \E x \in DOMAIN m.fields : Looked(m, x, a) /\ a[x].len \in m.fields[x].fails

\* The argument of the field x, as it is once every field is written.
Taken(m, x, a) ==
  IF \E y \in m.fields[x].under \cap DOMAIN a : a[y].len = "full"
  THEN [a[x] EXCEPT !.val = "wrapped"] ELSE a[x]

Adjusted(k, a) ==
  IF a.len \in k.cuts THEN [a EXCEPT !.len = "full"]
  ELSE IF a.len \in k.wraps THEN Slot(a.has, "some", "wrapped")
  ELSE IF a.len \in k.spoils THEN [a EXCEPT !.val = "wrapped"]
  ELSE a

Assigned(k, a) == IF Present(k, a) THEN k.writes[a.len] ELSE k.absent

Stored(k, a, old, parts) ==
  [p \in Parts |-> IF p \in Assigned(k, a) \cap parts THEN Adjusted(k, a)[p] ELSE old[p]]

\* The member the tag of m selects, before m assigns it: the same member is as
\* it was left, another one is made of the bytes left there.
Selected(T, m, mem, left) ==
  IF mem.tag = m.tag THEN mem.f
  ELSE [x \in DOMAIN T[m.tag].fields |-> IF mem.clean THEN Zeroed ELSE left]

\* Faulty variant: a call that fails loses what it has not reached.
Filled_Partial(T, m, a, mem, left, parts) ==
  LET old == Selected(T, m, mem, left)
  IN  [tag |-> m.tag, clean |-> FALSE,
       f |-> [x \in DOMAIN old \cap DOMAIN parts |->
                Stored(m.fields[x], Taken(m, x, a), old[x], parts[x])]]

Filled(T, m, a, mem, left, parts) ==
  LET old == Selected(T, m, mem, left)
  IN  [tag |-> m.tag, clean |-> FALSE,
       f |-> [x \in DOMAIN old |-> IF x \in DOMAIN parts
                                   THEN Stored(m.fields[x], Taken(m, x, a), old[x], parts[x])
                                   ELSE old[x]]]

\* The memory after the constructor of m was called with the arguments a.
Constructed(T, m, a, mem, left) ==
  IF Refused(m, a) THEN mem
  ELSE IF Failed(m, a) THEN Filled(T, m, a, mem, left, m.early)
  ELSE Filled(T, m, a, mem, left, [x \in DOMAIN m.fields |-> Parts])

--------------------------------------------------------------------------
(* pb_encode fails on a size over the capacity and omits absent fields;    *)
(* pb_decode clears the member it fills.                                   *)

Encodable(T, mem) ==
  \A x \in DOMAIN mem.f :
     LET k == T[mem.tag].fields[x]
     IN  k.bounded /\ Present(k, mem.f[x]) => mem.f[x].len # "over"

Transmitted(T, mem) ==
  [tag |-> mem.tag, clean |-> TRUE,
   f |-> [x \in DOMAIN mem.f |-> IF Present(T[mem.tag].fields[x], mem.f[x])
                                 THEN mem.f[x] ELSE Zeroed]]

\* The parser of m refuses the message.
Rejected(m, msg) ==
  \/ m.checked /\ msg.tag # m.tag
  \/ \E x \in DOMAIN m.fields \cap DOMAIN msg.f :
        Looked(m, x, msg.f) /\ msg.f[x].len \in m.fields[x].rejects

\* What the caller of the parser finds; stray: the flag it happens to read for
\* a field the member does not have, or has elsewhere.
Read(k, s) == [p \in Parts |-> IF p \in k.reads[s.len] THEN s[p] ELSE k.blank[p]]

Parsed(m, msg, stray) ==
  [x \in DOMAIN m.fields |->
     IF x \notin DOMAIN msg.f \/ m.fields[x].strays THEN Slot(stray, "some", "junk")
     ELSE Read(m.fields[x], msg.f[x])]

\* Two values of a field mean the same: both absent, both empty, or equal.
Same(k, a, b) ==
  /\ Present(k, a) = Present(k, b)
  /\ Present(k, a) => a.len = b.len /\ (a.len # "empty" => a.val = b.val)

\* What the wire should carry for an argument: cutting is what the code means.
Meant(k, a) == IF a.len \in k.cuts THEN Adjusted(k, a) ELSE a
=============================================================================

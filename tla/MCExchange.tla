----------------------------- MODULE MCExchange -----------------------------
(***************************************************************************)
(* ObjectExchange for TLC. The deviations its properties allow are checked *)
(* to be real: the constructors and parsers do show each of them.          *)
(***************************************************************************)
EXTENDS ObjectExchange

\* The calls of a message, and what another implementation sends of it.
Called(d, msg)   == Arguments(Tables[d][msg], "second")
Received(d, msg) == Foreigners(Tables[d][msg], "second")
\* Those with the size s in the field y.
Having(y, s, calls) == {a \in calls : a[y].len = s}

LossIsReal(d, msg, x, calls) ==
  LET m == Tables[d][msg]
  IN  \E clean \in BOOLEAN, left \in Leftovers, a \in calls :
        LET built == Constructed(Tables[d], m, a, Fresh(clean), left)
        IN  /\ ~Refused(m, a) /\ ~Failed(m, a) /\ Encodable(Tables[d], built)
            /\ x \in DOMAIN built.f =>
                 ~Same(m.fields[x], Meant(m.fields[x], a[x]), Transmitted(Tables[d], built).f[x])
MisreadIsReal(d, msg, x, calls) ==
  LET m == Tables[d][msg]
  IN  \E a \in calls, stray \in BOOLEAN :
        ~Same(m.fields[x], Parsed(m, [tag |-> msg, f |-> a], stray)[x], a[x])
HalfBuiltIsReal(d, msg) ==
  LET m == Tables[d][msg]
  IN  \E a \in Arguments(m, "second") : ~Refused(m, a) /\ Failed(m, a)
LenienceIsReal(d, msg) ==
  LET m == Tables[d][msg]
  IN  \E a \in Foreigners(m, "second") :
        /\ Refused(m, a) \/ Failed(m, a)
        /\ ~Rejected(m, [tag |-> m.tag, f |-> a])

ASSUME DeviationsAreReal ==
  /\ \A e \in StaleFlags \cup Dropped : LossIsReal(e[1], e[2][1], e[2][2], Called(e[1], e[2][1]))
  /\ \A e \in Missing \cup Spoilt :
        LossIsReal(e[1], e[2][1], e[2][2], Having(e[3][1], e[3][2], Called(e[1], e[2][1])))
  /\ \A e \in Misread \cup Uncounted :
        MisreadIsReal(e[1], e[2][1], e[2][2], Received(e[1], e[2][1]))
  /\ \A e \in Overlooked :
        MisreadIsReal(e[1], e[2][1], e[2][2], Having(e[3][1], e[3][2], Received(e[1], e[2][1])))
  /\ \A e \in HalfBuilt : HalfBuiltIsReal(e[1], e[2])
  /\ \A e \in Lenient : LenienceIsReal(e[1], e[2])

Users(d, cls) == ClassArguments(ClassTables[d][cls], Tables[d][ClassTables[d][cls].msg], "user")
\* What the object of a class puts on the wire, for the arguments a.
Outcome(d, cls, a, stray, left) ==
  LET c == ClassTables[d][cls]
      T0 == Tables[d]
      start == IF c.direct THEN Constructed(T0, T0[c.msg], a, Fresh(TRUE), left) ELSE Fresh(TRUE)
  IN  Packed(T0, c, c.packer, Members(c, T0[c.msg], a, stray), start, left)
Differs(m, x, a, z) == x \notin DOMAIN z.f \/ ~Same(m.fields[x], a[x], z.f[x])

CarryIsLost(d, cls, fields, calls) ==
  LET c == ClassTables[d][cls]
      m == Tables[d][c.msg]
  IN  \E a \in calls, stray \in BOOLEAN, left \in Leftovers :
        LET z == Outcome(d, cls, a, stray, left)
        IN  /\ ~PackFails(Tables[d], c, c.packer, a)
            /\ Encodable(Tables[d], z)
            /\ \/ z.tag # m.tag
               \/ \E x \in fields :
                     Differs(m, x, [a EXCEPT ![x] = Meant(m.fields[x], @)], Transmitted(Tables[d], z))
SendsUnasked(d, cls) ==
  LET c == ClassTables[d][cls]
  IN  \E a \in ClassArguments(c, Tables[d][c.msg], "user"), left \in Leftovers :
        /\ PackFails(Tables[d], c, c.packer, a)
        /\ Outcome(d, cls, a, FALSE, left).tag # "none"

\* What another implementation sends of a message, and arrives.
Arriving(d, msg) ==
  LET m == Tables[d][msg]
  IN  {Transmitted(Tables[d], z) :
         z \in {y \in {[tag |-> msg, f |-> a, clean |-> TRUE] : a \in Foreigners(m, "other")} :
                 Encodable(Tables[d], y) /\ ~Rejected(m, y)}}
RestoreIsLost(d, cls, fields) ==
  LET c == ClassTables[d][cls]
      m == Tables[d][c.msg]
  IN  \E w \in Arriving(d, c.msg), stray \in BOOLEAN, left \in Leftovers :
        LET o == Restored(Tables[d], c, w, stray, left)
        IN  \E x \in fields : Differs(m, x, w.f, o)
ForwardIsLost(d, cls, fields) ==
  LET c == ClassTables[d][cls]
      m == Tables[d][c.msg]
  IN  \E w \in Arriving(d, c.msg), stray \in BOOLEAN, left \in Leftovers, packer \in c.again :
        LET o == Restored(Tables[d], c, w, stray, left)
            p == Packed(Tables[d], c, packer, o.f, o.mem, left)
        IN  /\ Encodable(Tables[d], p)
            /\ p.tag # w.tag \/ \E x \in fields : Differs(m, x, w.f, Transmitted(Tables[d], p))
Fields(d, cls) == DOMAIN Tables[d][ClassTables[d][cls].msg].fields

ASSUME ClassDeviationsAreReal ==
  /\ \A e \in Strange : CarryIsLost(e[1], e[2], Fields(e[1], e[2]), Users(e[1], e[2]))
  /\ \A e \in Garbled : CarryIsLost(e[1], e[2][1], {e[2][2]}, Users(e[1], e[2][1]))
  /\ \A e \in Shortened :
        CarryIsLost(e[1], e[2][1], {e[2][2]}, Having(e[2][2], "over", Users(e[1], e[2][1])))
  /\ \A e \in Unasked : SendsUnasked(e[1], e[2])
  /\ \A e \in Blind : RestoreIsLost(e[1], e[2], Fields(e[1], e[2]))
  /\ \A e \in Forgotten : RestoreIsLost(e[1], e[2][1], {e[2][2]})
  /\ \A e \in Retyping : ForwardIsLost(e[1], e[2], Fields(e[1], e[2]))
  /\ \A e \in Changed : ForwardIsLost(e[1], e[2][1], {e[2][2]})
=============================================================================

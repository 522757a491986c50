-------------------------- MODULE NanoPbMsgProofs --------------------------
(***************************************************************************)
(* For any number of wrappers and of Messages.  As long as the firmware    *)
(* does not copy a wrapper that owns its Message, every Message on the     *)
(* heap has one owner and none is released twice; as long as it does not   *)
(* use a wrapper whose Message it has given away either, none is used      *)
(* after its release and none is sent unfilled.                            *)
(***************************************************************************)
EXTENDS NanoPbMsg, SequenceTheorems, TLAPS

\* The inductive invariant of ownership: m_ownsMessage and the queue's list of
\* Messages to release account for every block, whoever looks at them.
OwnInv ==
  /\ stack \in Seq(Wrapper)
  /\ live \subseteq Blocks /\ handed \subseteq Blocks
  /\ NoDoubleRelease /\ OneOwner

\* Every wrapper of a heap Message that has not been given away was made after
\* the wrapper that owns it, and goes before it.
BorrowsFromOlder ==
  \A i \in DOMAIN stack :
    stack[i].ptr # Ext =>
      \/ stack[i].given
      \/ \E j \in 1 .. i : stack[j].owns /\ stack[j].ptr = stack[i].ptr

\* The inductive invariant of a firmware that leaves given Messages alone.
WrapInv == OwnInv /\ NoFault /\ BorrowsFromOlder

\* OneOwner without sets: what a live, a handed and a released Message imply of
\* the wrappers' m_ownsMessage flags.
Holds(st, i, b) == st[i].owns /\ st[i].ptr = b
SoleOwner(lv, hd, st, b) ==
  IF b \in lv
  THEN \/ b \in hd /\ \A i \in DOMAIN st : ~Holds(st, i, b)
       \/ /\ b \notin hd
          /\ \E i \in DOMAIN st :
               Holds(st, i, b) /\ \A j \in DOMAIN st : Holds(st, j, b) => j = i
  ELSE b \notin hd /\ \A i \in DOMAIN st : ~Holds(st, i, b)

\* The two ways of saying that a Message has one owner agree.
LEMMA OwnerFacts ==
  ASSUME stack \in Seq(Wrapper)
  PROVE  OneOwner <=> \A b \in Blocks : SoleOwner(live, handed, stack, b)
  BY DEF OneOwner, Owners, SoleOwner, Holds

\* The same for the state after a step.
LEMMA OwnerFactsNext ==
  ASSUME stack' \in Seq(Wrapper),
         \A b \in Blocks : SoleOwner(live', handed', stack', b)
  PROVE  OneOwner'
<1> SUFFICES ASSUME NEW b \in Blocks
             PROVE  IF b \in live'
                    THEN \/ b \in handed' /\ Owners(b)' = {}
                         \/ b \notin handed' /\ \E i \in Owners(b)' : Owners(b)' = {i}
                    ELSE b \notin handed' /\ Owners(b)' = {}
  BY DEF OneOwner
<1> QED  BY DEF Owners, SoleOwner, Holds

\* No wrapper of a Message that has not been given away points to one that is gone.
LEMMA PointersValid ==
  ASSUME WrapInv, NEW i \in DOMAIN stack, ~stack[i].given
  PROVE  Valid(stack[i].ptr)
<1>1. stack[i] \in Wrapper
  BY DEF WrapInv, OwnInv
<1>2. CASE stack[i].ptr # Ext
  <2>1. PICK j \in 1 .. i : stack[j].owns /\ stack[j].ptr = stack[i].ptr
    BY <1>2 DEF WrapInv, BorrowsFromOlder
  <2>2. j \in DOMAIN stack /\ stack[i].ptr \in Blocks
    BY <1>1, <1>2 DEF WrapInv, OwnInv, Wrapper, Msgs
  <2> QED  BY <2>1, <2>2, OwnerFacts DEF WrapInv, OwnInv, Valid, SoleOwner, Holds
<1> QED  BY <1>2 DEF Valid
-----------------------------------------------------------------------------
\* What a step that pushes one wrapper does to the stack.
LEMMA Pushed ==
  ASSUME stack \in Seq(Wrapper), NEW w \in Wrapper, stack' = Append(stack, w),
         NEW n, n = Len(stack)
  PROVE  /\ stack' \in Seq(Wrapper) /\ Len(stack') = n + 1 /\ n \in Nat
         /\ DOMAIN stack = 1 .. n /\ DOMAIN stack' = 1 .. n + 1
         /\ stack'[n + 1] = w /\ \A i \in 1 .. n : stack'[i] = stack[i]
<1>1. Len(stack) \in Nat /\ DOMAIN stack = 1 .. Len(stack)
  OBVIOUS
<1>2. Append(stack, w) \in Seq(Wrapper)
  OBVIOUS
<1>3. /\ Len(Append(stack, w)) = Len(stack) + 1
      /\ Append(stack, w)[Len(stack) + 1] = w
      /\ \A i \in 1 .. Len(stack) : Append(stack, w)[i] = stack[i]
  BY AppendProperties
<1>4. DOMAIN Append(stack, w) = 1 .. Len(stack) + 1
  BY <1>2, <1>3, LenProperties
<1> QED  BY <1>1, <1>2, <1>3, <1>4

\* NanoPbMsg(Message *) and the constructors that take another wrapper: one more
\* wrapper that does not own.
LEMMA BorrowOwn ==
  ASSUME OwnInv, UNCHANGED <<live, handed, fault>>,
         NEW m \in Msgs, NEW g \in BOOLEAN, stack' = Borrow(m, g)
  PROVE  OwnInv'
<1> DEFINE w == [ptr |-> m, owns |-> FALSE, packs |-> FALSE, given |-> g]
<1> DEFINE n == Len(stack)
<1>1. w \in Wrapper
  BY DEF Wrapper
<1>2. /\ stack' \in Seq(Wrapper) /\ Len(stack') = n + 1 /\ n \in Nat
      /\ DOMAIN stack = 1 .. n /\ DOMAIN stack' = 1 .. n + 1
      /\ stack'[n + 1] = w /\ \A i \in 1 .. n : stack'[i] = stack[i]
  BY <1>1, Pushed DEF Borrow, OwnInv
<1>3. OneOwner'
  <2>1. \A i \in DOMAIN stack' : stack'[i].owns => i \in 1 .. n
    BY <1>2
  <2> QED  BY <1>2, <2>1, OwnerFacts, OwnerFactsNext DEF OwnInv, SoleOwner, Holds
<1> QED  BY <1>2, <1>3 DEF OwnInv, NoDoubleRelease

\* The default constructor: a fresh block and a wrapper that owns it.
LEMMA NewOwn ==
  ASSUME OwnInv, NEW packs \in BOOLEAN, NEW b \in Blocks, New(packs, b),
         Ext \notin Blocks
  PROVE  OwnInv'
<1> DEFINE w == [ptr |-> b, owns |-> TRUE, packs |-> packs, given |-> FALSE]
<1> DEFINE n == Len(stack)
<1>1. w \in Wrapper
  BY DEF Wrapper, Msgs
<1>2. /\ stack' \in Seq(Wrapper) /\ Len(stack') = n + 1 /\ n \in Nat
      /\ DOMAIN stack = 1 .. n /\ DOMAIN stack' = 1 .. n + 1
      /\ stack'[n + 1] = w /\ \A i \in 1 .. n : stack'[i] = stack[i]
  BY <1>1, Pushed DEF New, OwnInv
<1>3. OneOwner'
  <2> SUFFICES ASSUME NEW c \in Blocks PROVE SoleOwner(live', handed', stack', c)
    BY <1>2, OwnerFactsNext
  <2>1. CASE c = b
    <3>1. c \in live' /\ c \notin live /\ c \notin handed'
      BY <2>1, OwnerFacts DEF New, OwnInv, SoleOwner
    <3>2. \A i \in 1 .. n : ~Holds(stack', i, c)
      BY <3>1, <1>2, OwnerFacts DEF OwnInv, SoleOwner, Holds
    <3>3. n + 1 \in DOMAIN stack' /\ Holds(stack', n + 1, c)
      BY <2>1, <1>2 DEF Holds
    <3>4. \A j \in DOMAIN stack' : Holds(stack', j, c) => j = n + 1
      BY <3>2, <1>2
    <3> QED  BY <3>1, <3>3, <3>4 DEF SoleOwner
  <2>2. CASE c # b
    <3>1. /\ c \in live' <=> c \in live
          /\ c \in handed' <=> c \in handed
          /\ ~Holds(stack', n + 1, c)
      BY <2>2, <1>2 DEF New, Holds
    <3>2. SoleOwner(live, handed, stack, c)
      BY OwnerFacts DEF OwnInv
    <3>3. /\ \A i \in DOMAIN stack' : Holds(stack', i, c) => i \in 1 .. n
          /\ \A i \in 1 .. n : Holds(stack', i, c) <=> Holds(stack, i, c)
      BY <3>1, <1>2 DEF Holds
    <3> QED  BY <3>1, <3>2, <3>3, <1>2 DEF SoleOwner
  <2> QED  BY <2>1, <2>2
<1> QED  BY <1>2, <1>3 DEF OwnInv, NoDoubleRelease, New

\* What disown() does to the wrappers: one flag is cleared, and the views of the
\* same Message are views of a Message given away.
LEMMA DisownFacts ==
  ASSUME OwnInv, NEW i \in DOMAIN stack, Disown(i), Ext \notin Blocks,
         NEW n, n = Len(stack)
  PROVE  /\ n \in Nat /\ DOMAIN stack = 1 .. n /\ DOMAIN stack' = 1 .. n
         /\ stack' \in Seq(Wrapper) /\ Len(stack') = n
         /\ stack[i].owns /\ stack[i].ptr \in Blocks
         /\ \A j \in 1 .. n :
              /\ stack'[j].ptr = stack[j].ptr /\ stack'[j].packs = stack[j].packs
              /\ stack'[j].owns = (stack[j].owns /\ j # i)
              /\ stack'[j].given = (stack[j].given \/ stack[j].ptr = stack[i].ptr)
<1> DEFINE R(j) == [stack[j] EXCEPT !.given = TRUE, !.owns = @ /\ j # i]
<1> DEFINE E(j) == IF stack[j].ptr # stack[i].ptr THEN stack[j] ELSE R(j)
<1>1. n \in Nat /\ DOMAIN stack = 1 .. n /\ \A j \in 1 .. n : stack[j] \in Wrapper
  BY DEF OwnInv
<1>2. stack[i].owns /\ stack[i].ptr \in Blocks
  BY <1>1 DEF Disown, Wrapper, Msgs
<1>3. stack' = [j \in 1 .. n |-> E(j)]
  BY <1>1 DEF Disown
<1>4. \A j \in 1 .. n :
        /\ R(j).ptr = stack[j].ptr /\ R(j).packs = stack[j].packs
        /\ R(j).owns = (stack[j].owns /\ j # i) /\ R(j).given = TRUE
        /\ R(j) \in [ptr : Msgs, owns : BOOLEAN, packs : BOOLEAN, given : BOOLEAN]
  BY <1>1 DEF Wrapper
<1> HIDE DEF R
<1>5. \A j \in 1 .. n : stack[j].ptr = stack[i].ptr => R(j) \in Wrapper
  BY <1>2, <1>4 DEF Wrapper, Msgs
<1>6. \A j \in 1 .. n :
        /\ E(j) \in Wrapper
        /\ E(j).ptr = stack[j].ptr /\ E(j).packs = stack[j].packs
        /\ E(j).owns = (stack[j].owns /\ j # i)
        /\ E(j).given = (stack[j].given \/ stack[j].ptr = stack[i].ptr)
  <2> SUFFICES ASSUME NEW j \in 1 .. n
               PROVE  /\ E(j) \in Wrapper
                      /\ E(j).ptr = stack[j].ptr /\ E(j).packs = stack[j].packs
                      /\ E(j).owns = (stack[j].owns /\ j # i)
                      /\ E(j).given = (stack[j].given \/ stack[j].ptr = stack[i].ptr)
    OBVIOUS
  <2>1. CASE stack[j].ptr = stack[i].ptr
    BY <1>4, <1>5, <2>1
  <2>2. CASE stack[j].ptr # stack[i].ptr
    <3>1. E(j) = stack[j] /\ j # i
      BY <2>2
    <3>2. stack[j].owns \in BOOLEAN /\ stack[j].given \in BOOLEAN /\ stack[j] \in Wrapper
      BY <1>1 DEF Wrapper
    <3> QED  BY <2>2, <3>1, <3>2
  <2> QED  BY <2>1, <2>2
<1> HIDE DEF E
<1>7. stack' \in [1 .. n -> Wrapper] /\ DOMAIN stack' = 1 .. n
  BY <1>3, <1>6
<1>8. stack' \in Seq(Wrapper) /\ Len(stack') = n
  BY <1>1, <1>7
<1>9. \A j \in 1 .. n : stack'[j] = E(j)
  BY <1>3
<1> QED  BY <1>1, <1>2, <1>6, <1>7, <1>8, <1>9

\* disown(): the Message changes hands, from the wrapper to the queue.
LEMMA DisownOwn ==
  ASSUME OwnInv, NEW i \in DOMAIN stack, Disown(i), Ext \notin Blocks PROVE OwnInv'
<1> DEFINE n == Len(stack)
<1> DEFINE m == stack[i].ptr
<1>1. /\ n \in Nat /\ DOMAIN stack = 1 .. n /\ DOMAIN stack' = 1 .. n
      /\ stack' \in Seq(Wrapper) /\ stack[i].owns /\ m \in Blocks
      /\ \A j \in 1 .. n : /\ stack'[j].ptr = stack[j].ptr
                           /\ stack'[j].owns = (stack[j].owns /\ j # i)
  BY DisownFacts
<1>2. live' = live /\ fault' = fault /\ handed' = handed \cup {m}
  BY DEF Disown
<1>3. OneOwner'
  <2> SUFFICES ASSUME NEW c \in Blocks PROVE SoleOwner(live', handed', stack', c)
    BY <1>1, OwnerFactsNext
  <2>1. SoleOwner(live, handed, stack, c)
    BY OwnerFacts DEF OwnInv
  <2>2. \A j \in 1 .. n : Holds(stack', j, c) <=> Holds(stack, j, c) /\ j # i
    BY <1>1 DEF Holds
  <2>3. CASE c = m
    <3>1. Holds(stack, i, c)
      BY <1>1, <2>3 DEF Holds
    <3>2. c \in live /\ \A j \in DOMAIN stack : Holds(stack, j, c) => j = i
      BY <2>1, <3>1 DEF SoleOwner
    <3>3. \A j \in DOMAIN stack' : ~Holds(stack', j, c)
      BY <1>1, <2>2, <3>2
    <3> QED  BY <1>2, <2>3, <3>2, <3>3 DEF SoleOwner
  <2>4. CASE c # m
    <3>1. \A j \in 1 .. n : Holds(stack', j, c) <=> Holds(stack, j, c)
      BY <1>1, <2>2, <2>4 DEF Holds
    <3>2. c \in handed' <=> c \in handed
      BY <1>2, <2>4
    <3> QED  BY <1>1, <2>1, <1>2, <3>1, <3>2 DEF SoleOwner
  <2> QED  BY <2>3, <2>4
<1> QED  BY <1>1, <1>2, <1>3 DEF OwnInv, NoDoubleRelease

\* The stack when its newest wrapper has gone.
LEMMA Popped ==
  ASSUME stack \in Seq(Wrapper), Destroy, NEW n, n = Len(stack)
  PROVE  /\ n \in Nat \ {0} /\ DOMAIN stack = 1 .. n /\ stack[n] \in Wrapper
         /\ stack' \in Seq(Wrapper) /\ Len(stack') = n - 1 /\ DOMAIN stack' = 1 .. n - 1
         /\ \A i \in 1 .. n - 1 : stack'[i] = stack[i]
<1>1. stack # <<>>
  BY DEF Destroy
<1>2. n \in Nat \ {0} /\ DOMAIN stack = 1 .. n /\ stack[n] \in Wrapper
  BY <1>1
<1>3. stack' = SubSeq(stack, 1, n - 1)
  BY DEF Destroy
<1> QED  BY <1>1, <1>2, <1>3, SubSeqProperties

\* ~NanoPbMsg of the newest wrapper: the Message it owns goes with it.
LEMMA DestroyOwn == ASSUME OwnInv, Destroy PROVE OwnInv' /\ fault' = fault
<1> DEFINE n == Len(stack)
<1> DEFINE w == stack[n]
<1>1. /\ n \in Nat \ {0} /\ DOMAIN stack = 1 .. n /\ w \in Wrapper
      /\ stack' \in Seq(Wrapper) /\ Len(stack') = n - 1 /\ DOMAIN stack' = 1 .. n - 1
      /\ \A i \in 1 .. n - 1 : stack'[i] = stack[i]
  BY Popped DEF OwnInv
<1>2. /\ fault' = fault /\ handed' = handed
      /\ live' = IF w.owns THEN live \ {w.ptr} ELSE live
      /\ w.owns => w.ptr \in live /\ w.ptr \notin handed
  <2>1. CASE w.owns
    <3>1. w.ptr \in Blocks /\ Holds(stack, n, w.ptr)
      BY <1>1, <2>1 DEF Wrapper, Msgs, Holds
    <3>2. w.ptr \in live /\ w.ptr \notin handed
      BY <1>1, <3>1, OwnerFacts DEF OwnInv, SoleOwner
    <3> QED  BY <2>1, <3>2 DEF Destroy, Release
  <2>2. CASE ~w.owns
    BY <2>2 DEF Destroy, Release
  <2> QED  BY <2>1, <2>2
<1>3. OneOwner'
  <2> SUFFICES ASSUME NEW c \in Blocks PROVE SoleOwner(live', handed', stack', c)
    BY <1>1, OwnerFactsNext
  <2>1. SoleOwner(live, handed, stack, c)
    BY OwnerFacts DEF OwnInv
  <2>2. \A i \in 1 .. n - 1 : Holds(stack', i, c) <=> Holds(stack, i, c)
    BY <1>1 DEF Holds
  <2>3. CASE Holds(stack, n, c)
    <3>1. w.owns /\ w.ptr = c /\ n \in DOMAIN stack
      BY <1>1, <2>3 DEF Holds
    <3>2. c \notin live' /\ c \notin handed'
      BY <1>2, <3>1
    <3>3. \A j \in DOMAIN stack : Holds(stack, j, c) => j = n
      BY <1>2, <2>1, <2>3, <3>1 DEF SoleOwner
    <3>4. \A i \in DOMAIN stack' : ~Holds(stack', i, c)
      BY <1>1, <2>2, <3>3
    <3> QED  BY <3>2, <3>4 DEF SoleOwner
  <2>4. CASE ~Holds(stack, n, c)
    <3>1. c \in live' <=> c \in live
      BY <1>2, <2>4 DEF Holds
    <3>2. c \in handed' <=> c \in handed
      BY <1>2
    <3>3. \A i \in DOMAIN stack : Holds(stack, i, c) => i \in DOMAIN stack'
      BY <1>1, <2>4
    <3>4. \A i \in DOMAIN stack' :
            i \in DOMAIN stack /\ (Holds(stack', i, c) <=> Holds(stack, i, c))
      BY <1>1, <2>2
    <3> HIDE DEF n, w
    <3> QED  BY <2>1, <3>1, <3>2, <3>3, <3>4 DEF SoleOwner
  <2> QED  BY <2>3, <2>4
<1> QED  BY <1>1, <1>2, <1>3 DEF OwnInv, NoDoubleRelease

\* The queue releases a Message it was handed: it was the only owner.
LEMMA QueueReleaseOwn ==
  ASSUME OwnInv, NEW b \in Blocks, QueueRelease(b)
  PROVE  OwnInv' /\ fault' = fault
<1>1. b \in live /\ \A i \in DOMAIN stack : ~Holds(stack, i, b)
  BY OwnerFacts DEF QueueRelease, OwnInv, SoleOwner
<1>2. /\ live' = live \ {b} /\ handed' = handed \ {b}
      /\ UNCHANGED <<stack, fault>>
  BY <1>1 DEF QueueRelease
<1>3. OneOwner'
  <2> SUFFICES ASSUME NEW c \in Blocks PROVE SoleOwner(live', handed', stack', c)
    BY <1>2, OwnerFactsNext DEF OwnInv
  <2>1. SoleOwner(live, handed, stack, c)
    BY OwnerFacts DEF OwnInv
  <2> QED  BY <1>1, <1>2, <2>1 DEF SoleOwner
<1> QED  BY <1>2, <1>3 DEF OwnInv, NoDoubleRelease

\* A step that touches no wrapper and no block: a send, or none at all.
LEMMA SameOwn ==
  ASSUME OwnInv, UNCHANGED <<stack, live, handed>>,
         fault' = fault \/ fault' = "use after release"
  PROVE  OwnInv'
<1>1. OneOwner'
  BY OwnerFacts, OwnerFactsNext DEF OwnInv
<1> QED  BY <1>1 DEF OwnInv, NoDoubleRelease

\* Before the first wrapper is constructed there is nothing on the heap.
LEMMA WrapInit == Init => WrapInv
<1> SUFFICES ASSUME Init PROVE WrapInv
  OBVIOUS
<1>1. stack = <<>> /\ stack \in Seq(Wrapper) /\ DOMAIN stack = {}
  BY DEF Init
<1>2. OneOwner /\ BorrowsFromOlder
  BY <1>1 DEF Init, OneOwner, Owners, BorrowsFromOlder
<1> QED  BY <1>1, <1>2 DEF Init, WrapInv, OwnInv, NoFault, NoDoubleRelease

\* What a use of wrapper i does when owning wrappers are not copied: nothing to
\* the heap, and at most one more view.
LEMMA UseFacts ==
  ASSUME CopiesOwned = FALSE, stack \in Seq(Wrapper), NEW i \in DOMAIN stack
  PROVE  /\ stack[i].ptr \in Msgs /\ stack[i].given \in BOOLEAN
         /\ MayCopy(i) => ~stack[i].owns
         /\ FromReference(i) => /\ UNCHANGED <<live, handed>>
                                /\ \/ /\ stack' = Borrow(stack[i].ptr, stack[i].given)
                                      /\ fault' = fault
                                   \/ /\ ~Valid(stack[i].ptr) /\ stack' = stack
                                      /\ fault' = "use after release"
         /\ FromValue(i) => /\ UNCHANGED <<live, handed>>
                            /\ \/ /\ stack' = Borrow(stack[i].ptr, stack[i].given)
                                  /\ fault' = fault
                               \/ /\ ~Valid(stack[i].ptr) /\ stack' = stack
                                  /\ fault' = "use after release"
         /\ SendRaw(i) \/ SendValue(i) =>
              /\ UNCHANGED <<stack, live, handed>>
              /\ \/ fault' = fault
                 \/ ~Valid(stack[i].ptr) /\ fault' = "use after release"
<1>1. stack[i] \in Wrapper
  OBVIOUS
<1>2. stack[i].ptr \in Msgs /\ stack[i].given \in BOOLEAN /\ stack[i].owns \in BOOLEAN
  BY <1>1 DEF Wrapper
<1>3. MayCopy(i) => ~stack[i].owns
  BY <1>2 DEF MayCopy
<1>4. FromValue(i) \/ SendValue(i) => ~stack[i].owns
  BY <1>3 DEF FromValue, SendValue
<1> QED  BY <1>2, <1>3, <1>4 DEF FromReference, FromValue, SendRaw, SendValue, Release

\* Every step of a firmware that does not copy owning wrappers.
LEMMA OwnStep ==
  ASSUME CopiesOwned = FALSE, OwnInv, [Next]_vars
  PROVE  OwnInv'
<1>0. stack \in Seq(Wrapper) /\ Ext \notin Blocks
  BY NanoPbMsgAssumption DEF OwnInv
<1>1. ASSUME NEW packs \in BOOLEAN, NEW b \in Blocks, New(packs, b)
      PROVE  OwnInv'
  BY <1>0, <1>1, NewOwn
<1>2. CASE Wrap
  BY <1>2, BorrowOwn DEF Wrap, Msgs
<1>3. ASSUME NEW i \in DOMAIN stack, FromReference(i) \/ FromValue(i) PROVE OwnInv'
  <2>1. stack[i].ptr \in Msgs /\ stack[i].given \in BOOLEAN
    BY <1>0, UseFacts
  <2>2. /\ UNCHANGED <<live, handed>>
        /\ \/ stack' = Borrow(stack[i].ptr, stack[i].given) /\ fault' = fault
           \/ stack' = stack /\ fault' = "use after release"
    BY <1>0, <1>3, UseFacts
  <2> QED  BY <2>1, <2>2, BorrowOwn, SameOwn
<1>4. ASSUME NEW i \in DOMAIN stack, SendRaw(i) \/ SendValue(i) PROVE OwnInv'
  <2>1. /\ UNCHANGED <<stack, live, handed>>
        /\ fault' = fault \/ fault' = "use after release"
    BY <1>0, <1>4, UseFacts
  <2> QED  BY <2>1, SameOwn
<1>5. ASSUME NEW i \in DOMAIN stack, Disown(i) PROVE OwnInv'
  BY <1>0, <1>5, DisownOwn
<1>6. CASE Destroy
  BY <1>6, DestroyOwn
<1>7. ASSUME NEW b \in Blocks, QueueRelease(b) PROVE OwnInv'
  BY <1>7, QueueReleaseOwn
<1>8. CASE UNCHANGED vars
  BY <1>8, SameOwn DEF vars
<1> QED  BY <1>1, <1>2, <1>3, <1>4, <1>5, <1>6, <1>7, <1>8 DEF Next

\* If no owning wrapper is copied, every Message on the heap has exactly one owner,
\* so the default constructor's calloc is matched by one release; what is done with
\* a wrapper after its disown() does not matter.
THEOREM WrapperOneOwner ==
  ASSUME CopiesOwned = FALSE PROVE Spec => []OneOwner
<1>1. Init => OwnInv
  BY WrapInit DEF WrapInv
<1>2. OwnInv /\ [Next]_vars => OwnInv'
  BY OwnStep
<1>3. OwnInv => OneOwner
  BY DEF OwnInv
<1> QED  BY <1>1, <1>2, <1>3, PTL DEF Spec
-----------------------------------------------------------------------------
\* One more view, of the firmware's Message or of one that some wrapper points to.
LEMMA BorrowStep ==
  ASSUME WrapInv, UNCHANGED <<live, handed, fault>>,
         NEW m \in Msgs, NEW g \in BOOLEAN, stack' = Borrow(m, g),
         m = Ext \/ \E i \in DOMAIN stack : stack[i].ptr = m /\ stack[i].given = g
  PROVE  WrapInv'
<1> DEFINE w == [ptr |-> m, owns |-> FALSE, packs |-> FALSE, given |-> g]
<1> DEFINE n == Len(stack)
<1>1. w \in Wrapper
  BY DEF Wrapper
<1>2. /\ Len(stack') = n + 1 /\ n \in Nat
      /\ DOMAIN stack = 1 .. n /\ DOMAIN stack' = 1 .. n + 1
      /\ stack'[n + 1] = w /\ \A i \in 1 .. n : stack'[i] = stack[i]
  BY <1>1, Pushed DEF Borrow, WrapInv, OwnInv
<1>3. OwnInv'
  BY BorrowOwn DEF WrapInv
<1>4. BorrowsFromOlder'
  <2> SUFFICES ASSUME NEW i \in 1 .. n + 1, stack'[i].ptr # Ext, ~stack'[i].given
               PROVE  \E j \in 1 .. i : stack'[j].owns /\ stack'[j].ptr = stack'[i].ptr
    BY <1>2 DEF BorrowsFromOlder
  <2>1. CASE i \in 1 .. n
    BY <2>1, <1>2 DEF WrapInv, BorrowsFromOlder
  <2>2. CASE i = n + 1
    <3>1. PICK k \in 1 .. n : stack[k].ptr = m /\ ~stack[k].given
      BY <2>2, <1>2
    <3>2. PICK j \in 1 .. k : stack[j].owns /\ stack[j].ptr = m
      BY <2>2, <3>1, <1>2 DEF WrapInv, BorrowsFromOlder
    <3> QED  BY <2>2, <3>1, <3>2, <1>2
  <2> QED  BY <2>1, <2>2
<1> QED  BY <1>3, <1>4 DEF WrapInv, NoFault

\* A step that leaves the wrappers as they are.
LEMMA SameWrappers ==
  ASSUME WrapInv, OwnInv', UNCHANGED <<stack, fault>> PROVE WrapInv'
  BY DEF WrapInv, NoFault, BorrowsFromOlder

\* Every step of a firmware that neither copies owning wrappers nor uses given ones.
LEMMA WrapStep ==
  ASSUME CopiesOwned = FALSE, UsesGiven = FALSE, WrapInv, [Next]_vars
  PROVE  WrapInv'
<1> DEFINE n == Len(stack)
<1>0. OwnInv /\ OwnInv' /\ stack \in Seq(Wrapper) /\ Ext \notin Blocks
  BY OwnStep, NanoPbMsgAssumption DEF WrapInv, OwnInv
<1>1. ASSUME NEW packs \in BOOLEAN, NEW b \in Blocks, New(packs, b)
      PROVE  WrapInv'
  <2> DEFINE w == [ptr |-> b, owns |-> TRUE, packs |-> packs, given |-> FALSE]
  <2>1. w \in Wrapper /\ stack' = Append(stack, w) /\ fault' = fault
    BY <1>0, <1>1 DEF New, Wrapper, Msgs
  <2>2. /\ n \in Nat /\ DOMAIN stack = 1 .. n /\ DOMAIN stack' = 1 .. n + 1
        /\ stack'[n + 1] = w /\ \A i \in 1 .. n : stack'[i] = stack[i]
    BY <1>0, <2>1, Pushed
  <2>3. BorrowsFromOlder'
    <3> SUFFICES ASSUME NEW i \in 1 .. n + 1, stack'[i].ptr # Ext, ~stack'[i].given
                 PROVE  \E j \in 1 .. i : stack'[j].owns /\ stack'[j].ptr = stack'[i].ptr
      BY <2>2 DEF BorrowsFromOlder
    <3>1. CASE i \in 1 .. n
      BY <3>1, <2>2 DEF WrapInv, BorrowsFromOlder
    <3>2. CASE i = n + 1
      BY <3>2, <2>2
    <3> QED  BY <3>1, <3>2
  <2> QED  BY <1>0, <2>1, <2>3 DEF WrapInv, NoFault
<1>2. CASE Wrap
  BY <1>2, BorrowStep DEF Wrap, Msgs
<1>3. \A i \in DOMAIN stack : MayUse(i) => ~stack[i].given /\ Valid(stack[i].ptr)
  <2>1. \A i \in DOMAIN stack : MayUse(i) => ~stack[i].given
    BY DEF MayUse
  <2> QED  BY <2>1, PointersValid
<1>4. ASSUME NEW i \in DOMAIN stack, FromReference(i) \/ FromValue(i) PROVE WrapInv'
  <2>1. stack[i].ptr \in Msgs /\ stack[i].given \in BOOLEAN /\ Valid(stack[i].ptr)
    BY <1>0, <1>3, <1>4, UseFacts DEF FromReference, FromValue
  <2>2. UNCHANGED <<live, handed, fault>> /\ stack' = Borrow(stack[i].ptr, stack[i].given)
    BY <1>0, <1>4, <2>1, UseFacts
  <2> QED  BY <2>1, <2>2, BorrowStep
<1>5. ASSUME NEW i \in DOMAIN stack, SendRaw(i) \/ SendValue(i) PROVE WrapInv'
  <2>1. Valid(stack[i].ptr)
    BY <1>3, <1>5 DEF SendRaw, SendValue
  <2>2. UNCHANGED <<stack, fault>>
    BY <1>0, <1>5, <2>1, UseFacts
  <2> QED  BY <1>0, <2>2, SameWrappers
<1>6. ASSUME NEW k \in DOMAIN stack, Disown(k) PROVE WrapInv'
  <2>1. /\ n \in Nat /\ DOMAIN stack = 1 .. n /\ DOMAIN stack' = 1 .. n
        /\ \A j \in 1 .. n :
             /\ stack'[j].ptr = stack[j].ptr
             /\ stack'[j].owns = (stack[j].owns /\ j # k)
             /\ stack'[j].given = (stack[j].given \/ stack[j].ptr = stack[k].ptr)
    BY <1>0, <1>6, DisownFacts
  <2>2. BorrowsFromOlder'
    <3> SUFFICES ASSUME NEW i \in 1 .. n, stack'[i].ptr # Ext, ~stack'[i].given
                 PROVE  \E j \in 1 .. i : stack'[j].owns /\ stack'[j].ptr = stack'[i].ptr
      BY <2>1 DEF BorrowsFromOlder
    <3>1. stack[i].ptr # Ext /\ ~stack[i].given /\ stack[i].ptr # stack[k].ptr
      BY <2>1
    <3>2. PICK j \in 1 .. i : stack[j].owns /\ stack[j].ptr = stack[i].ptr
      BY <2>1, <3>1 DEF WrapInv, BorrowsFromOlder
    <3>3. j \in 1 .. n /\ j # k
      BY <2>1, <3>1, <3>2
    <3> QED  BY <2>1, <3>2, <3>3
  <2> QED  BY <1>0, <1>6, <2>2 DEF WrapInv, NoFault, Disown
<1>7. CASE Destroy
  <2>1. /\ n \in Nat \ {0} /\ DOMAIN stack = 1 .. n /\ DOMAIN stack' = 1 .. n - 1
        /\ \A i \in 1 .. n - 1 : stack'[i] = stack[i]
    BY <1>0, <1>7, Popped
  <2>2. BorrowsFromOlder'
    <3> SUFFICES ASSUME NEW i \in 1 .. n - 1, stack'[i].ptr # Ext, ~stack'[i].given
                 PROVE  \E j \in 1 .. i : stack'[j].owns /\ stack'[j].ptr = stack'[i].ptr
      BY <2>1 DEF BorrowsFromOlder
    <3>1. i \in DOMAIN stack /\ stack[i].ptr # Ext /\ ~stack[i].given
      BY <2>1
    <3>2. PICK j \in 1 .. i : stack[j].owns /\ stack[j].ptr = stack[i].ptr
      BY <3>1 DEF WrapInv, BorrowsFromOlder
    <3> QED  BY <2>1, <3>2
  <2> QED  BY <1>0, <1>7, <2>2, DestroyOwn DEF WrapInv, NoFault
<1>8. ASSUME NEW b \in Blocks, QueueRelease(b) PROVE WrapInv'
  <2>1. UNCHANGED <<stack, fault>>
    BY <1>0, <1>8, QueueReleaseOwn DEF QueueRelease
  <2> QED  BY <1>0, <2>1, SameWrappers
<1>9. CASE UNCHANGED vars
  BY <1>0, <1>9, SameWrappers DEF vars
<1> QED  BY <1>1, <1>2, <1>4, <1>5, <1>6, <1>7, <1>8, <1>9 DEF Next

\* The wrappers' constructors, disown and destructor never release a Message
\* twice nor read a released one, if the firmware copies no owning wrapper and
\* uses none whose Message it has given away.  That the wrapper which disowned
\* lives on, with its views, while the queue releases the Message does no harm.
THEOREM WrapperNoFault ==
  ASSUME CopiesOwned = FALSE, UsesGiven = FALSE PROVE Spec => []NoFault
<1>1. Init => WrapInv
  BY WrapInit
<1>2. WrapInv /\ [Next]_vars => WrapInv'
  BY WrapStep
<1>3. WrapInv => NoFault
  BY DEF WrapInv
<1> QED  BY <1>1, <1>2, <1>3, PTL DEF Spec
-----------------------------------------------------------------------------
\* A wrapper whose class fills the Message in pack() owns it as long as it has not
\* been given away; the Message of any other wrapper in use has been filled.
FieldsFilled ==
  /\ filled \subseteq Msgs /\ Ext \in filled
  /\ \A i \in DOMAIN stack :
       ~stack[i].given => IF stack[i].packs THEN stack[i].owns ELSE stack[i].ptr \in filled

FillInv ==
  /\ WrapInv /\ FieldsFilled
  /\ Len(stack) <= MaxDepth /\ lastSend \in {"none", "queued"}

\* One more wrapper, over a filled Message or one its class has yet to pack().
LEMMA PushFilled ==
  ASSUME FillInv, WrapInv', Len(stack) < MaxDepth,
         NEW w \in Wrapper, stack' = Append(stack, w), lastSend' = lastSend,
         filled' \subseteq Msgs, \A m \in filled : (m = w.ptr /\ w.owns) \/ m \in filled',
         w.packs => w.owns, ~w.packs => w.ptr \in filled', w.ptr = Ext => ~w.owns,
         w.owns => \A i \in DOMAIN stack : ~stack[i].given => stack[i].ptr # w.ptr
  PROVE  FillInv'
<1> DEFINE n == Len(stack)
<1>1. /\ n \in Nat /\ DOMAIN stack = 1 .. n /\ DOMAIN stack' = 1 .. n + 1
      /\ Len(stack') = n + 1 /\ stack'[n + 1] = w
      /\ \A i \in 1 .. n : stack'[i] = stack[i]
  BY Pushed DEF FillInv, WrapInv, OwnInv
<1>2. Len(stack') <= MaxDepth
  BY <1>1, NanoPbMsgAssumption
<1>3. Ext \in filled'
  BY DEF FillInv, FieldsFilled
<1>4. ASSUME NEW i \in DOMAIN stack', ~stack'[i].given
      PROVE  IF stack'[i].packs THEN stack'[i].owns ELSE stack'[i].ptr \in filled'
  <2>1. CASE i = n + 1
    BY <2>1, <1>1
  <2>2. CASE i \in 1 .. n
    <3>1. stack[i] = stack'[i] /\ (stack[i].packs \/ stack[i].ptr \in filled)
      BY <2>2, <1>1, <1>4 DEF FillInv, FieldsFilled
    <3>2. stack[i].packs => stack[i].owns
      BY <2>2, <1>1, <1>4 DEF FillInv, FieldsFilled
    <3> QED  BY <2>2, <1>1, <1>4, <3>1, <3>2
  <2> QED  BY <2>1, <2>2, <1>1
<1> QED  BY <1>2, <1>3, <1>4 DEF FillInv, FieldsFilled

\* The wrappers stay; Messages may have been packed, and a filled one sent.
LEMMA SameFilled ==
  ASSUME FillInv, WrapInv', UNCHANGED stack,
         filled \subseteq filled', filled' \subseteq Msgs, lastSend' \in {"none", "queued"}
  PROVE  FillInv'
  BY DEF FillInv, FieldsFilled

\* Every step of such a firmware.
LEMMA FillStep ==
  ASSUME CopiesOwned = FALSE, UsesGiven = FALSE, FillInv, [Next]_vars
  PROVE  FillInv'
<1>1. WrapInv /\ WrapInv' /\ OwnInv /\ stack \in Seq(Wrapper)
  BY WrapStep DEF FillInv, WrapInv, OwnInv
<1>2. \A i \in DOMAIN stack : stack[i] \in Wrapper /\ stack[i].ptr \in Msgs
  BY <1>1 DEF Wrapper
<1>3. \A i \in DOMAIN stack :
        ~stack[i].given => Valid(stack[i].ptr) /\ (stack[i].packs => stack[i].owns)
                             /\ (~stack[i].packs => stack[i].ptr \in filled)
  BY <1>1, PointersValid DEF FillInv, FieldsFilled
<1>4. filled \subseteq Msgs /\ Ext \in filled /\ lastSend \in {"none", "queued"}
  BY DEF FillInv, FieldsFilled
<1>5. ASSUME NEW packs \in BOOLEAN, NEW b \in Blocks, New(packs, b)
      PROVE  FillInv'
  <2> DEFINE w == [ptr |-> b, owns |-> TRUE, packs |-> packs, given |-> FALSE]
  <2>1. w \in Wrapper /\ b # Ext
    BY NanoPbMsgAssumption DEF Wrapper, Msgs
  <2>2. \A i \in DOMAIN stack : ~stack[i].given => stack[i].ptr # b
    BY <1>3, <1>5, <2>1 DEF New, Valid
  <2>3. /\ filled' \subseteq Msgs /\ (~packs => b \in filled')
        /\ \A m \in filled : m = b \/ m \in filled'
    BY <1>4, <1>5 DEF New, Msgs
  <2>4. lastSend' = lastSend /\ Len(stack) < MaxDepth /\ stack' = Append(stack, w)
    BY <1>5 DEF New
  <2> HIDE DEF w
  <2>5. w.ptr = b /\ w.owns /\ w.packs = packs
    BY DEF w
  <2> QED  BY <1>1, <2>1, <2>2, <2>3, <2>4, <2>5, PushFilled
<1>6. ASSUME NEW m \in filled', NEW g \in BOOLEAN, lastSend' = lastSend,
             Len(stack) < MaxDepth, stack' = Borrow(m, g), filled \subseteq filled',
             filled' \subseteq Msgs
      PROVE  FillInv'
  <2> DEFINE w == [ptr |-> m, owns |-> FALSE, packs |-> FALSE, given |-> g]
  <2>1. w \in Wrapper /\ stack' = Append(stack, w)
    BY <1>6 DEF Wrapper, Borrow
  <2> HIDE DEF w
  <2>2. w.ptr = m /\ ~w.owns /\ ~w.packs
    BY DEF w
  <2> QED  BY <1>1, <1>6, <2>1, <2>2, PushFilled
<1>7. CASE Wrap
  BY <1>4, <1>6, <1>7 DEF Wrap
<1>8. \A i \in DOMAIN stack :
        MayUse(i) => /\ ~stack[i].given /\ Valid(stack[i].ptr)
                     /\ ~stack[i].packs => stack[i].ptr \in filled
  <2>1. \A i \in DOMAIN stack : MayUse(i) => ~stack[i].given
    BY DEF MayUse
  <2> QED  BY <1>3, <2>1
<1>9. ASSUME NEW i \in DOMAIN stack, FromReference(i) PROVE FillInv'
  <2>1. Valid(stack[i].ptr) /\ (~stack[i].packs => stack[i].ptr \in filled)
    BY <1>8, <1>9 DEF FromReference
  <2>2. /\ filled' = IF stack[i].packs THEN filled \cup {stack[i].ptr} ELSE filled
        /\ stack' = Borrow(stack[i].ptr, stack[i].given) /\ Len(stack) < MaxDepth
        /\ lastSend' = lastSend
    BY <1>9, <2>1 DEF FromReference
  <2>3. stack[i].ptr \in filled' /\ filled \subseteq filled' /\ filled' \subseteq Msgs
    BY <1>2, <1>4, <2>1, <2>2
  <2>4. stack[i].given \in BOOLEAN
    BY <1>2 DEF Wrapper
  <2> QED  BY <1>6, <2>2, <2>3, <2>4
<1>10. ASSUME NEW i \in DOMAIN stack, FromValue(i) PROVE FillInv'
  <2>1. Valid(stack[i].ptr) /\ ~stack[i].owns /\ stack[i].ptr \in filled
    <3>1. MayUse(i) /\ ~stack[i].owns
      BY <1>1, <1>10, UseFacts DEF FromValue
    <3> QED  BY <1>3, <1>8, <3>1
  <2>2. stack' = Borrow(stack[i].ptr, stack[i].given) /\ Len(stack) < MaxDepth
        /\ UNCHANGED <<filled, lastSend>>
    BY <1>10, <2>1 DEF FromValue
  <2>3. stack[i].given \in BOOLEAN
    BY <1>2 DEF Wrapper
  <2> QED  BY <1>4, <1>6, <2>1, <2>2, <2>3
<1>11. ASSUME NEW i \in DOMAIN stack, SendRaw(i) PROVE FillInv'
  <2>1. Valid(stack[i].ptr) /\ (~stack[i].packs => stack[i].ptr \in filled)
    BY <1>8, <1>11 DEF SendRaw
  <2>2. /\ filled' = IF stack[i].packs THEN filled \cup {stack[i].ptr} ELSE filled
        /\ lastSend' = Outcome(stack[i].ptr, filled') /\ UNCHANGED stack
    BY <1>11, <2>1 DEF SendRaw
  <2>3. stack[i].ptr \in filled' /\ filled \subseteq filled' /\ filled' \subseteq Msgs
    BY <1>2, <1>4, <2>1, <2>2
  <2> QED  BY <1>1, <2>2, <2>3, SameFilled DEF Outcome
<1>12. ASSUME NEW i \in DOMAIN stack, SendValue(i) PROVE FillInv'
  <2>1. Valid(stack[i].ptr) /\ stack[i].ptr \in filled
    <3>1. MayUse(i) /\ ~stack[i].owns
      BY <1>1, <1>12, UseFacts DEF SendValue
    <3> QED  BY <1>3, <1>8, <3>1
  <2> QED  BY <1>1, <1>4, <1>12, <2>1, SameFilled DEF SendValue, Outcome
<1>13. ASSUME NEW k \in DOMAIN stack, Disown(k) PROVE FillInv'
  <2> DEFINE n == Len(stack)
  <2>1. /\ n \in Nat /\ DOMAIN stack = 1 .. n /\ DOMAIN stack' = 1 .. n /\ Len(stack') = n
        /\ \A j \in 1 .. n :
             /\ stack'[j].ptr = stack[j].ptr /\ stack'[j].packs = stack[j].packs
             /\ stack'[j].owns = (stack[j].owns /\ j # k)
             /\ stack'[j].given = (stack[j].given \/ stack[j].ptr = stack[k].ptr)
    BY <1>1, <1>13, DisownFacts, NanoPbMsgAssumption
  <2>2. UNCHANGED <<filled, lastSend>> /\ n <= MaxDepth
    BY <1>13 DEF Disown, FillInv
  <2>3. ASSUME NEW j \in 1 .. n, ~stack'[j].given
        PROVE  IF stack'[j].packs THEN stack'[j].owns ELSE stack'[j].ptr \in filled'
    <3>1. ~stack[j].given /\ j # k
      BY <2>1, <2>3
    <3> QED  BY <1>3, <2>1, <2>2, <3>1
  <2> QED  BY <1>1, <1>4, <2>1, <2>2, <2>3 DEF FillInv, FieldsFilled
<1>14. CASE Destroy
  <2> DEFINE n == Len(stack)
  <2>1. /\ n \in Nat \ {0} /\ DOMAIN stack = 1 .. n
        /\ Len(stack') = n - 1 /\ DOMAIN stack' = 1 .. n - 1
        /\ \A i \in 1 .. n - 1 : stack'[i] = stack[i]
    BY <1>1, <1>14, Popped
  <2>2. UNCHANGED <<filled, lastSend>>
    BY <1>14 DEF Destroy
  <2> QED  BY <1>1, <1>4, <2>1, <2>2, NanoPbMsgAssumption DEF FillInv, FieldsFilled
<1>15. ASSUME NEW b \in Blocks, QueueRelease(b) PROVE FillInv'
  BY <1>1, <1>4, <1>15, SameFilled DEF QueueRelease
<1>16. CASE UNCHANGED vars
  BY <1>1, <1>4, <1>16, SameFilled DEF vars
<1> QED  BY <1>5, <1>7, <1>9, <1>10, <1>11, <1>12, <1>13, <1>14, <1>15, <1>16 DEF Next

\* The firmware's own Message is filled before it is wrapped.
LEMMA FillInit == Init => FillInv
<1> SUFFICES ASSUME Init PROVE FillInv
  OBVIOUS
<1>1. WrapInv
  BY WrapInit
<1>2. DOMAIN stack = {} /\ Len(stack) = 0 /\ filled = {Ext} /\ lastSend = "none"
  BY DEF Init
<1> QED  BY <1>1, <1>2, NanoPbMsgAssumption DEF FillInv, FieldsFilled, Msgs

\* The wrappers, the heap and the outcome of a send keep their types.
THEOREM WrapperTypeCorrect ==
  ASSUME CopiesOwned = FALSE, UsesGiven = FALSE PROVE Spec => []TypeOK
<1>1. Init => FillInv
  BY FillInit
<1>2. FillInv /\ [Next]_vars => FillInv'
  BY FillStep
<1>3. FillInv => TypeOK
  BY DEF FillInv, WrapInv, OwnInv, FieldsFilled, NoFault, TypeOK
<1> QED  BY <1>1, <1>2, <1>3, PTL DEF Spec

\* Under the same two conditions no send, through getRaw() or by value, of a wrapper
\* or of a view of it, meets a Message whose class has not packed it.
THEOREM WrapperSendsFilled ==
  ASSUME CopiesOwned = FALSE, UsesGiven = FALSE PROVE Spec => []SentIsQueued
<1>1. Init => FillInv
  BY FillInit
<1>2. FillInv /\ [Next]_vars => FillInv'
  BY FillStep
<1>3. FillInv => SentIsQueued
  BY DEF FillInv, SentIsQueued
<1> QED  BY <1>1, <1>2, <1>3, PTL DEF Spec
=============================================================================

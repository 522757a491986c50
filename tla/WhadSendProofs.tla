--------------------------- MODULE WhadSendProofs ---------------------------
(***************************************************************************)
(* For every set of lists, of blocks and any capacity: a firmware that     *)
(* builds a refused message anew never misuses the heap, never leaks and   *)
(* tells its lists up to the first zero bound.                             *)
(***************************************************************************)
EXTENDS WhadSend, SequenceTheorems, WellFoundedInduction, TLAPS

\* What the caller of whad_send_message relies on: no misuse so far, and the
\* only live list is the one of the Message it holds.
HeapInv ==
  /\ NoFault /\ OwnershipFollowsResult
  /\ msg \in {Unset} \cup {Freqs(b) : b \in Blocks}

\* The two kinds of Message the firmware holds are told apart by which_msg, and
\* whad_free_message_resources frees exactly the list of the second.
LEMMA FreeFacts ==
  ASSUME NEW b \in Blocks, msg = Freqs(b), live = {b}, FreeResources(msg)
  PROVE  live' = {} /\ fault' = fault
<1>1. msg.which = "freqs" /\ msg.arg = b
  BY DEF Freqs
<1> QED  BY <1>1 DEF FreeResources

\* A Message with a list is not an empty one.
LEMMA FreqsSet == ASSUME NEW b PROVE Freqs(b) # Unset
<1>1. Freqs(b).which = "freqs" /\ Unset.which = "unset"
  BY DEF Freqs, Unset
<1> QED  BY <1>1

\* The invariant holds of every step of a firmware that rebuilds: whatever
\* whad_send_message answers, the list is freed once or stays with the caller.
LEMMA HeapStep ==
  ASSUME Rebuilds = TRUE, HeapInv, [Next]_vars
  PROVE  HeapInv'
<1> USE DEF HeapInv, NoFault, OwnershipFollowsResult
<1>1. ASSUME NEW l \in Lists, Decide(l) PROVE HeapInv'
  BY <1>1 DEF Decide
<1>2. CASE SupportedFrequencies
  <2>1. PICK b \in Blocks \ live : live' = live \cup {b} /\ msg' = Freqs(b)
    BY <1>2 DEF SupportedFrequencies
  <2>2. msg'.arg = b /\ msg' # Unset
    BY <2>1, FreqsSet DEF Freqs
  <2> QED  BY <1>2, <2>1, <2>2 DEF SupportedFrequencies
<1>3. CASE Send
  <2>1. CanSend
    BY <1>3 DEF Send, SendFails, SendSuccess, SendFull
  <2>2. PICK b \in Blocks : msg = Freqs(b)
    BY <2>1 DEF CanSend
  <2>3. msg.arg = b /\ live = {b}
    BY <2>1, <2>2 DEF CanSend, Freqs
  <2>4. FreeResources(msg) /\ msg' = Unset
    BY <1>3, <2>3 DEF Send, SendFails, SendSuccess, SendFull
  <2> QED  BY <2>2, <2>3, <2>4, FreeFacts
<1>4. CASE SendOther
  <2>1. live' = live /\ fault' = fault
    BY <1>4 DEF SendOther, FreeResources
  <2> QED  BY <1>4, <2>1 DEF SendOther
<1>5. CASE Drain
  BY <1>5 DEF Drain
<1>6. CASE UNCHANGED vars
  BY <1>6 DEF vars
<1> QED  BY <1>1, <1>2, <1>3, <1>4, <1>5, <1>6 DEF Next

\* whad_send_message and whad_free_message_resources, used by a firmware that
\* does not reuse a refused Message: no freed list is encoded or freed again.
THEOREM SendNoFault ==
  ASSUME Rebuilds = TRUE PROVE Spec => []NoFault
<1>1. Init => HeapInv
  BY DEF Init, HeapInv, NoFault, OwnershipFollowsResult
<1>2. HeapInv /\ [Next]_vars => HeapInv'
  BY HeapStep
<1>3. HeapInv => NoFault
  BY DEF HeapInv
<1> QED  BY <1>1, <1>2, <1>3, PTL DEF Spec

\* For the same firmware the list on the heap is the one of the Message it
\* holds, and there is none when it holds no Message: nothing leaks.
THEOREM SendNoLeak ==
  ASSUME Rebuilds = TRUE PROVE Spec => []OwnershipFollowsResult
<1>1. Init => HeapInv
  BY DEF Init, HeapInv, NoFault, OwnershipFollowsResult
<1>2. HeapInv /\ [Next]_vars => HeapInv'
  BY HeapStep
<1>3. HeapInv => OwnershipFollowsResult
  BY DEF HeapInv
<1> QED  BY <1>1, <1>2, <1>3, PTL DEF Spec

-----------------------------------------------------------------------------
\* The block of the Message the firmware holds is the list it has decided to
\* announce, ended by {0,0}.
BlockHoldsList ==
  \A b \in Blocks : msg = Freqs(b) => want # NoList /\ data[b] = Append(want, Sentinel)

SendInv == TypeOK /\ HeapInv /\ BlockHoldsList

\* A list that {0,0} ends is encoded up to its first range with a zero bound.
LEMMA EncodedTells ==
  ASSUME NEW l \in Seq(Nat \X Nat)
  PROVE  /\ Encoded(Append(l, Sentinel)) \in Seq(Nat \X Nat)
         /\ Tells(Encoded(Append(l, Sentinel)), l)
<1> DEFINE s == Append(l, Sentinel)
           n == Len(l)
<1>1. /\ n \in Nat /\ DOMAIN l = 1 .. n /\ DOMAIN s = 1 .. n + 1
      /\ s[n + 1] = Sentinel /\ \A i \in 1 .. n : s[i] = l[i]
  OBVIOUS
<1>2. n + 1 \in Ends(s) /\ Ends(s) \subseteq 1 .. n + 1
  BY <1>1 DEF Ends, Stops, Sentinel
<1> DEFINE first == CHOOSE i \in Ends(s) : \A j \in Ends(s) : i <= j
<1>3. first \in Ends(s) /\ \A j \in Ends(s) : first <= j
  <2>1. Ends(s) \in SUBSET Nat /\ Ends(s) # {}
    BY <1>1, <1>2
  <2> HIDE DEF s
  <2>2. \E i \in Ends(s) : \A j \in Ends(s) : i <= j
    <3>1. PICK i \in Ends(s) : \A j \in Ends(s) : <<j, i>> \notin OpToRel(<, Nat)
      BY <2>1, NatLessThanWellFounded, WFMin
    <3>2. \A j \in Ends(s) : i <= j
      <4> SUFFICES ASSUME NEW j \in Ends(s) PROVE i <= j
        OBVIOUS
      <4>1. i \in Nat /\ j \in Nat
        BY <2>1
      <4>2. ~(j < i)
        BY <3>1, <4>1 DEF OpToRel
      <4> QED  BY <4>1, <4>2
    <3> QED  BY <3>2
  <2> QED  BY <2>2
<1> HIDE DEF first
<1>4. first - 1 \in 0 .. n /\ first \in 1 .. n + 1
  BY <1>1, <1>2, <1>3
<1>5. \A i \in 1 .. first - 1 : ~Stops(l[i])
  <2> SUFFICES ASSUME NEW i \in 1 .. first - 1
               PROVE  ~Stops(l[i])
    OBVIOUS
  <2>1. i \in 1 .. n /\ ~(first <= i)
    BY <1>1, <1>4
  <2>2. i \notin Ends(s) /\ s[i] = l[i] /\ i \in DOMAIN s
    BY <1>1, <1>3, <2>1
  <2> QED  BY <2>2 DEF Ends
<1>6. first - 1 < n => Stops(l[first - 1 + 1])
  <2>1. Stops(s[first])
    BY <1>3 DEF Ends
  <2>2. first - 1 < n => first \in 1 .. n /\ first - 1 + 1 = first
    BY <1>1, <1>4
  <2> QED  BY <1>1, <2>1, <2>2
<1>7. Encoded(s) = SubSeq(l, 1, first - 1) /\ Encoded(s) \in Seq(Nat \X Nat)
  <2>1. Encoded(s) = SubSeq(s, 1, first - 1)
    BY DEF Encoded, first
  <2>2. SubSeq(s, 1, first - 1) = SubSeq(l, 1, first - 1)
    BY <1>1, <1>4
  <2>3. SubSeq(l, 1, first - 1) \in Seq(Nat \X Nat)
    BY <1>1, <1>4
  <2> QED  BY <2>1, <2>2, <2>3
<1> HIDE DEF s, n
<1> QED  BY <1>4, <1>5, <1>6, <1>7 DEF Tells, s, n

\* The invariant of a firmware that rebuilds: what is queued tells the list the
\* Message was built from.
LEMMA SendStep ==
  ASSUME Rebuilds = TRUE, SendInv, [Next]_vars
  PROVE  /\ SendInv'
         /\ Len(queue') > Len(queue) => Tells(queue'[Len(queue')], announced')
<1> USE SendAssumption
<1> DEFINE Told == Len(queue') > Len(queue) => Tells(queue'[Len(queue')], announced')
<1>1. HeapInv' /\ want \in Seq(Nat \X Nat) /\ queue \in Seq(Seq(Nat \X Nat))
  <2>1. HeapInv'
    BY HeapStep DEF SendInv
  <2>2. want \in Seq(Nat \X Nat) /\ queue \in Seq(Seq(Nat \X Nat))
    <3>1. NoList \in Seq(Nat \X Nat)
      BY DEF NoList
    <3> QED  BY <3>1 DEF SendInv, TypeOK
  <2> QED  BY <2>1, <2>2
<1>0. queue' = queue => Told
  <2>1. Len(queue) \in Nat
    BY <1>1
  <2> QED  BY <2>1
<1> USE DEF TypeOK, BlockHoldsList, HeapInv, NoFault, SendInv
<1>2. ASSUME NEW l \in Lists, Decide(l) PROVE SendInv' /\ Told
  BY <1>0, <1>1, <1>2 DEF Decide
<1>3. CASE SupportedFrequencies
  <2>1. PICK b \in Blocks \ live : /\ live' = live \cup {b}
                                   /\ data' = [data EXCEPT ![b] = Append(want, Sentinel)]
                                   /\ msg' = Freqs(b)
    BY <1>3 DEF SupportedFrequencies
  <2>2. Append(want, Sentinel) \in Seq(Nat \X Nat)
    BY <1>1 DEF Sentinel
  <2>3. data' \in [Blocks -> Seq(Nat \X Nat)]
    BY <2>1, <2>2
  <2>4. BlockHoldsList'
    <3> SUFFICES ASSUME NEW c \in Blocks, msg' = Freqs(c)
                 PROVE  want' # NoList /\ data'[c] = Append(want', Sentinel)
      OBVIOUS
    <3>1. c = b
      BY <2>1 DEF Freqs
    <3> QED  BY <1>3, <2>1, <3>1 DEF SupportedFrequencies
  <2>5. UNCHANGED <<want, queue, announced, fault>> /\ live' \subseteq Blocks
    BY <1>3, <2>1 DEF SupportedFrequencies
  <2> HIDE DEF BlockHoldsList, Told
  <2> QED  BY <1>0, <1>1, <2>1, <2>3, <2>4, <2>5
<1>4. CASE SendFails
  <2>1. /\ UNCHANGED <<data, queue, announced>> /\ msg' = Unset /\ want' = NoList
        /\ live' \subseteq live
    <3>1. PICK b \in Blocks : msg = Freqs(b) /\ b \in live
      BY <1>4, FreqsSet DEF SendFails, CanSend, Freqs, OwnershipFollowsResult
    <3> QED  BY <1>4, <3>1 DEF SendFails, FreeResources, Freqs
  <2> QED  BY <1>0, <1>1, <2>1, FreqsSet
<1>5. CASE SendSuccess
  <2>1. PICK b \in Blocks : msg = Freqs(b)
    BY <1>5 DEF SendSuccess, CanSend
  <2>2. msg.arg = b /\ data[b] = Append(want, Sentinel) /\ want # NoList
    BY <2>1 DEF Freqs
  <2> DEFINE e == Encoded(data[b])
  <2>3. e \in Seq(Nat \X Nat) /\ Tells(e, want)
    BY <1>1, <2>2, EncodedTells
  <2>4. queue' = Append(queue, e) /\ announced' = want /\ want' = NoList /\ msg' = Unset
    BY <1>5, <2>2 DEF SendSuccess
  <2> HIDE DEF e
  <2>5. /\ queue' \in Seq(Seq(Nat \X Nat)) /\ Len(queue') = Len(queue) + 1
        /\ queue'[Len(queue')] = e
    BY <1>1, <2>3, <2>4
  <2>6. Len(queue') <= QueueCap
    BY <1>1, <1>5, <2>5 DEF SendSuccess
  <2>7. live' \subseteq Blocks /\ data' = data
    BY <1>5, <2>1 DEF SendSuccess, FreeResources
  <2> QED  BY <1>1, <2>3, <2>4, <2>5, <2>6, <2>7, FreqsSet
<1>6. CASE SendFull
  BY <1>0, <1>1, <1>6, FreqsSet DEF SendFull, CanSend, FreeResources
<1>7. CASE SendOther
  <2>1. queue' = Append(queue, NoList) /\ announced' = NoList /\ live' = live
    BY <1>7 DEF SendOther, FreeResources
  <2>2. /\ queue' \in Seq(Seq(Nat \X Nat)) /\ Len(queue') = Len(queue) + 1
        /\ queue'[Len(queue')] = NoList
    BY <1>1, <2>1 DEF NoList
  <2>3. Tells(NoList, NoList)
    BY DEF Tells, NoList
  <2> QED  BY <1>1, <1>7, <2>1, <2>2, <2>3 DEF SendOther
<1>8. CASE Drain
  <2>1. queue' \in Seq(Seq(Nat \X Nat)) /\ Len(queue') = Len(queue) - 1
    <3> DEFINE S == Seq(Nat \X Nat)
    <3>1. queue # <<>> /\ queue' = Tail(queue) /\ queue \in Seq(S)
      BY <1>1, <1>8 DEF Drain
    <3> HIDE DEF S, TypeOK, SendInv, HeapInv, BlockHoldsList
    <3>2. queue' \in Seq(S) /\ Len(queue') = Len(queue) - 1
      BY <3>1, HeadTailProperties
    <3> QED  BY <3>2 DEF S
  <2>2. UNCHANGED <<live, data, msg, want, announced, fault>>
    BY <1>8 DEF Drain
  <2>3. Len(queue) \in Nat /\ Len(queue) <= QueueCap
    BY <1>1
  <2>4. Len(queue') <= QueueCap /\ ~(Len(queue') > Len(queue))
    BY <2>1, <2>3
  <2> QED  BY <1>1, <2>1, <2>2, <2>4
<1>9. CASE UNCHANGED vars
  BY <1>0, <1>1, <1>9 DEF vars
<1> QED  BY <1>2, <1>3, <1>4, <1>5, <1>6, <1>7, <1>8, <1>9 DEF Next, Send

\* The invariant holds when the firmware starts.
LEMMA SendInit ==
  ASSUME Init PROVE SendInv
<1>1. NoList \in Seq(Nat \X Nat) /\ <<>> \in Seq(Seq(Nat \X Nat))
  BY DEF NoList
<1> QED
  BY <1>1, FreqsSet, SendAssumption DEF Init, SendInv, TypeOK, HeapInv, NoFault, OwnershipFollowsResult,
                        BlockHoldsList

\* The Message, the heap and the queue of whad_send_message keep their types when
\* the firmware rebuilds a refused message.
THEOREM SendTypeCorrect ==
  ASSUME Rebuilds = TRUE PROVE Spec => []TypeOK
<1>1. Init => SendInv
  BY SendInit
<1>2. SendInv /\ [Next]_vars => SendInv'
  BY SendStep
<1>3. SendInv => TypeOK
  BY DEF SendInv
<1> QED  BY <1>1, <1>2, <1>3, PTL DEF Spec

\* For the same firmware, and whatever lists it announces, zero bounds included,
\* whad_phy_frequency_range_encode_cb tells the host the list up to its first range
\* with a zero bound, however often whad_send_message was refused before.
THEOREM SendAnnouncesToZero ==
  ASSUME Rebuilds = TRUE PROVE Spec => AnnouncedToZero
<1>1. Init => SendInv
  BY SendInit
<1>2. SendInv /\ [Next]_vars => SendInv'
  BY SendStep
<1>3. SendInv /\ [Next]_vars
        => [Len(queue') > Len(queue) => Tells(queue'[Len(queue')], announced')]_vars
  BY SendStep
<1> QED  BY <1>1, <1>2, <1>3, PTL DEF Spec, AnnouncedToZero
=============================================================================

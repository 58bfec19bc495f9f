----------------------------- MODULE TapIfProofs ----------------------------
(***************************************************************************)
(* For every size of the list and every number of packets: the packet list *)
(* is intact between calls that never overlap, packets are taken in order  *)
(* even between calls that do, and only an overlap leads to freed memory.  *)
(***************************************************************************)
EXTENDS TapIf, TLAPS

\* Packets lo + 1 to hi are linked, and nothing follows the last one pushed.
Linked(lo, hi) ==
  /\ \A p \in Packets : p > lo /\ p < hi => next[p] = p + 1
  /\ \A p \in Packets : p >= hi => next[p] = 0

FirstOf(lo, hi) == IF lo = hi THEN 0 ELSE lo + 1

LastOf(lo, hi) == IF lo = hi THEN 0 ELSE hi

\* The list holds packets lo + 1 to hi.
Holds(lo, hi) ==
  /\ elems = hi - lo /\ first = FirstOf(lo, hi) /\ last = LastOf(lo, hi)
  /\ Linked(lo, hi)

\* The list at each place in list_push: the packet pushed is being added.
Pushing ==
  /\ taken < pushed
  /\ elems = pushed - 1 - taken
  /\ ppc = "last" => Holds(taken, pushed - 1)
  /\ ppc = "link" => /\ Holds(taken, pushed - 1)
                     /\ taken < pushed - 1 /\ preg = last
  /\ ppc = "setlast" => first = FirstOf(taken, pushed - 1) /\ Linked(taken, pushed)
  /\ ppc = "first" => /\ first = FirstOf(taken, pushed - 1) /\ last = pushed
                      /\ Linked(taken, pushed)
  /\ ppc = "setfirst" => /\ taken = pushed - 1 /\ last = pushed
                         /\ Linked(taken, pushed)
  /\ ppc \in {"load", "store"} => /\ first = taken + 1 /\ last = pushed
                                  /\ Linked(taken, pushed)
  /\ ppc = "store" => preg = elems

\* The list at each place in list_pop after the element was read: the packet
\* taken is being removed.
Popping ==
  /\ celem = taken /\ taken > 0 /\ taken <= pushed
  /\ elems = pushed - taken + 1
  /\ Linked(taken - 1, pushed)
  /\ cpc = "last" => last = pushed
  /\ cpc = "setlast" => taken = pushed
  /\ cpc \in {"setfirst", "load", "store"} => last = LastOf(taken, pushed)
  /\ cpc \in {"load", "store"} => first = FirstOf(taken, pushed)
  /\ cpc = "store" => creg = elems

PushPlaces == {"last", "link", "setlast", "first", "setfirst", "load", "store"}
PopPlaces == {"last", "setlast", "setfirst", "load", "store"}

ListInv ==
  /\ taken \in Nat /\ pushed \in 0..MaxPackets /\ taken <= pushed
  /\ next \in [Packets -> Int]
  /\ freed \subseteq Int /\ \A p \in freed : p <= taken
  /\ ppc \in PushPlaces \cup {"idle", "signal"}
  /\ cpc \in PopPlaces \cup Idle \cup {"first"}
  /\ ppc \in PushPlaces => cpc \in Idle /\ Pushing
  /\ cpc \in PopPlaces => ppc \in {"idle", "signal"} /\ Popping
  /\ cpc = "first" => ppc \in {"idle", "signal"} /\ elems > 0
  /\ ppc \notin PushPlaces /\ cpc \notin PopPlaces => Holds(taken, pushed)

IInv == overlapped \in BOOLEAN /\ (~overlapped => ListInv)

-----------------------------------------------------------------------------
\* The invariant holds of the new list.
LEMMA InitIInv == Init => IInv
<1> SUFFICES ASSUME Init PROVE IInv
  OBVIOUS
<1>1. next \in [Packets -> Int] /\ \A p \in Packets : next[p] = 0
  BY DEF Init
<1>2. Holds(0, 0)
  BY <1>1 DEF Init, Holds, Linked, FirstOf, LastOf, Packets
<1>3. ppc = "idle" /\ cpc \in Idle
  BY DEF Init, Idle
<1>4. ListInv
  BY <1>1, <1>2, <1>3, SizeAssumption DEF Init, ListInv, PushPlaces, PopPlaces, Idle
<1> QED BY <1>4 DEF Init, IInv

\* A step of list_push that overlaps no pop.
LEMMA PushSteps ==
  ASSUME ListInv, ~overlapped', PushStart \/ Push
  PROVE  ListInv'
<1> USE SizeAssumption
<1>0. /\ ppc' # "idle" => cpc \in Idle
      /\ cpc' = cpc /\ celem' = celem /\ creg' = creg /\ taken' = taken /\ freed' = freed
  BY DEF PushStart, Push, PushTestLast, PushLink, PushSetLast, PushTestFirst,
     PushSetFirst, PushLoad, PushStore, Signal, Producer, popVars
<1>1. CASE PushStart
  BY <1>0, <1>1
  DEF PushStart, Producer, ListInv, Pushing, Popping, Holds, Linked,
      FirstOf, LastOf, PushPlaces, PopPlaces, Idle, Packets
<1>2. CASE PushTestLast
  BY <1>0, <1>2
  DEF PushTestLast, Producer, listVars, ListInv, Pushing, Popping, Holds, Linked,
      FirstOf, LastOf, PushPlaces, PopPlaces, Idle, Packets
<1>3. CASE PushLink
  <2>1. /\ ppc = "link" /\ ppc' = "setlast" /\ cpc \in Idle /\ Pushing
        /\ UNCHANGED <<first, last, elems, pushed>>
    BY <1>0, <1>3 DEF PushLink, Producer, ListInv, PushPlaces
  <2>2. /\ taken < pushed - 1 /\ preg = last /\ last = pushed - 1
        /\ first = FirstOf(taken, pushed - 1) /\ Linked(taken, pushed - 1)
        /\ last \in Packets
    BY <2>1 DEF Pushing, Holds, LastOf, ListInv, Packets
  <2>3. last # 0 /\ last \notin freed
    BY <2>2 DEF ListInv
  <2>4. next' = [next EXCEPT ![last] = pushed]
    BY <1>3, <2>2, <2>3 DEF PushLink
  <2>5. Linked(taken, pushed)' /\ next' \in [Packets -> Int]
    BY <1>0, <2>1, <2>2, <2>4 DEF Linked, ListInv, Packets
  <2>6. Pushing'
    BY <1>0, <2>1, <2>2, <2>5 DEF Pushing, FirstOf
  <2> QED
    BY <1>0, <2>1, <2>5, <2>6 DEF ListInv, PushPlaces, PopPlaces, Idle
<1>4. CASE PushSetLast
  BY <1>0, <1>4
  DEF PushSetLast, Producer, ListInv, Pushing, Popping, Holds, Linked,
      FirstOf, LastOf, PushPlaces, PopPlaces, Idle, Packets
<1>5. CASE PushTestFirst
  BY <1>0, <1>5
  DEF PushTestFirst, Producer, listVars, ListInv, Pushing, Popping, Holds, Linked,
      FirstOf, LastOf, PushPlaces, PopPlaces, Idle, Packets
<1>6. CASE PushSetFirst
  BY <1>0, <1>6
  DEF PushSetFirst, Producer, ListInv, Pushing, Popping, Holds, Linked,
      FirstOf, LastOf, PushPlaces, PopPlaces, Idle, Packets
<1>7. CASE PushLoad
  BY <1>0, <1>7
  DEF PushLoad, Producer, listVars, ListInv, Pushing, Popping, Holds, Linked,
      FirstOf, LastOf, PushPlaces, PopPlaces, Idle, Packets
<1>8. CASE PushStore
  BY <1>0, <1>8
  DEF PushStore, Producer, ListInv, Pushing, Popping, Holds, Linked,
      FirstOf, LastOf, PushPlaces, PopPlaces, Idle, Packets
<1>9. CASE Signal
  BY <1>0, <1>9
  DEF Signal, Producer, listVars, ListInv, Pushing, Popping, Holds, Linked,
      FirstOf, LastOf, PushPlaces, PopPlaces, Idle, Packets
<1> QED BY <1>1, <1>2, <1>3, <1>4, <1>5, <1>6, <1>7, <1>8, <1>9 DEF Push

\* A step of the consumer that overlaps no push.
LEMMA PopSteps ==
  ASSUME ListInv, ~overlapped', Pop
  PROVE  ListInv'
<1> USE SizeAssumption
<1>0. /\ cpc' \notin Idle => ppc \in {"idle", "signal"}
      /\ ppc' = ppc /\ preg' = preg
  BY DEF Pop, Wake, PopStart, PopFirst, PopTestLast, PopSetLast, PopSetFirst,
     PopLoad, PopStore, SendPacket, InputPacket, Consumer, pushVars
<1>1. CASE Wake
  BY <1>0, <1>1
  DEF Wake, Consumer, listVars, ListInv, Pushing, Popping, Holds, Linked,
      FirstOf, LastOf, PushPlaces, PopPlaces, Idle, Packets
<1>2. CASE PopStart
  BY <1>0, <1>2
  DEF PopStart, Consumer, listVars, ListInv, Pushing, Popping, Holds, Linked,
      FirstOf, LastOf, PushPlaces, PopPlaces, Idle, Packets
<1>3. CASE PopFirst
  <2>1. /\ cpc = "first" /\ cpc' = "last" /\ ppc \in {"idle", "signal"} /\ elems > 0
        /\ Holds(taken, pushed)
        /\ UNCHANGED <<first, last, elems, next, pushed, freed>>
    BY <1>3 DEF PopFirst, Consumer, listVars, ListInv, PushPlaces, PopPlaces
  <2>2. /\ taken < pushed /\ first = taken + 1 /\ last = pushed
        /\ elems = pushed - taken /\ Linked(taken, pushed)
    BY <2>1 DEF Holds, FirstOf, LastOf, ListInv
  <2>3. celem' = taken + 1 /\ taken' = taken + 1
    BY <1>3, <2>2 DEF PopFirst, ListInv
  <2>4. Linked(taken - 1, pushed)'
    BY <2>1, <2>2, <2>3 DEF Linked, ListInv
  <2>5. Popping'
    BY <2>1, <2>2, <2>3, <2>4 DEF Popping, ListInv
  <2> QED
    BY <1>0, <2>1, <2>2, <2>3, <2>5 DEF ListInv, PushPlaces, PopPlaces, Idle
<1>4. CASE PopTestLast
  BY <1>0, <1>4
  DEF PopTestLast, Consumer, listVars, ListInv, Pushing, Popping, Holds, Linked,
      FirstOf, LastOf, PushPlaces, PopPlaces, Idle, Packets
<1>5. CASE PopSetLast
  BY <1>0, <1>5
  DEF PopSetLast, Consumer, ListInv, Pushing, Popping, Holds, Linked,
      FirstOf, LastOf, PushPlaces, PopPlaces, Idle, Packets
<1>6. CASE PopSetFirst
  BY <1>0, <1>6
  DEF PopSetFirst, Consumer, ListInv, Pushing, Popping, Holds, Linked,
      FirstOf, LastOf, PushPlaces, PopPlaces, Idle, Packets
<1>7. CASE PopLoad
  BY <1>0, <1>7
  DEF PopLoad, Consumer, listVars, ListInv, Pushing, Popping, Holds, Linked,
      FirstOf, LastOf, PushPlaces, PopPlaces, Idle, Packets
<1>8. CASE PopStore
  <2>1. /\ cpc = "store" /\ cpc' = "handle" /\ ppc \in {"idle", "signal"} /\ Popping
        /\ elems' = creg - 1 /\ freed' = freed \cup {celem}
        /\ UNCHANGED <<first, last, next, pushed, taken>>
    BY <1>8 DEF PopStore, Consumer, ListInv, PopPlaces
  <2>2. Holds(taken, pushed)'
    BY <2>1 DEF Popping, Holds, Linked, FirstOf, LastOf, ListInv, Packets
  <2>3. freed' \subseteq Int /\ \A p \in freed' : p <= taken'
    BY <2>1 DEF Popping, ListInv
  <2> QED
    BY <1>0, <2>1, <2>2, <2>3 DEF ListInv, PushPlaces, PopPlaces, Idle
<1>9. CASE SendPacket
  BY <1>0, <1>9
  DEF SendPacket, Consumer, listVars, ListInv, Pushing, Popping, Holds, Linked,
      FirstOf, LastOf, PushPlaces, PopPlaces, Idle, Packets
<1>10. CASE InputPacket
  BY <1>0, <1>10
  DEF InputPacket, Consumer, listVars, ListInv, Pushing, Popping, Holds, Linked,
      FirstOf, LastOf, PushPlaces, PopPlaces, Idle, Packets
<1> QED BY <1>1, <1>2, <1>3, <1>4, <1>5, <1>6, <1>7, <1>8, <1>9, <1>10 DEF Pop

\* Once a push and a pop have overlapped, nothing more is claimed.
LEMMA OverlapStays ==
  ASSUME IInv, Next
  PROVE  overlapped' \in BOOLEAN /\ (overlapped => overlapped')
<1>1. CASE PushRefused
  BY <1>1 DEF PushRefused, vars, IInv
<1>2. CASE PushStart \/ Push
  BY <1>2 DEF PushStart, Push, PushTestLast, PushLink, PushSetLast, PushTestFirst,
     PushSetFirst, PushLoad, PushStore, Signal, Producer
<1>3. CASE Pop
  BY <1>3 DEF Pop, Wake, PopStart, PopFirst, PopTestLast, PopSetLast, PopSetFirst,
     PopLoad, PopStore, SendPacket, InputPacket, Consumer
<1> QED BY <1>1, <1>2, <1>3 DEF Next

\* Every step preserves the invariant.
LEMMA NextIInv == IInv /\ [Next]_vars => IInv'
<1> SUFFICES ASSUME IInv, [Next]_vars PROVE IInv'
  OBVIOUS
<1>1. CASE UNCHANGED vars
  BY <1>1
  DEF vars, listVars, pushVars, popVars, IInv, ListInv, Pushing, Popping, Holds,
      Linked
<1>2. CASE Next
  <2>1. SUFFICES ASSUME ~overlapped' PROVE ListInv'
    BY <1>2, OverlapStays DEF IInv
  <2>2. ListInv
    BY <1>2, <2>1, OverlapStays DEF IInv
  <2>3. CASE PushRefused
    BY <1>1, <2>1, <2>3 DEF PushRefused, IInv
  <2> QED BY <1>2, <2>1, <2>2, <2>3, PushSteps, PopSteps DEF Next
<1> QED BY <1>1, <1>2

\* Between calls of list_push and list_pop that have never overlapped, the
\* list holds exactly the packets not yet taken, in order, and its fields
\* agree: losses come from overlap alone.
THEOREM ListStaysIntact == Spec => []ListIntact
<1>1. IInv => ListIntact
  BY DEF IInv, ListInv, ListIntact, Holds, Linked, FirstOf, LastOf, PushPlaces,
     PopPlaces, Idle, Packets
<1> QED BY <1>1, InitIInv, NextIInv, PTL DEF Spec

-----------------------------------------------------------------------------
\* What holds whatever overlaps: links lead to later packets, first never falls
\* behind the packet taken last, and that one is freed when list_pop is left.

Ordered ==
  /\ pushed \in 0..MaxPackets /\ taken \in 0..pushed
  /\ first \in 0..pushed /\ last \in 0..pushed
  /\ first = 0 \/ first >= taken
  /\ next \in [Packets -> 0..pushed]
  /\ \A p \in Packets : next[p] = 0 \/ next[p] > p

Unlinked ==
  /\ ppc \in {"last", "link"} =>
       last < pushed /\ \A p \in Packets : next[p] < pushed
  /\ ppc = "link" => preg \in 0..(pushed - 1)

PopOrder ==
  ~undefined =>
    /\ cpc \in PopPlaces => celem = taken /\ taken > 0
    /\ cpc \notin PopPlaces => celem = 0 /\ (taken = 0 \/ taken \in freed)

OrderInv == Ordered /\ Unlinked /\ PopOrder

\* An empty list is ordered.
LEMMA InitOrder == Init => OrderInv
<1> SUFFICES ASSUME Init PROVE OrderInv
  OBVIOUS
<1>1. next \in [Packets -> 0..0] /\ \A p \in Packets : next[p] = 0
  BY DEF Init
<1>2. Ordered
  BY <1>1, SizeAssumption DEF Init, Ordered
<1> QED
  BY <1>2 DEF Init, OrderInv, Unlinked, PopOrder, PopPlaces

\* A step of list_push, whatever list_pop does meanwhile.
LEMMA PushKeepsOrder ==
  ASSUME OrderInv, PushStart \/ Push
  PROVE  OrderInv'
<1> USE SizeAssumption DEF OrderInv
<1>0. UNCHANGED <<cpc, celem, creg, taken, freed>> /\ ~undefined
  BY DEF PushStart, Push, PushTestLast, PushLink, PushSetLast, PushTestFirst,
     PushSetFirst, PushLoad, PushStore, Signal, Producer, popVars
<1>1. PopOrder'
  BY <1>0 DEF PopOrder
<1>2. CASE PushStart
  <2>1. pushed' = pushed + 1 /\ pushed < MaxPackets /\ ppc' = "last"
        /\ UNCHANGED <<first, last, next, preg>>
    BY <1>2 DEF PushStart, Producer
  <2>2. Ordered'
    BY <1>0, <2>1 DEF Ordered
  <2>3. Unlinked'
    BY <2>1 DEF Ordered, Unlinked
  <2> QED BY <1>1, <2>2, <2>3
<1>3. CASE PushTestLast
  <2>1. ppc = "last" /\ preg' = last /\ UNCHANGED <<first, last, next, pushed>>
    BY <1>3 DEF PushTestLast, Producer, listVars
  <2>2. Ordered'
    BY <1>0, <2>1 DEF Ordered
  <2>3. Unlinked'
    BY <2>1 DEF Ordered, Unlinked
  <2> QED BY <1>1, <2>2, <2>3
<1>4. CASE PushLink
  <2>1. ppc = "link" /\ ppc' = "setlast" /\ UNCHANGED <<first, last, pushed>>
    BY <1>4 DEF PushLink, Producer
  <2>2. PICK l \in {preg, last} :
          next' = next \/ (l # 0 /\ next' = [next EXCEPT ![l] = pushed])
    BY <1>4 DEF PushLink
  <2>3. l \in 0..(pushed - 1)
    BY <2>1, <2>2 DEF Ordered, Unlinked
  <2>4. next' \in [Packets -> 0..pushed]
        /\ \A p \in Packets : next'[p] = 0 \/ next'[p] > p
    BY <2>2, <2>3 DEF Ordered
  <2> QED BY <1>0, <1>1, <2>1, <2>4 DEF Ordered, Unlinked
<1>5. CASE PushSetLast
  BY <1>0, <1>1, <1>5 DEF PushSetLast, Producer, Ordered, Unlinked
<1>6. CASE PushSetFirst
  BY <1>0, <1>1, <1>6 DEF PushSetFirst, Producer, Ordered, Unlinked
<1>7. CASE PushTestFirst \/ PushLoad \/ PushStore \/ Signal
  <2>1. ppc' \notin {"last", "link"} /\ UNCHANGED <<first, last, next, pushed>>
    BY <1>7
       DEF PushTestFirst, PushLoad, PushStore, Signal, Producer, listVars
  <2> QED BY <1>0, <1>1, <2>1 DEF Ordered, Unlinked
<1> QED BY <1>2, <1>3, <1>4, <1>5, <1>6, <1>7 DEF Push

\* A step of list_pop, whatever list_push does meanwhile.
LEMMA PopKeepsOrder ==
  ASSUME OrderInv, Pop
  PROVE  OrderInv'
<1> USE SizeAssumption DEF OrderInv
<1>0. UNCHANGED <<ppc, preg, next, pushed>> /\ ~undefined
  BY DEF Pop, Wake, PopStart, PopFirst, PopTestLast, PopSetLast, PopSetFirst,
     PopLoad, PopStore, SendPacket, InputPacket, Consumer, pushVars, listVars
<1>1. cpc \in PopPlaces => celem = taken /\ taken \in Packets
  BY <1>0 DEF PopOrder, Ordered, Packets
<1>2. CASE Wake \/ PopStart \/ SendPacket \/ InputPacket
  <2>1. /\ UNCHANGED <<first, last, celem, taken, freed>>
        /\ cpc \notin PopPlaces /\ cpc' \notin PopPlaces
    BY <1>2 DEF Wake, PopStart, SendPacket, InputPacket, Consumer, listVars, PopPlaces
  <2> QED BY <1>0, <2>1 DEF Ordered, Unlinked, PopOrder
<1>3. CASE PopTestLast \/ PopLoad
  <2>1. /\ UNCHANGED <<first, last, celem, taken, freed>>
        /\ cpc \in PopPlaces /\ cpc' \in PopPlaces
    BY <1>3 DEF PopTestLast, PopLoad, Consumer, listVars, PopPlaces
  <2> QED BY <1>0, <2>1 DEF Ordered, Unlinked, PopOrder
<1>4. CASE PopFirst
  <2>1. /\ celem' = first /\ (~undefined' => first # 0)
        /\ taken' = (IF first = 0 THEN taken ELSE first) /\ cpc' = "last"
        /\ UNCHANGED <<first, last, freed>>
    BY <1>4 DEF PopFirst, Consumer, listVars
  <2>2. PopOrder'
    BY <2>1 DEF Ordered, PopOrder, PopPlaces
  <2>3. Ordered' /\ Unlinked'
    BY <1>0, <2>1 DEF Ordered, Unlinked
  <2> QED BY <2>2, <2>3
<1>5. CASE PopSetLast
  <2>1. /\ last' = next[celem] /\ cpc = "setlast" /\ cpc' = "setfirst"
        /\ UNCHANGED <<first, celem, taken, freed, undefined>>
    BY <1>5 DEF PopSetLast, Consumer
  <2>2. last' \in 0..pushed /\ (ppc \in {"last", "link"} => last' < pushed)
    BY <1>1, <2>1 DEF Ordered, Unlinked, PopPlaces
  <2> QED BY <1>0, <2>1, <2>2 DEF Ordered, Unlinked, PopOrder, PopPlaces
<1>6. CASE PopSetFirst
  <2>1. /\ first' = next[celem] /\ cpc = "setfirst" /\ cpc' = "load"
        /\ UNCHANGED <<last, celem, taken, freed, undefined>>
    BY <1>6 DEF PopSetFirst, Consumer
  <2>2. first' \in 0..pushed /\ (first' = 0 \/ first' >= taken)
    BY <1>1, <2>1 DEF Ordered, PopPlaces
  <2> QED BY <1>0, <2>1, <2>2 DEF Ordered, Unlinked, PopOrder, PopPlaces
<1>7. CASE PopStore
  <2>1. /\ freed' = freed \cup {celem} /\ celem' = 0 /\ cpc = "store"
        /\ cpc' = "handle" /\ UNCHANGED <<first, last, taken, undefined>>
    BY <1>7 DEF PopStore, Consumer
  <2> QED BY <1>0, <1>1, <2>1 DEF Ordered, Unlinked, PopOrder, PopPlaces
<1> QED BY <1>2, <1>3, <1>4, <1>5, <1>6, <1>7 DEF Pop

\* Every step of the two threads keeps the order.
LEMMA NextOrder == OrderInv /\ [Next]_vars => OrderInv'
<1> SUFFICES ASSUME OrderInv, [Next]_vars PROVE OrderInv'
  OBVIOUS
<1>1. CASE PushRefused \/ UNCHANGED vars
  BY <1>1
     DEF PushRefused, vars, listVars, pushVars, popVars, OrderInv, Ordered,
         Unlinked, PopOrder
<1> QED BY <1>1, PushKeepsOrder, PopKeepsOrder DEF Next

\* However the pushes and pops overlap, list_pop takes no packet twice and none
\* before one that was pushed earlier, until it meets memory it has freed: for
\* every size of the list and every number of packets.
THEOREM PacketsInOrder == Spec => TakenInOrder
<1>1. ASSUME OrderInv, [Next]_vars, celem' \notin {0, celem}, ~undefined'
      PROVE  celem' > taken
  <2>1. PopFirst
    BY <1>1
       DEF Next, Push, Pop, PushStart, PushRefused, PushTestLast, PushLink,
           PushSetLast, PushTestFirst, PushSetFirst, PushLoad, PushStore, Signal,
           Wake, PopStart, PopTestLast, PopSetLast, PopSetFirst, PopLoad, PopStore,
           SendPacket, InputPacket, Producer, popVars, vars
  <2>2. /\ celem' = first /\ ~ (first = 0 \/ first \in freed)
        /\ cpc = "first" /\ ~undefined
    BY <1>1, <2>1 DEF PopFirst, Consumer
  <2>3. taken = 0 \/ taken \in freed
    BY <1>1, <2>2 DEF OrderInv, PopOrder, PopPlaces
  <2> QED BY <1>1, <2>2, <2>3 DEF OrderInv, Ordered
<1>2. OrderInv /\ [Next]_vars =>
        [celem' \notin {0, celem} /\ ~undefined' => celem' > taken]_vars
  BY <1>1
<1> QED BY <1>2, InitOrder, NextOrder, PTL DEF Spec, TakenInOrder

-----------------------------------------------------------------------------
\* The list from lwIP to the device uses neither NULL nor freed memory, unless
\* a push and a pop have overlapped.
UndefinedOnlyByOverlap == direction = "out" /\ undefined => overlapped

\* list_push and list_pop are correct when one runs at a time: it takes an
\* overlap of low_level_output and tapif_out_thread to dereference NULL or a
\* freed element.
THEOREM DefinedWithoutOverlap == Spec => []UndefinedOnlyByOverlap
<1>1. Init => UndefinedOnlyByOverlap
  BY DEF Init, UndefinedOnlyByOverlap
<1>2. ASSUME IInv, UndefinedOnlyByOverlap, [Next]_vars
      PROVE  UndefinedOnlyByOverlap'
  <2>1. CASE PushRefused \/ UNCHANGED vars
    BY <1>2, <2>1 DEF PushRefused, vars, UndefinedOnlyByOverlap
  <2>2. CASE Next
    <3> SUFFICES ASSUME direction' = "out", ~overlapped', undefined' PROVE FALSE
      BY DEF UndefinedOnlyByOverlap
    <3>1. ~overlapped /\ ListInv
      BY <1>2, <2>2, OverlapStays DEF IInv
    <3>2. direction = "out"
      BY <2>1, <2>2
         DEF Next, Push, Pop, PushStart, PushRefused, PushTestLast, PushLink,
             PushSetLast, PushTestFirst, PushSetFirst, PushLoad, PushStore, Signal,
             Wake, PopStart, PopFirst, PopTestLast, PopSetLast, PopSetFirst,
             PopLoad, PopStore, SendPacket, InputPacket, Producer, Consumer, vars
    <3>3. ~undefined
      BY <1>2, <3>1, <3>2 DEF UndefinedOnlyByOverlap
    <3>4. PushLink \/ PopFirst
      BY <2>2, <3>2, <3>3
         DEF Next, Push, Pop, PushStart, PushRefused, PushTestLast,
             PushSetLast, PushTestFirst, PushSetFirst, PushLoad, PushStore, Signal,
             Wake, PopStart, PopTestLast, PopSetLast, PopSetFirst,
             PopLoad, PopStore, SendPacket, InputPacket, vars
    <3>5. CASE PushLink
      <4>1. ppc = "link" /\ Pushing
        BY <3>1, <3>5 DEF PushLink, Producer, ListInv, PushPlaces
      <4>2. taken < pushed - 1 /\ preg = last /\ last = pushed - 1
        BY <3>1, <4>1 DEF Pushing, Holds, LastOf, ListInv
      <4>3. last # 0 /\ last \notin freed
        BY <3>1, <4>2 DEF ListInv
      <4> QED BY <3>3, <3>5, <4>2, <4>3 DEF PushLink
    <3>6. CASE PopFirst
      <4>1. cpc = "first" /\ ppc \in {"idle", "signal"} /\ elems > 0
            /\ Holds(taken, pushed)
        BY <3>1, <3>6 DEF PopFirst, Consumer, ListInv, PushPlaces, PopPlaces
      <4>2. first = taken + 1
        BY <3>1, <4>1 DEF Holds, FirstOf, ListInv
      <4>3. first # 0 /\ first \notin freed
        BY <3>1, <4>2 DEF ListInv
      <4> QED BY <3>6, <4>3 DEF PopFirst
    <3> QED BY <3>4, <3>5, <3>6
  <2> QED BY <1>2, <2>1, <2>2
<1>3. IInv /\ UndefinedOnlyByOverlap /\ [Next]_vars => UndefinedOnlyByOverlap'
  BY <1>2
<1> QED BY <1>1, <1>3, InitIInv, NextIInv, PTL DEF Spec
=============================================================================

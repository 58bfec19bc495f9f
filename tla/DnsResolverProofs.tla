-------------------------- MODULE DnsResolverProofs -------------------------
(***************************************************************************)
(* The safety of DnsResolver, for tables of any size: the two tables of    *)
(* lwIP agree, the pcbs are those in use, and the resolver implements the  *)
(* safety part of ResolverSpec.                                            *)
(***************************************************************************)
EXTENDS DnsResolver, WellFoundedInduction, TLAPS

EntryType ==
  [state : {"unused", "asking", "done"},
   ask : Questions \cup {Nothing}, addr : Questions \cup {Nothing},
   pcb : 0..TableSize, server : 0..Servers, tmr : 0..MaxRetries,
   retries : 0..MaxRetries, txid : TxIds \cup {0}, ttl : 0..TtlMax,
   age : 0..(AgeModulus - 1)]

\* An entry that is being asked for has a server, a pcb and time left; a
\* completed one has the address of its own question.
EntryOK(e) ==
  /\ e \in EntryType
  /\ e.state = "asking" =>
       /\ e.tmr \in 1..MaxRetries /\ e.retries \in 0..(MaxRetries - 1)
       /\ e.server \in 1..Servers /\ e.pcb \in Entries /\ e.ask \in Questions
  /\ e.state = "done" => e.addr = e.ask /\ e.ask \in Questions

TableOK == table \in [Entries -> EntryType] /\ \A i \in Entries : EntryOK(table[i])

SlotsOK == reqs \in [Entries -> [arg : Requests, idx : Entries] \cup {NoReq}]

SdkOK ==
  /\ evt \in [Requests -> {"idle", "pending"}]
  /\ ask \in [Requests -> Questions \cup {Nothing}]
  /\ answer \in [Requests -> Questions \cup {Nothing}]
  /\ events \subseteq Requests

IndexOK == pcbs \subseteq Entries /\ lastPcb \in Entries /\ cursor \in 0..TableSize

IInv ==
  /\ TableOK /\ SlotsOK /\ SdkOK /\ IndexOK
  /\ RequestsBacked
  /\ PcbsBalance

-----------------------------------------------------------------------------
\* A set of indices that is not empty has a first element.
LEMMA FirstIn ==
  ASSUME NEW S, S \subseteq Nat, S # {}
  PROVE  First(S) \in S /\ \A y \in S : First(S) <= y
<1>1. PICK x \in S : \A y \in S : ~(<<y, x>> \in OpToRel(<, Nat))
  BY NatLessThanWellFounded, WFMin
<1>2. \A y \in S : x <= y
  <2> SUFFICES ASSUME NEW y \in S, ~(x <= y) PROVE FALSE
    OBVIOUS
  <2>1. y < x
    OBVIOUS
  <2> QED BY <1>1, <2>1 DEF OpToRel
<1> QED BY <1>2 DEF First

\* The unused entry.
LEMMA UnusedFacts ==
  EntryOK(Unused) /\ Unused.state = "unused"
<1>1. 0 \in 0..TableSize /\ 0 \in 0..Servers /\ 0 \in 0..MaxRetries
      /\ 0 \in 0..TtlMax /\ 0 \in 0..(AgeModulus - 1)
  BY SizeAssumption
<1> QED BY <1>1 DEF Unused, EntryOK, EntryType

\* dns_check_entry keeps an entry that is being asked for well formed, and
\* keeps its question and its pcb.
LEMMA AskAgainFacts ==
  ASSUME NEW e, EntryOK(e), e.state = "asking", ~GaveUp(e)
  PROVE  /\ EntryOK(AskAgain(e)) /\ AskAgain(e).state = "asking"
         /\ AskAgain(e).ask = e.ask /\ AskAgain(e).pcb = e.pcb
<1>0. /\ e \in EntryType /\ e.tmr \in 1..MaxRetries
      /\ e.retries \in 0..(MaxRetries - 1) /\ e.server \in 1..Servers
      /\ e.pcb \in Entries /\ e.ask \in Questions
  BY DEF EntryOK
<1>1. CASE e.tmr > 1
  <2>1. AskAgain(e) = [e EXCEPT !.tmr = e.tmr - 1]
    BY <1>1 DEF AskAgain
  <2>2. e.tmr - 1 \in 1..MaxRetries /\ e.tmr - 1 \in 0..MaxRetries
    BY <1>0, <1>1, SizeAssumption
  <2> QED BY <1>0, <2>1, <2>2 DEF EntryOK, EntryType
<1>2. CASE ~(e.tmr > 1) /\ e.retries + 1 = MaxRetries
  <2>1. AskAgain(e) = [e EXCEPT !.server = e.server + 1, !.tmr = 1, !.retries = 0]
    BY <1>2 DEF AskAgain
  <2>2. e.server + 1 \in 1..Servers /\ e.server + 1 \in 0..Servers
    BY <1>0, <1>2, SizeAssumption DEF GaveUp
  <2>3. 1 \in 1..MaxRetries /\ 1 \in 0..MaxRetries
        /\ 0 \in 0..MaxRetries /\ 0 \in 0..(MaxRetries - 1)
    BY SizeAssumption
  <2> QED BY ZenonT(40), <1>0, <2>1, <2>2, <2>3 DEF EntryOK, EntryType
<1>3. CASE ~(e.tmr > 1) /\ e.retries + 1 # MaxRetries
  <2>1. AskAgain(e) = [e EXCEPT !.retries = e.retries + 1, !.tmr = e.retries + 1]
    BY <1>3 DEF AskAgain
  <2>2. e.retries + 1 \in 1..MaxRetries /\ e.retries + 1 \in 0..MaxRetries
        /\ e.retries + 1 \in 0..(MaxRetries - 1)
    BY <1>0, <1>3, SizeAssumption
  <2> QED BY ZenonT(40), <1>0, <2>1, <2>2 DEF EntryOK, EntryType
<1> QED BY <1>1, <1>2, <1>3

\* dns_enqueue takes an entry of the table that nobody waits for.
LEMMA VictimFacts ==
  ASSUME IInv
  PROVE  Victims \subseteq Entries \ Asking
<1> DEFINE unused == Entries \ (Asking \cup Done)
           aged == {i \in Done : table[i].age > 0}
           oldest == {i \in aged : \A j \in aged : table[j].age <= table[i].age}
<1>1. Entries \subseteq Nat
  BY SizeAssumption DEF Entries
<1>2. CASE unused # {}
  <2>1. First(unused) \in unused
    BY <1>1, <1>2, FirstIn
  <2>2. Victims = {First(unused)}
    BY <1>2 DEF Victims
  <2> QED BY <2>1, <2>2
<1>3. CASE unused = {} /\ aged # {}
  <2> DEFINE youth == {AgeModulus - table[i].age : i \in aged}
  <2>1. \A i \in aged : table[i].age \in 0..(AgeModulus - 1)
    BY DEF IInv, TableOK, EntryType, Done
  <2>2. youth \subseteq Nat
    BY <2>1, SizeAssumption
  <2>3. First(youth) \in youth /\ \A y \in youth : First(youth) <= y
    <3> HIDE DEF youth
    <3>1. youth # {}
      BY <1>3 DEF youth
    <3> QED BY <2>2, <3>1, FirstIn
  <2>4. PICK i \in aged : First(youth) = AgeModulus - table[i].age
    BY <2>3
  <2>5. \A j \in aged : AgeModulus - table[i].age <= AgeModulus - table[j].age
    BY <2>3, <2>4
  <2>6. \A j \in aged : table[j].age <= table[i].age
    BY <2>1, <2>5, SizeAssumption
  <2>7. oldest # {} /\ oldest \subseteq Done /\ Done \subseteq Entries \ Asking
    BY <2>6 DEF Done, Asking
  <2>8. First(oldest) \in oldest
    <3> HIDE DEF oldest
    <3>1. oldest \subseteq Nat
      BY <1>1, <2>7
    <3> QED BY <2>7, <3>1, FirstIn
  <2>9. Victims = {First(oldest)}
    BY <1>3 DEF Victims
  <2> HIDE DEF oldest
  <2> QED BY <2>7, <2>8, <2>9
<1>4. CASE unused = {} /\ aged = {}
  BY <1>4 DEF Victims
<1> QED BY <1>2, <1>3, <1>4

\* dns_alloc_pcb returns an index of dns_pcbs.
LEMMA AllocFacts ==
  ASSUME IInv, NEW isNew \in BOOLEAN, isNew \/ pcbs # {}
  PROVE  AllocPcb(isNew) \in Entries
<1>1. Entries \subseteq Nat
  BY SizeAssumption DEF Entries
<1>2. CASE isNew /\ Entries \ pcbs # {}
  BY <1>1, <1>2, FirstIn DEF AllocPcb
<1>3. CASE ~(isNew /\ Entries \ pcbs # {})
  <2> DEFINE d(p) == (p + TableSize - lastPcb - 1) % TableSize
             ds == {d(p) : p \in pcbs}
  <2>1. pcbs # {} /\ pcbs \subseteq Entries
    BY <1>3, SizeAssumption DEF IInv, IndexOK, Entries
  <2>2. ASSUME NEW p \in pcbs PROVE d(p) \in Nat
    <3>1. p \in 1..TableSize /\ lastPcb \in 1..TableSize /\ TableSize \in Nat \ {0}
      BY <2>1, SizeAssumption DEF IInv, IndexOK, Entries
    <3> QED BY <3>1
  <2> HIDE DEF d
  <2>3. ds \subseteq Nat /\ ds # {}
    BY <2>1, <2>2
  <2>4. First(ds) \in ds /\ \A y \in ds : First(ds) <= y
    <3> HIDE DEF ds
    <3> QED BY <2>3, FirstIn
  <2>5. PICK p \in pcbs : First(ds) = d(p)
    BY <2>4
  <2>6. \A o \in pcbs : d(p) <= d(o)
    BY <2>4, <2>5
  <2>7. ReusedPcb \in pcbs
    BY <2>6 DEF ReusedPcb, d
  <2> QED BY <1>3, <2>1, <2>7 DEF AllocPcb
<1> QED BY <1>2, <1>3

-----------------------------------------------------------------------------
\* A step that leaves the tables and the pending requests alone.
LEMMA SameTables ==
  ASSUME IInv, UNCHANGED <<table, reqs, pcbs, evt, ask, events>>
  PROVE  TableOK' /\ SlotsOK' /\ RequestsBacked' /\ PcbsBalance'
<1>1. Asking' = Asking /\ FreeSlots' = FreeSlots
  BY DEF Asking, FreeSlots
<1>2. TableOK' /\ SlotsOK'
  BY DEF IInv, TableOK, SlotsOK
<1>3. PcbsBalance'
  BY <1>1 DEF IInv, PcbsBalance
<1>4. RequestsBacked'
  BY <1>1 DEF IInv, RequestsBacked
<1> QED BY <1>2, <1>3, <1>4

\* A step that changes one entry, and neither its question and pcb while it is
\* asked for nor who waits for it.
LEMMA KeepStep ==
  ASSUME IInv, NEW i \in Entries, NEW e, EntryOK(e),
         table' = [table EXCEPT ![i] = e], UNCHANGED <<reqs, pcbs, evt, ask, events>>,
         e.state = "asking" <=> i \in Asking,
         i \in Asking => e.ask = table[i].ask /\ e.pcb = table[i].pcb
  PROVE  TableOK' /\ RequestsBacked' /\ PcbsBalance'
<1>1. TableOK'
  BY DEF IInv, TableOK, EntryOK
<1>2. Asking' = Asking /\ \A j \in Asking : table'[j].ask = table[j].ask
                                         /\ table'[j].pcb = table[j].pcb
  BY DEF IInv, TableOK, Asking
<1>3. FreeSlots' = FreeSlots
  BY DEF FreeSlots
<1>4. RequestsBacked'
  BY <1>2, <1>3 DEF IInv, RequestsBacked
<1>5. PcbsBalance'
  BY <1>2 DEF IInv, PcbsBalance
<1> QED BY <1>1, <1>4, <1>5

\* The requests dns_call_found tells.
Told(i) == {reqs[k].arg : k \in Waiting(i)}

\* They are pending, asked for the name of the entry, and become idle.
LEMMA ToldFacts ==
  ASSUME IInv, NEW i \in Asking, NEW a, CallFound(i, a)
  PROVE  /\ \A r \in Told(i) : /\ r \in Requests /\ evt[r] = "pending"
                               /\ ask[r] = table[i].ask
         /\ evt' = [r \in Requests |-> IF r \in Told(i) THEN "idle" ELSE evt[r]]
         /\ ask' = [r \in Requests |-> IF r \in Told(i) THEN Nothing ELSE ask[r]]
         /\ answer' = [r \in Requests |-> IF r \in Told(i) THEN a ELSE answer[r]]
         /\ events' = events \ Told(i)
<1>1. \A r \in Told(i) : /\ r \in Requests /\ evt[r] = "pending"
                         /\ ask[r] = table[i].ask
  BY NoReqAssumption
  DEF IInv, SlotsOK, RequestsBacked, FreeSlots, Told, Waiting, Entries
<1>2. ResolveEvents(Told(i), a)
  BY DEF CallFound, Told
<1> QED BY <1>1, <1>2 DEF ResolveEvents

\* dns_call_found, with the entry flushed or completed.
LEMMA CallFoundStep ==
  ASSUME IInv, NEW i \in Asking, NEW a \in Questions \cup {Nothing}, CallFound(i, a),
         NEW e, EntryOK(e), e.state # "asking", table' = [table EXCEPT ![i] = e]
  PROVE  /\ TableOK' /\ SlotsOK' /\ SdkOK' /\ pcbs' \subseteq Entries
         /\ RequestsBacked' /\ PcbsBalance'
<1> DEFINE rs == Told(i)
<1>0. i \in Entries
  BY DEF Asking
<1>1. TableOK'
  BY <1>0 DEF IInv, TableOK, EntryOK
<1>2. /\ Asking' = Asking \ {i}
      /\ \A j \in Entries \ {i} : table'[j] = table[j]
  BY <1>0 DEF IInv, TableOK, Asking
<1>3. SlotsOK'
  BY DEF IInv, SlotsOK, CallFound
<1>5. /\ evt' = [r \in Requests |-> IF r \in rs THEN "idle" ELSE evt[r]]
      /\ ask' = [r \in Requests |-> IF r \in rs THEN Nothing ELSE ask[r]]
      /\ answer' = [r \in Requests |-> IF r \in rs THEN a ELSE answer[r]]
      /\ events' = events \ rs
  BY ToldFacts DEF Told
<1>6. SdkOK'
  <2> HIDE DEF rs
  <2> QED BY <1>5 DEF IInv, SdkOK
<1>7. FreeSlots' = FreeSlots \cup Waiting(i)
  BY DEF CallFound, FreeSlots, Waiting
<1>8. \A k \in Entries \ FreeSlots' :
        /\ k \notin FreeSlots /\ reqs'[k] = reqs[k]
        /\ reqs[k].idx # i /\ reqs[k].arg \in Requests
  BY <1>7 DEF CallFound, FreeSlots, Waiting, IInv, SlotsOK
<1>9. \A k \in Entries \ FreeSlots' : reqs[k].arg \notin rs
  BY <1>7, <1>8 DEF Told, IInv, RequestsBacked, FreeSlots, Waiting
<1>10. RequestsBacked'
  <2>1. ASSUME NEW r \in Requests, evt'[r] = "pending"
        PROVE  \E k \in Entries : reqs'[k] # NoReq /\ reqs'[k].arg = r
    <3>1. evt[r] = "pending" /\ r \notin rs
      <4> HIDE DEF rs
      <4> QED BY <1>5, <2>1
    <3>2. PICK k \in Entries : reqs[k] # NoReq /\ reqs[k].arg = r
      BY <3>1 DEF IInv, RequestsBacked
    <3>3. k \notin Waiting(i)
      BY <3>1, <3>2 DEF Told
    <3>4. reqs'[k] = reqs[k]
      BY <3>3 DEF CallFound
    <3> QED BY <3>2, <3>4
  <2>2. ASSUME NEW k \in Entries \ FreeSlots'
        PROVE  /\ evt'[reqs'[k].arg] = "pending" /\ reqs'[k].arg \in events'
               /\ reqs'[k].idx \in Asking'
               /\ table'[reqs'[k].idx].ask = ask'[reqs'[k].arg]
               /\ \A j \in Entries \ FreeSlots' : reqs'[j].arg = reqs'[k].arg => j = k
    <3> HIDE DEF rs
    <3>1. /\ evt[reqs[k].arg] = "pending" /\ reqs[k].arg \in events
          /\ reqs[k].idx \in Asking
          /\ table[reqs[k].idx].ask = ask[reqs[k].arg]
          /\ \A j \in Entries \ FreeSlots : reqs[j].arg = reqs[k].arg => j = k
      BY <1>8 DEF IInv, RequestsBacked
    <3>2. reqs[k].idx \in Entries \ {i}
      BY <1>8, <3>1 DEF Asking
    <3>3. table'[reqs[k].idx] = table[reqs[k].idx] /\ reqs[k].idx \in Asking'
      BY <1>2, <3>1, <3>2
    <3>4. evt'[reqs[k].arg] = "pending" /\ ask'[reqs[k].arg] = ask[reqs[k].arg]
          /\ reqs[k].arg \in events'
      BY <1>5, <1>8, <1>9, <3>1
    <3> QED BY <1>8, <3>1, <3>3, <3>4
  <2> QED BY <2>1, <2>2 DEF RequestsBacked
<1>11. PcbsBalance'
  <2>1. pcbs = {table[j].pcb : j \in Asking}
    BY DEF IInv, PcbsBalance
  <2>2. {table'[j].pcb : j \in Asking'} = {table[j].pcb : j \in Asking \ {i}}
    BY <1>2 DEF Asking
  <2>3. pcbs' = {table[j].pcb : j \in Asking \ {i}}
    BY <2>1 DEF CallFound
  <2> QED BY <2>2, <2>3 DEF PcbsBalance
<1>12. pcbs' \subseteq Entries
  BY DEF CallFound, IInv, IndexOK
<1> QED BY <1>1, <1>3, <1>6, <1>10, <1>11, <1>12

\* A request takes a free slot and waits for entry i.
LEMMA WaitStep ==
  ASSUME IInv, NEW r \in Requests, NEW q \in Questions, evt[r] = "idle",
         NEW k \in FreeSlots, NEW i \in Entries,
         reqs' = [reqs EXCEPT ![k] = [arg |-> r, idx |-> i]], Pending(r, q),
         i \in Asking', table'[i].ask = q,
         \A j \in Asking : j \in Asking' /\ table'[j].ask = table[j].ask
  PROVE  SlotsOK' /\ SdkOK' /\ RequestsBacked'
<1>0. k \in Entries /\ reqs[k] = NoReq
  BY DEF FreeSlots
<1>1. SlotsOK'
  BY <1>0 DEF IInv, SlotsOK
<1>2. SdkOK'
  BY DEF IInv, SdkOK, Pending
<1>3. [arg |-> r, idx |-> i] # NoReq
  BY NoReqAssumption DEF Entries
<1>4. /\ reqs'[k].arg = r /\ reqs'[k].idx = i /\ reqs'[k] # NoReq
      /\ \A j \in Entries \ {k} : reqs'[j] = reqs[j]
  BY <1>0, <1>3 DEF IInv, SlotsOK
<1>5. /\ evt'[r] = "pending" /\ ask'[r] = q /\ events' = events \cup {r}
      /\ \A s \in Requests \ {r} : evt'[s] = evt[s] /\ ask'[s] = ask[s]
  BY DEF IInv, SdkOK, Pending
<1>6. FreeSlots' = FreeSlots \ {k}
  BY <1>0, <1>4 DEF FreeSlots
<1>7. \A j \in Entries \ FreeSlots : reqs[j].arg \in Requests \ {r}
  BY DEF IInv, SlotsOK, RequestsBacked, FreeSlots
<1>8. ASSUME NEW s \in Requests, evt'[s] = "pending"
      PROVE  \E j \in Entries : reqs'[j] # NoReq /\ reqs'[j].arg = s
  <2>1. CASE s = r
    BY <1>0, <1>4, <2>1
  <2>2. CASE s # r
    <3>1. PICK j \in Entries : reqs[j] # NoReq /\ reqs[j].arg = s
      BY <1>5, <1>8, <2>2 DEF IInv, RequestsBacked
    <3> QED BY <1>0, <1>4, <3>1
  <2> QED BY <2>1, <2>2
<1>9. ASSUME NEW j \in Entries \ FreeSlots'
      PROVE  /\ evt'[reqs'[j].arg] = "pending" /\ reqs'[j].arg \in events'
             /\ reqs'[j].idx \in Asking'
             /\ table'[reqs'[j].idx].ask = ask'[reqs'[j].arg]
             /\ \A l \in Entries \ FreeSlots' : reqs'[l].arg = reqs'[j].arg => l = j
  <2>1. CASE j = k
    BY <1>4, <1>5, <1>6, <1>7, <2>1
  <2>2. CASE j # k
    <3>1. j \in Entries \ FreeSlots /\ reqs'[j] = reqs[j]
      BY <1>4, <1>6, <2>2
    <3>2. /\ evt[reqs[j].arg] = "pending" /\ reqs[j].arg \in events
          /\ reqs[j].idx \in Asking
          /\ table[reqs[j].idx].ask = ask[reqs[j].arg]
          /\ \A l \in Entries \ FreeSlots : reqs[l].arg = reqs[j].arg => l = j
      BY <3>1 DEF IInv, RequestsBacked
    <3>3. reqs[j].arg \in Requests \ {r}
      BY <1>7, <3>1
    <3> QED BY <1>4, <1>5, <1>6, <3>1, <3>2, <3>3
  <2> QED BY <2>1, <2>2
<1>10. RequestsBacked'
  BY <1>8, <1>9 DEF RequestsBacked
<1> QED BY <1>1, <1>2, <1>10

\* dns_enqueue of a new query keeps the invariant.
LEMMA QueryStep ==
  ASSUME IInv, NEW r \in Requests, NEW q \in Questions, ResolveQuery(r, q)
  PROVE  IInv'
<1>1. PICK i \in Victims, x \in UniqueTxIds, isNew \in BOOLEAN :
        /\ isNew \/ pcbs # {}
        /\ LET p == AllocPcb(isNew)
               aged == [j \in Entries |->
                         IF table[j].state = "unused" THEN table[j]
                         ELSE [table[j] EXCEPT !.age = (@ + 1) % AgeModulus]]
           IN  /\ table' = [aged EXCEPT ![i] =
                    [state |-> "asking", ask |-> q, addr |-> Nothing, pcb |-> p,
                     server |-> 1, tmr |-> 1, retries |-> 0, txid |-> x,
                     ttl |-> 0, age |-> 1]]
               /\ pcbs' = pcbs \cup {p} /\ lastPcb' = p
        /\ reqs' = [reqs EXCEPT ![First(FreeSlots)] = [arg |-> r, idx |-> i]]
  BY DEF ResolveQuery
<1> DEFINE p == AllocPcb(isNew)
           old(j) == IF table[j].state = "unused" THEN table[j]
                     ELSE [table[j] EXCEPT !.age = (@ + 1) % AgeModulus]
           new == [state |-> "asking", ask |-> q, addr |-> Nothing, pcb |-> p,
                   server |-> 1, tmr |-> 1, retries |-> 0, txid |-> x, ttl |-> 0,
                   age |-> 1]
<1>2. p \in Entries /\ i \in Entries \ Asking /\ x \in TxIds
  BY <1>1, AllocFacts, VictimFacts DEF UniqueTxIds
<1>3. /\ table' = [j \in Entries |-> IF j = i THEN new ELSE old(j)]
      /\ pcbs' = pcbs \cup {p} /\ lastPcb' = p
  BY <1>1, <1>2
<1>4. EntryOK(new) /\ new.state = "asking" /\ new.ask = q /\ new.pcb = p
  <2>1. /\ 1 \in 1..MaxRetries /\ 1 \in 0..MaxRetries /\ 0 \in 0..(MaxRetries - 1)
        /\ 0 \in 0..MaxRetries /\ 1 \in 1..Servers /\ 1 \in 0..Servers
        /\ 0 \in 0..TtlMax /\ 1 \in 0..(AgeModulus - 1)
    BY SizeAssumption
  <2>2. p \in 0..TableSize
    BY <1>2, SizeAssumption DEF Entries
  <2> HIDE DEF p
  <2> QED BY <1>2, <2>1, <2>2 DEF EntryOK, EntryType
<1>5. ASSUME NEW j \in Entries
      PROVE  /\ EntryOK(old(j)) /\ old(j).state = table[j].state
             /\ old(j).ask = table[j].ask /\ old(j).pcb = table[j].pcb
  <2>1. EntryOK(table[j]) /\ table[j] \in EntryType
    BY DEF IInv, TableOK
  <2>2. table[j].age \in 0..(AgeModulus - 1)
    BY <2>1 DEF EntryType
  <2> DEFINE n == (table[j].age + 1) % AgeModulus
  <2>3. n \in 0..(AgeModulus - 1)
    BY <2>2, SizeAssumption
  <2> HIDE DEF n
  <2>4. CASE table[j].state = "unused"
    BY <2>1, <2>4
  <2>5. CASE table[j].state # "unused"
    <3>1. old(j) = [table[j] EXCEPT !.age = n]
      BY <2>5 DEF n
    <3> HIDE DEF old
    <3> QED BY <2>1, <2>3, <3>1 DEF EntryOK, EntryType
  <2> QED BY <2>4, <2>5
<1> HIDE DEF old, new, p
<1>6. TableOK'
  BY <1>3, <1>4, <1>5 DEF TableOK, EntryOK
<1>7. /\ Asking' = Asking \cup {i} /\ table'[i] = new
      /\ \A j \in Asking : table'[j].ask = table[j].ask /\ table'[j].pcb = table[j].pcb
  BY <1>2, <1>3, <1>4, <1>5 DEF Asking
<1>8. PcbsBalance'
  <2>1. pcbs = {table[j].pcb : j \in Asking}
    BY DEF IInv, PcbsBalance
  <2>2. {table'[j].pcb : j \in Asking \cup {i}} = {table'[j].pcb : j \in Asking} \cup {p}
    BY <1>4, <1>7
  <2>3. {table'[j].pcb : j \in Asking} = {table[j].pcb : j \in Asking}
    BY <1>7
  <2> QED BY <1>3, <1>7, <2>1, <2>2, <2>3 DEF PcbsBalance
<1>9. First(FreeSlots) \in FreeSlots
  <2>1. FreeSlots # {} /\ FreeSlots \subseteq Nat
    BY SizeAssumption DEF ResolveQuery, FreeSlots, Entries
  <2> QED BY <2>1, FirstIn
<1>10. SlotsOK' /\ SdkOK' /\ RequestsBacked'
  <2>1. evt[r] = "idle" /\ Pending(r, q)
    BY DEF ResolveQuery, Call
  <2>2. i \in Entries /\ i \in Asking' /\ table'[i].ask = q
    BY <1>2, <1>4, <1>7
  <2>3. \A j \in Asking : j \in Asking' /\ table'[j].ask = table[j].ask
    BY <1>7
  <2> QED BY <1>1, <1>9, <2>1, <2>2, <2>3, WaitStep
<1>11. IndexOK'
  BY <1>2, <1>3 DEF IInv, IndexOK, ResolveQuery, Pending
<1> QED BY <1>6, <1>8, <1>10, <1>11 DEF IInv

-----------------------------------------------------------------------------
\* A call of nm_lwip_async_resolve keeps the invariant.
LEMMA ResolveStep ==
  ASSUME IInv, NEW r \in Requests, NEW q \in Questions, Resolve(r, q)
  PROVE  IInv'
<1>1. CASE ResolveNow(r, q)
  <2>1. answer' \in [Requests -> Questions \cup {Nothing}]
    <3>1. CASE q \in Immediate
      BY <1>1, <3>1 DEF ResolveNow, IInv, SdkOK
    <3>2. CASE q \notin Immediate
      <4>1. Cached(q) # {} /\ Cached(q) \subseteq Entries /\ Cached(q) \subseteq Nat
        BY <1>1, <3>2, SizeAssumption
        DEF ResolveNow, NeedsQuery, Cached, Done, Entries
      <4>2. First(Cached(q)) \in Entries
        BY <4>1, FirstIn
      <4>3. table[First(Cached(q))].addr \in Questions \cup {Nothing}
        BY <4>2 DEF IInv, TableOK, EntryType
      <4> QED BY <1>1, <3>2, <4>3 DEF ResolveNow, IInv, SdkOK
    <3> QED BY <3>1, <3>2
  <2>2. UNCHANGED <<table, reqs, pcbs, lastPcb, cursor, evt, ask, events>>
    BY <1>1 DEF ResolveNow, dnsVars
  <2>3. TableOK' /\ SlotsOK' /\ RequestsBacked' /\ PcbsBalance'
    BY <2>2, SameTables
  <2> QED BY <2>1, <2>2, <2>3 DEF IInv, SdkOK, IndexOK
<1>2. CASE ResolveRefused(r, q) \/ ResolveNoRoom(r, q)
  <2>1. /\ UNCHANGED <<table, reqs, pcbs, lastPcb, cursor, evt, ask, events>>
        /\ answer' = [answer EXCEPT ![r] = Nothing]
    BY <1>2 DEF ResolveRefused, ResolveNoRoom, Refuse, dnsVars
  <2>2. TableOK' /\ SlotsOK' /\ RequestsBacked' /\ PcbsBalance'
    BY <2>1, SameTables
  <2> QED BY <2>1, <2>2 DEF IInv, SdkOK, IndexOK
<1>3. CASE ResolveDuplicate(r, q)
  <2> DEFINE i == First(Duplicates(q))
             k == First(FreeSlots)
  <2>1. i \in Duplicates(q) /\ k \in FreeSlots
    <3>1. Duplicates(q) # {} /\ Duplicates(q) \subseteq Nat
      BY <1>3, SizeAssumption DEF ResolveDuplicate, Duplicates, Asking, Entries
    <3>2. FreeSlots # {} /\ FreeSlots \subseteq Nat
      BY <3>1, SizeAssumption DEF Duplicates, FreeSlots, Entries
    <3> QED BY <3>1, <3>2, FirstIn
  <2>2. /\ reqs' = [reqs EXCEPT ![k] = [arg |-> r, idx |-> i]]
        /\ Pending(r, q) /\ evt[r] = "idle" /\ UNCHANGED <<table, pcbs, lastPcb>>
    BY <1>3 DEF ResolveDuplicate, Call
  <2> HIDE DEF i, k
  <2>3. Asking' = Asking
    BY <2>2 DEF Asking
  <2>4. /\ i \in Entries /\ i \in Asking' /\ table'[i].ask = q
        /\ \A j \in Asking : j \in Asking' /\ table'[j].ask = table[j].ask
    BY <2>1, <2>2, <2>3 DEF Duplicates, Asking
  <2>5. SlotsOK' /\ SdkOK' /\ RequestsBacked'
    BY <2>1, <2>2, <2>4, WaitStep
  <2> QED BY <2>2, <2>3, <2>5
    DEF IInv, TableOK, IndexOK, PcbsBalance, Pending
<1>4. CASE ResolveNoPcb(r, q)
  <2>1. PICK i \in Victims : table' = [table EXCEPT ![i] = Unused]
    BY <1>4 DEF ResolveNoPcb
  <2>2. i \in Entries /\ i \notin Asking
    BY VictimFacts
  <2>3. /\ UNCHANGED <<reqs, pcbs, lastPcb, cursor, evt, ask, events>>
        /\ answer' = [answer EXCEPT ![r] = Nothing]
    BY <1>4 DEF ResolveNoPcb, Refuse
  <2>4. TableOK' /\ RequestsBacked' /\ PcbsBalance'
    BY <2>1, <2>2, <2>3, UnusedFacts, KeepStep
  <2> QED BY <2>3, <2>4 DEF IInv, SlotsOK, SdkOK, IndexOK
<1>5. CASE ResolveQuery(r, q)
  BY <1>5, QueryStep
<1> QED BY <1>1, <1>2, <1>3, <1>4, <1>5 DEF Resolve

\* dns_recv keeps the invariant.
LEMMA RecvStep ==
  ASSUME IInv, NEW i \in Entries, NEW x, NEW s, NEW q \in Questions, Recv(i, x, s, q)
  PROVE  IInv'
<1>1. i \in Asking /\ table[i].ask = q /\ EntryOK(table[i]) /\ table[i].state = "asking"
  BY DEF Recv, RecvAnswer, RecvErrorRetry, RecvFailure, Matches, IInv, TableOK, Asking
<1>2. CASE RecvAnswer(i, x, s, q)
  <2>1. PICK t \in 0..TtlMax : table' = [table EXCEPT ![i] =
         IF t = 0 THEN Unused
         ELSE [state |-> "done", ask |-> table[i].ask, addr |-> q, pcb |-> 0,
               server |-> 0, tmr |-> 0, retries |-> 0, txid |-> 0, ttl |-> t,
               age |-> table[i].age]]
    BY <1>2 DEF RecvAnswer
  <2> DEFINE d == [state |-> "done", ask |-> table[i].ask, addr |-> q, pcb |-> 0,
                   server |-> 0, tmr |-> 0, retries |-> 0, txid |-> 0, ttl |-> t,
                   age |-> table[i].age]
             e == IF t = 0 THEN Unused ELSE d
  <2>2. EntryOK(d) /\ d.state = "done"
    <3>1. 0 \in 0..TableSize /\ 0 \in 0..Servers /\ 0 \in 0..MaxRetries
      BY SizeAssumption
    <3>2. table[i].age \in 0..(AgeModulus - 1)
      BY <1>1 DEF EntryOK, EntryType
    <3> QED BY <1>1, <3>1, <3>2 DEF EntryOK, EntryType
  <2>3. EntryOK(e) /\ e.state # "asking"
    BY <2>2, UnusedFacts
  <2>4. table' = [table EXCEPT ![i] = e]
    BY <2>1
  <2> HIDE DEF e
  <2>5. CallFound(i, q) /\ UNCHANGED <<lastPcb, cursor>>
    BY SMTT(20), <1>2 DEF RecvAnswer
  <2>6. /\ TableOK' /\ SlotsOK' /\ SdkOK' /\ pcbs' \subseteq Entries
        /\ RequestsBacked' /\ PcbsBalance'
    BY <1>1, <2>3, <2>4, <2>5, CallFoundStep
  <2> QED BY <2>5, <2>6 DEF IInv, IndexOK
<1>3. CASE RecvErrorRetry(i, x, s, q)
  <2> DEFINE e == [table[i] EXCEPT !.retries = MaxRetries - 1, !.tmr = 1]
  <2>1. /\ MaxRetries - 1 \in 0..(MaxRetries - 1) /\ MaxRetries - 1 \in 0..MaxRetries
        /\ 1 \in 1..MaxRetries /\ 1 \in 0..MaxRetries
    BY SizeAssumption
  <2>2. /\ EntryOK(e) /\ e.state = "asking" /\ e.server = table[i].server
        /\ e.ask = table[i].ask /\ e.pcb = table[i].pcb
    BY <1>1, <2>1 DEF EntryOK, EntryType
  <2>3. /\ table' = [table EXCEPT ![i] = AskAgain(e)]
        /\ UNCHANGED <<reqs, pcbs, lastPcb, cursor, evt, ask, answer, events>>
    BY <1>3 DEF RecvErrorRetry, sdkVars
  <2>4. e.server # Servers
    BY <1>1, <1>3, <2>2, SizeAssumption DEF RecvErrorRetry, EntryOK
  <2> HIDE DEF e
  <2>5. /\ EntryOK(AskAgain(e)) /\ AskAgain(e).state = "asking"
        /\ AskAgain(e).ask = table[i].ask /\ AskAgain(e).pcb = table[i].pcb
    BY <2>2, <2>4, AskAgainFacts DEF GaveUp
  <2>6. TableOK' /\ RequestsBacked' /\ PcbsBalance'
    BY <1>1, <2>3, <2>5, KeepStep
  <2> QED BY <2>3, <2>6 DEF IInv, SlotsOK, SdkOK, IndexOK
<1>4. CASE RecvFailure(i, x, s, q)
  <2>1. /\ CallFound(i, Nothing) /\ table' = [table EXCEPT ![i] = Unused]
        /\ UNCHANGED <<lastPcb, cursor>>
    BY <1>4 DEF RecvFailure
  <2>2. /\ TableOK' /\ SlotsOK' /\ SdkOK' /\ pcbs' \subseteq Entries
        /\ RequestsBacked' /\ PcbsBalance'
    BY <1>1, <2>1, UnusedFacts, CallFoundStep
  <2> QED BY <2>1, <2>2 DEF IInv, IndexOK
<1> QED BY <1>2, <1>3, <1>4 DEF Recv

\* dns_check_entry keeps the invariant.
LEMMA CheckStep ==
  ASSUME IInv, CheckEntries
  PROVE  IInv'
<1>1. cursor \in Entries /\ cursor' \in 0..TableSize /\ lastPcb' = lastPcb
  <2>1. cursor \in Entries /\ lastPcb' = lastPcb
    BY SizeAssumption DEF IInv, IndexOK, CheckEntries, Entries
  <2>2. (cursor + 1) % (TableSize + 1) \in 0..TableSize
    BY <2>1, SizeAssumption DEF Entries
  <2> QED BY <2>1, <2>2 DEF CheckEntries
<1> DEFINE i == cursor
           e == table[i]
<1>2. EntryOK(e)
  BY <1>1 DEF IInv, TableOK
<1>3. CASE Expire(i)
  <2>1. i \in Asking /\ CallFound(i, Nothing) /\ table' = [table EXCEPT ![i] = Unused]
    BY <1>3 DEF Expire
  <2>2. /\ TableOK' /\ SlotsOK' /\ SdkOK' /\ pcbs' \subseteq Entries
        /\ RequestsBacked' /\ PcbsBalance'
    BY <2>1, UnusedFacts, CallFoundStep
  <2> QED BY <1>1, <2>2 DEF IInv, IndexOK
<1>4. CASE Check(i)
  <2> DEFINE n == IF i \in Asking THEN AskAgain(e)
                  ELSE IF i \in Done /\ e.ttl > 1 THEN [e EXCEPT !.ttl = e.ttl - 1]
                  ELSE Unused
  <2>1. /\ table' = [table EXCEPT ![i] = n]
        /\ UNCHANGED <<reqs, pcbs, evt, ask, answer, events>>
    BY <1>4 DEF Check, sdkVars
  <2>2. /\ EntryOK(n) /\ (n.state = "asking" <=> i \in Asking)
        /\ (i \in Asking => n.ask = e.ask /\ n.pcb = e.pcb)
    <3>1. CASE i \in Asking
      <4>1. e.state = "asking" /\ ~GaveUp(e) /\ n = AskAgain(e)
        BY <1>4, <3>1 DEF Check, Asking
      <4> HIDE DEF n, e
      <4> QED BY <1>2, <3>1, <4>1, AskAgainFacts
    <3>2. CASE i \notin Asking /\ i \in Done /\ e.ttl > 1
      <4>1. n = [e EXCEPT !.ttl = e.ttl - 1] /\ e.state = "done"
        BY <3>2 DEF Done
      <4>2. e.ttl - 1 \in 0..TtlMax
        BY <1>2, <3>2, SizeAssumption DEF EntryOK, EntryType
      <4> HIDE DEF n, e
      <4> QED BY <1>2, <3>2, <4>1, <4>2 DEF EntryOK, EntryType
    <3>3. CASE i \notin Asking /\ ~(i \in Done /\ e.ttl > 1)
      BY <3>3, UnusedFacts
    <3> QED BY <3>1, <3>2, <3>3
  <2> HIDE DEF n
  <2>3. TableOK' /\ RequestsBacked' /\ PcbsBalance'
    BY <1>1, <2>1, <2>2, KeepStep
  <2> QED BY <1>1, <2>1, <2>3 DEF IInv, SlotsOK, SdkOK, IndexOK
<1> QED BY <1>3, <1>4 DEF CheckEntries

-----------------------------------------------------------------------------
\* The invariant holds at start-up.
LEMMA InitIInv == Init => IInv
<1> SUFFICES ASSUME Init PROVE IInv
  OBVIOUS
<1>1. TableOK /\ Asking = {}
  BY UnusedFacts DEF Init, TableOK, EntryOK, Asking
<1>2. SlotsOK /\ SdkOK
  BY DEF Init, SlotsOK, SdkOK
<1>3. IndexOK
  BY SizeAssumption DEF Init, IndexOK, Entries
<1>4. RequestsBacked
  BY DEF Init, RequestsBacked, FreeSlots
<1>5. PcbsBalance
  BY <1>1 DEF Init, PcbsBalance
<1> QED BY <1>1, <1>2, <1>3, <1>4, <1>5 DEF IInv

\* Every step keeps the invariant.
LEMMA NextIInv == IInv /\ [Next]_vars => IInv'
<1> SUFFICES ASSUME IInv, [Next]_vars PROVE IInv'
  OBVIOUS
<1>1. ASSUME NEW c \in Calls, Resolve(c[1], c[2]) PROVE IInv'
  <2>1. c[1] \in Requests /\ c[2] \in Questions
    BY NamesAssumption
  <2> QED BY <1>1, <2>1, ResolveStep
<1>2. ASSUME NEW i \in Entries, NEW x \in TxIds, NEW s \in 1..Servers,
             NEW q \in Questions, Recv(i, x, s, q)
      PROVE  IInv'
  BY <1>2, RecvStep
<1>3. CASE Tick
  <2>1. cursor' \in 0..TableSize
        /\ UNCHANGED <<table, reqs, pcbs, lastPcb, evt, ask, answer, events>>
    BY <1>3, SizeAssumption DEF Tick, dnsVars, sdkVars
  <2>2. TableOK' /\ SlotsOK' /\ RequestsBacked' /\ PcbsBalance'
    BY <2>1, SameTables
  <2> QED BY <2>1, <2>2 DEF IInv, SdkOK, IndexOK
<1>4. CASE CheckEntries
  BY <1>4, CheckStep
<1>5. CASE UNCHANGED vars
  <2>1. UNCHANGED <<table, reqs, pcbs, lastPcb, cursor, evt, ask, answer, events>>
    BY <1>5 DEF vars, dnsVars, sdkVars
  <2>2. TableOK' /\ SlotsOK' /\ RequestsBacked' /\ PcbsBalance'
    BY <2>1, SameTables
  <2> QED BY <2>1, <2>2 DEF IInv, SdkOK, IndexOK
<1> QED BY <1>1, <1>2, <1>3, <1>4, <1>5 DEF Next

\* The inductive invariant of the resolver.
THEOREM Inductive == Spec => []IInv
BY InitIInv, NextIInv, PTL DEF Spec

\* The two tables of lwIP and the requests of the SDK have their types.
THEOREM TypeCorrect == Spec => []TypeOK
<1>1. IInv => TypeOK
  BY DEF IInv, TableOK, SlotsOK, SdkOK, IndexOK, EntryType, TypeOK
<1> QED BY <1>1, Inductive, PTL

\* Each pending request has exactly one slot, which points to an entry that is
\* being asked for with the request's own question, and no slot outlives its
\* request: dns_call_found never uses a freed event and forgets nobody.
THEOREM SlotsBackRequests == Spec => []RequestsBacked
<1>1. IInv => RequestsBacked
  BY DEF IInv
<1> QED BY <1>1, Inductive, PTL

\* The open pcbs are exactly those of the entries that are being asked for,
\* however they are shared.
THEOREM PcbsAreInUse == Spec => []PcbsBalance
<1>1. IInv => PcbsBalance
  BY DEF IInv
<1> QED BY <1>1, Inductive, PTL

-----------------------------------------------------------------------------
\* dns_call_found completes the requests it tells, if there are any.
LEMMA CallFoundCompletes ==
  ASSUME IInv, NEW i \in Asking, NEW a \in {table[i].ask, Nothing}, CallFound(i, a)
  PROVE  [Resolver!Next]_<<evt, ask, answer>>
<1>1. /\ \A r \in Told(i) : /\ r \in Requests /\ evt[r] = "pending"
                            /\ ask[r] = table[i].ask
      /\ evt' = [r \in Requests |-> IF r \in Told(i) THEN "idle" ELSE evt[r]]
      /\ ask' = [r \in Requests |-> IF r \in Told(i) THEN Nothing ELSE ask[r]]
      /\ answer' = [r \in Requests |-> IF r \in Told(i) THEN a ELSE answer[r]]
  BY ToldFacts
<1>2. CASE Told(i) = {}
  BY <1>1, <1>2 DEF IInv, SdkOK
<1>3. CASE Told(i) # {}
  <2>1. \/ answer' = [r \in Requests |-> IF r \in Told(i) THEN ask[r] ELSE answer[r]]
        \/ answer' = [r \in Requests |-> IF r \in Told(i) THEN Nothing ELSE answer[r]]
    BY <1>1
  <2>2. Resolver!Complete(Told(i)) /\ Told(i) \in SUBSET Requests
    BY <1>1, <1>3, <2>1 DEF Resolver!Complete
  <2> QED BY <2>2 DEF Resolver!Next
<1> QED BY <1>2, <1>3

\* A call of nm_lwip_async_resolve is a step of ResolverSpec.
LEMMA ResolveAsks ==
  ASSUME IInv, NEW r \in Requests, NEW q \in Questions, Resolve(r, q)
  PROVE  Resolver!Next
<1>0. evt[r] = "idle"
  BY DEF Resolve, ResolveNow, ResolveRefused, ResolveDuplicate, ResolveNoRoom,
         ResolveNoPcb, ResolveQuery, Call
<1>1. CASE ResolveNow(r, q)
  <2>1. answer' = [answer EXCEPT ![r] = q]
    <3>1. CASE q \in Immediate
      BY <1>1, <3>1 DEF ResolveNow
    <3>2. CASE q \notin Immediate
      <4>1. Cached(q) # {} /\ Cached(q) \subseteq Nat
        BY <1>1, <3>2, SizeAssumption
        DEF ResolveNow, NeedsQuery, Cached, Done, Entries
      <4>2. First(Cached(q)) \in Cached(q)
        BY SMTT(20), <4>1, FirstIn
      <4>3. table[First(Cached(q))].addr = q
        BY <4>2 DEF Cached, Done, IInv, TableOK, EntryOK
      <4> QED BY SMTT(20), <1>1, <3>2, <4>3 DEF ResolveNow
    <3> QED BY <3>1, <3>2
  <2>2. Resolver!AskNow(r, q)
    BY <1>0, <1>1, <2>1 DEF ResolveNow, Resolver!AskNow
  <2> QED BY <2>2 DEF Resolver!Next
<1>2. CASE ResolveRefused(r, q) \/ ResolveNoRoom(r, q) \/ ResolveNoPcb(r, q)
  <2>1. Refuse(r)
    BY <1>2 DEF ResolveRefused, ResolveNoRoom, ResolveNoPcb
  <2>2. Resolver!AskNow(r, q)
    BY <1>0, <2>1 DEF Refuse, Resolver!AskNow
  <2> QED BY <2>2 DEF Resolver!Next
<1>3. CASE ResolveDuplicate(r, q) \/ ResolveQuery(r, q)
  <2>1. Pending(r, q)
    BY <1>3 DEF ResolveDuplicate, ResolveQuery
  <2>2. Resolver!Ask(r, q)
    BY <1>0, <2>1 DEF Pending, Resolver!Ask
  <2> QED BY <2>2 DEF Resolver!Next
<1> QED BY <1>1, <1>2, <1>3 DEF Resolve

\* The resolver implements the safety part of ResolverSpec: a request is
\* completed at most once per call, with the address of its own question or
\* with an error, whatever replies are lost, delayed or repeated.
THEOREM ImplementsSafety == Spec => Resolver!Safety
<1>1. Init => Resolver!Init
  BY DEF Init, Resolver!Init
<1>2. IInv /\ [Next]_vars => [Resolver!Next]_<<evt, ask, answer>>
  <2> SUFFICES ASSUME IInv, [Next]_vars PROVE [Resolver!Next]_<<evt, ask, answer>>
    OBVIOUS
  <2>1. ASSUME NEW c \in Calls, Resolve(c[1], c[2])
        PROVE  Resolver!Next
    <3>1. c[1] \in Requests /\ c[2] \in Questions
      BY NamesAssumption
    <3> QED BY <2>1, <3>1, ResolveAsks
  <2>2. ASSUME NEW i \in Entries, NEW x \in TxIds, NEW s \in 1..Servers,
               NEW q \in Questions, Recv(i, x, s, q)
        PROVE  [Resolver!Next]_<<evt, ask, answer>>
    <3>1. CASE RecvAnswer(i, x, s, q) \/ RecvFailure(i, x, s, q)
      <4>1. PICK a \in {q, Nothing} : i \in Asking /\ table[i].ask = q /\ CallFound(i, a)
        BY <3>1 DEF RecvAnswer, RecvFailure, Matches
      <4> QED BY <4>1, CallFoundCompletes
    <3>2. CASE RecvErrorRetry(i, x, s, q)
      BY <3>2 DEF RecvErrorRetry, sdkVars
    <3> QED BY <2>2, <3>1, <3>2 DEF Recv
  <2>3. CASE Tick
    BY <2>3 DEF Tick, sdkVars
  <2>4. CASE CheckEntries
    <3>1. CASE Expire(cursor)
      <4>1. cursor \in Asking /\ CallFound(cursor, Nothing)
        BY <3>1 DEF Expire
      <4> QED BY <4>1, CallFoundCompletes
    <3>2. CASE Check(cursor)
      BY <3>2 DEF Check, sdkVars
    <3> QED BY <2>4, <3>1, <3>2 DEF CheckEntries
  <2>5. CASE UNCHANGED vars
    BY <2>5 DEF vars, sdkVars
  <2> QED BY <2>1, <2>2, <2>3, <2>4, <2>5 DEF Next
<1>3. IInv /\ [Next]_vars => [Resolver!Next]_(Resolver!vars)
  BY <1>2 DEF Resolver!vars
<1> QED BY <1>1, <1>3, Inductive, PTL DEF Spec, Resolver!Safety
=============================================================================

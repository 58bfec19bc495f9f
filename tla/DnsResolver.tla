---------------------------- MODULE DnsResolver -----------------------------
(***************************************************************************)
(* Name resolution: nm_lwip_async_resolve and its callback over the DNS    *)
(* table of lwIP.  Every function here runs under the core lock, so one at *)
(* a time; dns_check_entries is taken entry by entry.  The network may     *)
(* lose, delay and repeat replies: any reply may arrive at any time.  The  *)
(* address of a question is named by the question.  Both servers are set   *)
(* once at start-up.                                                       *)
(***************************************************************************)
EXTENDS Naturals, FiniteSets

CONSTANTS
  Requests,    \* completion events of the SDK, each with its own
               \* dns_resolve_event
  Questions,   \* names with an address type that are asked for
  Calls,       \* the pairs of a request and a question that are asked
  Immediate,   \* the questions that need no query: "localhost", literals
  Refused,     \* the questions with an empty or too long name
  Nothing,     \* no question; no address, the outcome NABTO_EC_UNKNOWN
  NoReq,       \* a request slot with found = NULL
  TableSize,   \* DNS_TABLE_SIZE, DNS_MAX_REQUESTS and DNS_MAX_SOURCE_PORTS
  Servers,     \* DNS_MAX_SERVERS
  MaxRetries,  \* DNS_MAX_RETRIES
  TxIds,       \* transaction ids
  TtlMax,      \* bound on the time to live of an answer
  AgeModulus   \* dns_seqno is a u8_t: 256

ASSUME NothingAssumption == Nothing \notin Questions
ASSUME NoReqAssumption == NoReq \notin [arg : Requests, idx : 1..TableSize]
ASSUME SizeAssumption ==
  /\ TableSize \in Nat \ {0} /\ Servers \in Nat \ {0}
  /\ MaxRetries \in Nat \ {0, 1} /\ TtlMax \in Nat
  /\ AgeModulus \in Nat \ {0, 1}
ASSUME NamesAssumption ==
  /\ Immediate \subseteq Questions /\ Refused \subseteq Questions
  /\ Calls \subseteq Requests \X Questions

VARIABLES
  table,    \* dns_table
  reqs,     \* dns_requests
  pcbs,     \* the indices of dns_pcbs that hold a pcb
  lastPcb,  \* dns_last_pcb_idx
  cursor,   \* the entry dns_check_entries has reached, 0 outside of it
  evt,      \* evt[r]: "idle", "pending", or "twice" when resolved unasked
  ask,      \* ask[r]: r's question while it is pending
  answer,   \* answer[r]: the outcome of r's latest request once completed
  events    \* the requests whose dns_resolve_event the callback may use

dnsVars == <<table, reqs, pcbs, lastPcb>>
sdkVars == <<evt, ask, answer, events>>
vars == <<dnsVars, cursor, sdkVars>>

Entries == 1..TableSize

\* An entry in DNS_STATE_UNUSED; the fields an entry does not use in its
\* state have these values.  age is dns_seqno - seqno.
Unused == [state |-> "unused", ask |-> Nothing, addr |-> Nothing, pcb |-> 0,
           server |-> 0, tmr |-> 0, retries |-> 0, txid |-> 0, ttl |-> 0,
           age |-> 0]

Asking == {i \in Entries : table[i].state = "asking"}

Done == {i \in Entries : table[i].state = "done"}

Init ==
  /\ table = [i \in Entries |-> Unused]
  /\ reqs = [k \in Entries |-> NoReq]
  /\ pcbs = {} /\ lastPcb = 1 /\ cursor = 0
  /\ evt = [r \in Requests |-> "idle"]
  /\ ask = [r \in Requests |-> Nothing]
  /\ answer = [r \in Requests |-> Nothing]
  /\ events = {}

FreeSlots == {k \in Entries : reqs[k] = NoReq}

Waiting(i) == {k \in Entries : reqs[k] # NoReq /\ reqs[k].idx = i}

First(S) == CHOOSE i \in S : \A j \in S : i <= j

-----------------------------------------------------------------------------
\* nm_lwip_dns_resolve_callback for the requests rs with outcome a.  It does
\* not free its dns_resolve_event, which nothing refers to any more.
ResolveEvents(rs, a) ==
  /\ evt' = [r \in Requests |-> IF r \notin rs THEN evt[r]
                                ELSE IF evt[r] = "pending" THEN "idle" ELSE "twice"]
  /\ ask' = [r \in Requests |-> IF r \in rs THEN Nothing ELSE ask[r]]
  /\ answer' = [r \in Requests |-> IF r \in rs THEN a ELSE answer[r]]
  /\ events' = events \ rs

\* Mutant of CallFound: only the first request of the entry is told.
CallFoundFirst(i, a) ==
  LET k == {First(Waiting(i))}
  IN  /\ ResolveEvents({reqs[j].arg : j \in k}, a)
      /\ reqs' = [j \in Entries |-> IF j \in k THEN NoReq ELSE reqs[j]]
      /\ pcbs' = IF \E j \in Asking \ {i} : table[j].pcb = table[i].pcb
                   THEN pcbs ELSE pcbs \ {table[i].pcb}

\* Mutant of CallFound: the pcb is closed although another entry uses it.
CallFoundCloses(i, a) ==
  /\ ResolveEvents({reqs[k].arg : k \in Waiting(i)}, a)
  /\ reqs' = [k \in Entries |-> IF k \in Waiting(i) THEN NoReq ELSE reqs[k]]
  /\ pcbs' = pcbs \ {table[i].pcb}

\* dns_call_found: tell every request of entry i and close its pcb unless
\* another entry that is being asked for uses it.
CallFound(i, a) ==
  /\ ResolveEvents({reqs[k].arg : k \in Waiting(i)}, a)
  /\ reqs' = [k \in Entries |-> IF k \in Waiting(i) THEN NoReq ELSE reqs[k]]
  /\ pcbs' = IF \E j \in Asking \ {i} : table[j].pcb = table[i].pcb
               THEN pcbs ELSE pcbs \ {table[i].pcb}

-----------------------------------------------------------------------------
\* A call of nm_lwip_async_resolve.
Call(r) == cursor = 0 /\ evt[r] = "idle"

\* dns_lookup: the cached entries that answer q.
Cached(q) == {i \in Done : table[i].ask = q}

NeedsQuery(q) == q \notin Refused \cup Immediate /\ Cached(q) = {}

\* ERR_OK: the dns_resolve_event is freed and the completion event resolved.
ResolveNow(r, q) ==
  /\ Call(r)
  /\ q \notin Refused /\ ~NeedsQuery(q)
  /\ answer' = [answer EXCEPT ![r] =
                  IF q \in Immediate THEN q ELSE table[First(Cached(q))].addr]
  /\ UNCHANGED <<dnsVars, cursor, evt, ask, events>>

\* Any other error resolves the completion event; the dns_resolve_event is
\* not freed, and nothing refers to it.
Refuse(r) ==
  /\ answer' = [answer EXCEPT ![r] = Nothing]
  /\ UNCHANGED <<cursor, evt, ask, events>>

ResolveRefused(r, q) ==
  /\ Call(r) /\ q \in Refused
  /\ Refuse(r)
  /\ UNCHANGED dnsVars

\* ERR_INPROGRESS: the callback will use the dns_resolve_event.
Pending(r, q) ==
  /\ evt' = [evt EXCEPT ![r] = "pending"]
  /\ ask' = [ask EXCEPT ![r] = q]
  /\ answer' = [answer EXCEPT ![r] = Nothing]
  /\ events' = events \cup {r}
  /\ UNCHANGED cursor

\* The entries that already ask for q, with a slot left to wait for them.
Duplicates(q) == {i \in Asking : table[i].ask = q /\ FreeSlots # {}}

\* dns_enqueue, duplicate request.
ResolveDuplicate(r, q) ==
  /\ Call(r) /\ NeedsQuery(q) /\ Duplicates(q) # {}
  /\ reqs' = [reqs EXCEPT ![First(FreeSlots)] =
                [arg |-> r, idx |-> First(Duplicates(q))]]
  /\ Pending(r, q)
  /\ UNCHANGED <<table, pcbs, lastPcb>>

\* The entry dns_enqueue takes: the first unused one, otherwise the oldest
\* completed one.  An entry whose age has wrapped to 0 is not found.
Victims ==
  LET unused == Entries \ (Asking \cup Done)
      aged == {i \in Done : table[i].age > 0}
      oldest == {i \in aged : \A j \in aged : table[j].age <= table[i].age}
  IN  IF unused # {} THEN {First(unused)}
      ELSE IF aged # {} THEN {First(oldest)}
      ELSE {}

\* dns_enqueue, no entry or no request slot: ERR_MEM.
ResolveNoRoom(r, q) ==
  /\ Call(r) /\ NeedsQuery(q) /\ Duplicates(q) = {}
  /\ Victims = {} \/ FreeSlots = {}
  /\ Refuse(r)
  /\ UNCHANGED dnsVars

\* dns_alloc_pcb: a new pcb if udp_new and udp_bind succeed, otherwise the
\* next open one after the last used.
ReusedPcb == CHOOSE p \in pcbs : \A o \in pcbs :
  (p + TableSize - lastPcb - 1) % TableSize <= (o + TableSize - lastPcb - 1) % TableSize

AllocPcb(isNew) ==
  IF isNew /\ Entries \ pcbs # {} THEN First(Entries \ pcbs) ELSE ReusedPcb

\* dns_enqueue, no pcb: ERR_MEM.  The entry that was to be used stays flushed.
ResolveNoPcb(r, q) ==
  /\ Call(r) /\ NeedsQuery(q) /\ Duplicates(q) = {}
  /\ FreeSlots # {} /\ pcbs = {}
  /\ \E i \in Victims : table' = [table EXCEPT ![i] = Unused]
  /\ Refuse(r)
  /\ UNCHANGED <<reqs, pcbs, lastPcb>>

\* dns_create_txid.
UniqueTxIds == TxIds \ {table[j].txid : j \in Asking}

\* dns_enqueue and the first dns_check_entry: the query goes to server 1.
ResolveQuery(r, q) ==
  /\ Call(r) /\ NeedsQuery(q) /\ Duplicates(q) = {} /\ FreeSlots # {}
  /\ \E i \in Victims, x \in UniqueTxIds, isNew \in BOOLEAN :
       /\ isNew \/ pcbs # {}
       /\ LET p == AllocPcb(isNew)
              aged == [j \in Entries |->
                        IF table[j].state = "unused" THEN table[j]
                        ELSE [table[j] EXCEPT !.age = (@ + 1) % AgeModulus]]
          IN  /\ table' = [aged EXCEPT ![i] =
                   [state |-> "asking", ask |-> q, addr |-> Nothing, pcb |-> p,
                    server |-> 1, tmr |-> 1, retries |-> 0, txid |-> x,
                    ttl |-> 0, age |-> 1]]
              /\ pcbs' = pcbs \cup {p} /\ lastPcb' = p
       /\ reqs' = [reqs EXCEPT ![First(FreeSlots)] = [arg |-> r, idx |-> i]]
  /\ Pending(r, q)

-----------------------------------------------------------------------------
\* dns_tmr, once a second.
Tick ==
  /\ cursor = 0
  /\ cursor' = 1
  /\ UNCHANGED <<dnsVars, sdkVars>>

\* Mutant of GaveUp: one more server is believed to be there.
GaveUpLate(e) == e.tmr = 1 /\ e.retries + 1 = MaxRetries /\ e.server > Servers

\* No backup server is left to try.
GaveUp(e) == e.tmr = 1 /\ e.retries + 1 = MaxRetries /\ e.server = Servers

\* DNS_STATE_ASKING in dns_check_entry, short of giving up: wait, ask the next
\* server, or ask again and wait longer.  A query that cannot be sent is lost.
AskAgain(e) ==
  IF e.tmr > 1 THEN [e EXCEPT !.tmr = @ - 1]
  ELSE IF e.retries + 1 = MaxRetries
    THEN [e EXCEPT !.server = @ + 1, !.tmr = 1, !.retries = 0]
    ELSE [e EXCEPT !.retries = @ + 1, !.tmr = e.retries + 1]

\* The entry timed out at the last server.
Expire(i) ==
  /\ i \in Asking /\ GaveUp(table[i])
  /\ CallFound(i, Nothing)
  /\ table' = [table EXCEPT ![i] = Unused]

\* dns_check_entry for every other case.
Check(i) ==
  /\ i \in Asking => ~GaveUp(table[i])
  /\ table' = [table EXCEPT ![i] =
       IF i \in Asking THEN AskAgain(table[i])
       ELSE IF i \in Done /\ table[i].ttl > 1 THEN [table[i] EXCEPT !.ttl = @ - 1]
       ELSE Unused]
  /\ UNCHANGED <<reqs, pcbs, sdkVars>>

CheckEntries ==
  /\ cursor > 0
  /\ Expire(cursor) \/ Check(cursor)
  /\ cursor' = (cursor + 1) % (TableSize + 1)
  /\ UNCHANGED lastPcb

-----------------------------------------------------------------------------
\* Mutant of Matches: the name is not compared.
MatchesAnyName(i, x, s, q) ==
  cursor = 0 /\ i \in Asking /\ table[i].txid = x /\ table[i].server = s

\* dns_recv accepts a reply with id x from server s to question q for entry i.
Matches(i, x, s, q) ==
  /\ cursor = 0
  /\ i \in Asking /\ table[i].txid = x /\ table[i].server = s /\ table[i].ask = q

\* dns_correct_response: the entry is completed, and flushed if its ttl is 0.
RecvAnswer(i, x, s, q) ==
  /\ Matches(i, x, s, q)
  /\ CallFound(i, q)
  /\ \E t \in 0..TtlMax :
       table' = [table EXCEPT ![i] =
         IF t = 0 THEN Unused
         ELSE [state |-> "done", ask |-> table[i].ask, addr |-> q, pcb |-> 0,
               server |-> 0, tmr |-> 0, retries |-> 0, txid |-> 0, ttl |-> t,
               age |-> table[i].age]]
  /\ UNCHANGED <<lastPcb, cursor>>

\* An error, with another server to try: retries and tmr are set so that
\* dns_check_entry changes the server.
RecvErrorRetry(i, x, s, q) ==
  /\ Matches(i, x, s, q) /\ table[i].server < Servers
  /\ table' = [table EXCEPT ![i] =
       AskAgain([@ EXCEPT !.retries = MaxRetries - 1, !.tmr = 1])]
  /\ UNCHANGED <<reqs, pcbs, lastPcb, cursor, sdkVars>>

\* An error from the last server, or a reply without an address of the type.
RecvFailure(i, x, s, q) ==
  /\ Matches(i, x, s, q)
  /\ CallFound(i, Nothing)
  /\ table' = [table EXCEPT ![i] = Unused]
  /\ UNCHANGED <<lastPcb, cursor>>

Resolve(r, q) ==
  \/ ResolveNow(r, q) \/ ResolveRefused(r, q) \/ ResolveDuplicate(r, q)
  \/ ResolveNoRoom(r, q) \/ ResolveNoPcb(r, q) \/ ResolveQuery(r, q)

Recv(i, x, s, q) ==
  RecvAnswer(i, x, s, q) \/ RecvErrorRetry(i, x, s, q) \/ RecvFailure(i, x, s, q)

Next ==
  \/ \E c \in Calls : Resolve(c[1], c[2])
  \/ \E i \in Entries, x \in TxIds, s \in 1..Servers, q \in Questions :
       Recv(i, x, s, q)
  \/ Tick
  \/ CheckEntries

\* The lwIP thread runs its timers: PacketsHandled of TcpipThread.
Fairness == WF_vars(Tick) /\ WF_vars(CheckEntries)

Spec == Init /\ [][Next]_vars /\ Fairness

-----------------------------------------------------------------------------
TypeOK ==
  /\ table \in [Entries -> [state : {"unused", "asking", "done"},
       ask : Questions \cup {Nothing}, addr : Questions \cup {Nothing},
       pcb : 0..TableSize, server : 0..Servers, tmr : 0..MaxRetries,
       retries : 0..MaxRetries, txid : TxIds \cup {0}, ttl : 0..TtlMax,
       age : 0..(AgeModulus - 1)]]
  /\ reqs \in [Entries -> [arg : Requests, idx : Entries] \cup {NoReq}]
  /\ pcbs \subseteq Entries /\ lastPcb \in Entries /\ cursor \in 0..TableSize
  /\ evt \in [Requests -> {"idle", "pending"}]
  /\ ask \in [Requests -> Questions \cup {Nothing}]
  /\ answer \in [Requests -> Questions \cup {Nothing}]
  /\ events \subseteq Requests

\* The two tables agree: a pending request has exactly one slot, that slot
\* points to an entry that is being asked for with the request's own name and
\* type, and its dns_resolve_event has not been freed.  No slot outlives its
\* request, so dns_call_found calls nobody twice and forgets nobody.
RequestsBacked ==
  /\ \A r \in Requests : evt[r] = "pending" =>
       \E k \in Entries : reqs[k] # NoReq /\ reqs[k].arg = r
  /\ \A k \in Entries \ FreeSlots :
       /\ evt[reqs[k].arg] = "pending" /\ reqs[k].arg \in events
       /\ reqs[k].idx \in Asking
       /\ table[reqs[k].idx].ask = ask[reqs[k].arg]
       /\ \A j \in Entries \ FreeSlots : reqs[j].arg = reqs[k].arg => j = k

\* The open pcbs are those of the entries being asked for, shared ones
\* included: no query waits on a closed port and no port stays open after its
\* last query.
PcbsBalance == pcbs = {table[i].pcb : i \in Asking}

Resolver == INSTANCE ResolverSpec

\* The resolver keeps the promise of ResolverSpec: each request is completed
\* once, with the address of its own question or an error, and in the end.
ImplementsResolver == Resolver!Spec
=============================================================================

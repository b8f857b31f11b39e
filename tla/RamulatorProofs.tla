--------------------------- MODULE RamulatorProofs ---------------------------
(***************************************************************************)
(* First, what holds of every single request, cache line and list of       *)
(* waiting requests, and that the operators of Memory keep it so.  Then,   *)
(* that Scarab and Ramulator agree on what is out: each step of either     *)
(* keeps the lists of waiting requests, the answers and the states of the  *)
(* requests together.                                                      *)
(***************************************************************************)
EXTENDS CoreMemory, ExtremumLemmas, FiniteSetTheorems

\* A request, whatever happened to it so far: its state and queue agree, a
\* freed buffer has forgotten everything, ops are woken and lines made dirty
\* only by a request that fills the data cache, what waits for the core has a
\* cache of it to fill, a writeback never leaves the L1 queue, and the
\* prefetcher was told the truth.
RequestOK(r) ==
  /\ r \in Request
  /\ r.queue \in QueuesOf(r.state)
  /\ r.state = "INV" => r = FreeBuffer
  /\ r.state # "INV" => r.addr \in Lines
  /\ (r.type = "IFETCH") = (r.done_func = "icache")
  /\ r.queue = "CORE_FILL" => r.done_func # "NULL"
  /\ r.ops # {} => r.done_func = "dcache"
  /\ r.dirty_l0 => r.ops # {}
  /\ r.type = "WB" => r.state \in {"L1_NEW", "L1_WAIT"} /\ r.done_func = "NULL"
  /\ r.prefetcher => r.type = "DPRF" \/ r.demand_match_prefetch
  /\ r.demand_match_prefetch => r.type # "DPRF"
  /\ r.useful =< 1
  /\ ~ r.demand_match_prefetch => r.useful = 0
  /\ r.prefetcher /\ r.state \in {"MEM_NEW", "FILL_L1", "FILL_DONE"}
       => r.sent > 0

\* A line of the L1: what was not used yet was not counted as useful.
DataOK(d) ==
  /\ d \in L1Data
  /\ d.valid => d.line \in Lines
  /\ d.useful =< 1
  /\ d.prefetch /\ ~ d.seen_prefetch => d.useful = 0

LEMMA FreeBufferOK == RequestOK(FreeBuffer)
<1>1. FreeBuffer \in Request
  BY DEF FreeBuffer, Request, States, Queues, Types, Demands, CountMax
<1>2. "none" \in QueuesOf("INV")
  BY DEF QueuesOf
<1>3. QED
  BY <1>1, <1>2 DEF RequestOK, FreeBuffer

\* The arguments new_mem_req is called with, by any of its callers.
Asked(type, line, ops, store, done, prefetcher) ==
  /\ type \in Demands \cup {"DPRF"} /\ line \in Lines
  /\ ops \in SUBSET Waiters
  /\ store \in BOOLEAN /\ prefetcher \in BOOLEAN
  /\ done \in {"NULL", "dcache", "icache"}
  /\ (type = "IFETCH") = (done = "icache")
  /\ ops # {} => done = "dcache"
  /\ store => ops # {}
  /\ prefetcher => type = "DPRF" /\ ops = {}

LEMMA NewRequestOK ==
  ASSUME NEW type, NEW line, NEW ops, NEW store, NEW done, NEW prefetcher,
         Asked(type, line, ops, store, done, prefetcher)
  PROVE  RequestOK(NewRequest(type, line, ops, store, done, prefetcher))
<1> DEFINE r == NewRequest(type, line, ops, store, done, prefetcher)
<1>1. r = [state |-> "L1_NEW", queue |-> "L1", type |-> type,
           addr |-> line, done_func |-> done, ops |-> ops,
           dirty_l0 |-> store, demand_match_prefetch |-> FALSE,
           prefetcher |-> prefetcher, sent |-> 0, useful |-> 0]
  BY DEF NewRequest
<1>2. r \in Request
  <2> HIDE DEF r
  <2> QED  BY <1>1 DEF Asked, Request, States, Queues, Types, Demands, CountMax
<1>3. r.queue \in QueuesOf(r.state)
  <2> HIDE DEF r
  <2> QED  BY <1>1 DEF QueuesOf
<1> HIDE DEF r
<1>4. RequestOK(r)
  BY <1>1, <1>2, <1>3 DEF RequestOK, Asked, Demands
<1>5. QED
  BY <1>4 DEF r

\* The writeback of the data cache that new_mem_dc_wb_req makes.
LEMMA NewWritebackOK ==
  ASSUME NEW line \in Lines
  PROVE  RequestOK(NewRequest("WB", line, {}, FALSE, "NULL", FALSE))
<1> DEFINE r == NewRequest("WB", line, {}, FALSE, "NULL", FALSE)
<1>1. r = [state |-> "L1_NEW", queue |-> "L1", type |-> "WB",
           addr |-> line, done_func |-> "NULL", ops |-> {},
           dirty_l0 |-> FALSE, demand_match_prefetch |-> FALSE,
           prefetcher |-> FALSE, sent |-> 0, useful |-> 0]
  BY DEF NewRequest
<1>2. r \in Request
  <2> HIDE DEF r
  <2> QED  BY <1>1 DEF Request, States, Queues, Types, Demands, CountMax
<1>3. r.queue \in QueuesOf(r.state)
  <2> HIDE DEF r
  <2> QED  BY <1>1 DEF QueuesOf
<1> HIDE DEF r
<1>4. RequestOK(r)
  BY <1>1, <1>2, <1>3 DEF RequestOK
<1>5. QED
  BY <1>4 DEF r

\* mem_adjust_matching_request leaves the request where it is, and for the
\* class of requests it was for.
LEMMA AdjustedFields ==
  ASSUME NEW r \in Request, NEW type, NEW ops, NEW store, NEW done
  PROVE  LET s == Adjusted(r, type, ops, store, done)
         IN  /\ s.state = r.state /\ s.queue = r.queue /\ s.addr = r.addr
             /\ s.prefetcher = r.prefetcher /\ s.sent = r.sent
             /\ s.ops = r.ops \cup ops
             /\ s.dirty_l0 = (r.dirty_l0 \/ store)
             /\ s.demand_match_prefetch =
                  (r.demand_match_prefetch \/ Late(r, type, ops))
             /\ s.useful = IF Late(r, type, ops) /\ r.prefetcher
                           THEN Up(r.useful) ELSE r.useful
             /\ s.type = IF Late(r, type, ops) THEN type ELSE r.type
             /\ s.done_func = IF ops # {} /\ (Late(r, type, ops)
                                                \/ r.done_func = "NULL")
                              THEN done ELSE r.done_func
BY DEF Adjusted, Request

LEMMA UpBounds ==
  ASSUME NEW n \in 0 .. CountMax
  PROVE  Up(n) \in 0 .. CountMax /\ Up(n) > 0 /\ (n = 0 => Up(n) = 1)
BY DEF Up, CountMax

LEMMA AdjustedOK ==
  ASSUME NEW r, RequestOK(r), r.state # "INV", r.type # "WB",
         NEW type, NEW line, NEW ops, NEW store, NEW done, NEW prefetcher,
         Asked(type, line, ops, store, done, prefetcher),
         (r.type = "IFETCH") = (type = "IFETCH")
  PROVE  LET s == Adjusted(r, type, ops, store, done)
         IN  /\ RequestOK(s)
             /\ s.state = r.state /\ s.queue = r.queue /\ s.addr = r.addr
             /\ s.ops = r.ops \cup ops
             /\ s.dirty_l0 = (r.dirty_l0 \/ store)
             /\ (s.type = "IFETCH") = (r.type = "IFETCH") /\ s.type # "WB"
<1> DEFINE s == Adjusted(r, type, ops, store, done)
           late == Late(r, type, ops)
<1>1. r \in Request
  BY DEF RequestOK
<1>2. /\ s.state = r.state /\ s.queue = r.queue /\ s.addr = r.addr
      /\ s.prefetcher = r.prefetcher /\ s.sent = r.sent
      /\ s.ops = r.ops \cup ops
      /\ s.dirty_l0 = (r.dirty_l0 \/ store)
      /\ s.demand_match_prefetch = (r.demand_match_prefetch \/ late)
      /\ s.useful = IF late /\ r.prefetcher THEN Up(r.useful) ELSE r.useful
      /\ s.type = IF late THEN type ELSE r.type
      /\ s.done_func = IF ops # {} /\ (late \/ r.done_func = "NULL")
                       THEN done ELSE r.done_func
  BY <1>1, AdjustedFields
<1>3. late \in BOOLEAN /\ (late => ops # {} /\ r.type = "DPRF"
                                    /\ type \in Demands)
  BY DEF Late
<1>4. Up(r.useful) \in 0 .. CountMax /\ (r.useful = 0 => Up(r.useful) = 1)
  BY <1>1, UpBounds DEF Request
<1>5. s \in Request
  <2>1. /\ s.type \in Types
        /\ s.done_func \in {"NULL", "dcache", "icache"}
        /\ s.ops \in SUBSET Waiters
        /\ s.dirty_l0 \in BOOLEAN /\ s.demand_match_prefetch \in BOOLEAN
        /\ s.useful \in 0 .. CountMax
    <3> HIDE DEF s, late
    <3> QED  BY <1>1, <1>2, <1>3, <1>4 DEF Request, Asked, Types
  <2>2. QED
    BY <1>1, <2>1 DEF Adjusted, Request
<1> HIDE DEF s, late
<1>6. (s.type = "IFETCH") = (r.type = "IFETCH") /\ s.type # "WB"
  BY <1>2, <1>3 DEF RequestOK, Asked, Demands
<1>7. /\ (s.type = "IFETCH") = (s.done_func = "icache")
      /\ s.ops # {} => s.done_func = "dcache"
      /\ s.dirty_l0 => s.ops # {}
      /\ s.queue = "CORE_FILL" => s.done_func # "NULL"
  BY <1>1, <1>2, <1>3, <1>6 DEF RequestOK, Asked, Request
<1>8. /\ s.prefetcher => s.type = "DPRF" \/ s.demand_match_prefetch
      /\ s.demand_match_prefetch => s.type # "DPRF"
      /\ s.useful =< 1
      /\ ~ s.demand_match_prefetch => s.useful = 0
  <2>1. /\ r.prefetcher \in BOOLEAN /\ r.demand_match_prefetch \in BOOLEAN
        /\ r.useful \in 0 .. CountMax
    BY <1>1 DEF Request
  <2>2. late => ~ r.demand_match_prefetch /\ r.useful = 0 /\ type # "DPRF"
    BY <1>3, <2>1 DEF RequestOK, Demands
  <2>3. /\ r.prefetcher => r.type = "DPRF" \/ r.demand_match_prefetch
        /\ r.demand_match_prefetch => r.type # "DPRF"
        /\ r.useful =< 1
        /\ ~ r.demand_match_prefetch => r.useful = 0
    BY DEF RequestOK
  <2>4. CASE late
    BY <1>2, <1>4, <2>1, <2>2, <2>3, <2>4
  <2>5. CASE ~ late
    BY <1>2, <2>1, <2>3, <2>5
  <2>6. QED
    BY <1>3, <2>4, <2>5
<1>9. RequestOK(s)
  BY <1>2, <1>5, <1>6, <1>7, <1>8 DEF RequestOK
<1>10. QED
  BY <1>2, <1>6, <1>9 DEF s


\* What the memory does to a request while it works for it: nothing that a
\* waiting op or a later request could miss.
Advances(r, s) ==
  \/ s = r
  \/ s = FreeBuffer /\ r.ops = {} /\ r.type # "IFETCH"
  \/ /\ r.state # "INV" /\ s.state # "INV"
     /\ s.addr = r.addr /\ s.type = r.type /\ s.ops = r.ops
     /\ s.done_func = r.done_func /\ s.dirty_l0 = r.dirty_l0
     /\ r.state \in Final => s.state \in Final

Shifted(r, state, queue, sent) ==
  [r EXCEPT !.state = state, !.queue = queue, !.sent = sent]

\* A request that moves on, and one that is reported as sent on its way.
LEMMA MovedOK ==
  ASSUME NEW r, RequestOK(r), r.state # "INV",
         NEW state \in States \ {"INV"}, NEW queue \in QueuesOf(state),
         NEW sent \in 0 .. CountMax,
         r.type = "WB" => state = "L1_WAIT",
         queue = "CORE_FILL" => r.done_func # "NULL",
         r.state \in Final => state \in Final,
         r.prefetcher /\ state # "L1_WAIT" /\ state # "L1_HIT_DONE"
           => sent > 0
  PROVE  LET s == Shifted(r, state, queue, sent)
         IN  /\ RequestOK(s) /\ Advances(r, s) /\ s.state = state
             /\ s.type = r.type /\ s.addr = r.addr
<1> DEFINE s == Shifted(r, state, queue, sent)
<1>1. r \in Request
  BY DEF RequestOK
<1>2. /\ s.state = state /\ s.queue = queue /\ s.sent = sent
      /\ s.type = r.type /\ s.addr = r.addr /\ s.done_func = r.done_func
      /\ s.ops = r.ops /\ s.dirty_l0 = r.dirty_l0
      /\ s.demand_match_prefetch = r.demand_match_prefetch
      /\ s.prefetcher = r.prefetcher /\ s.useful = r.useful
  BY <1>1 DEF Request, Shifted
<1>3. queue \in Queues
  BY DEF QueuesOf, Queues, States
<1>4. s \in Request
  BY <1>1, <1>3 DEF Request, Shifted
<1> HIDE DEF s
<1>5. RequestOK(s)
  <2>1. s.queue \in QueuesOf(s.state)
    BY <1>2
  <2>2. s.prefetcher /\ s.state \in {"MEM_NEW", "FILL_L1", "FILL_DONE"}
          => s.sent > 0
    BY <1>2
  <2>3. QED
    BY <1>2, <1>4, <2>1, <2>2 DEF RequestOK
<1>6. Advances(r, s)
  BY <1>2 DEF Advances
<1>7. QED
  BY <1>2, <1>5, <1>6 DEF s

\* Moved is the case in which nothing is reported.
LEMMA MovedIsMoved ==
  ASSUME NEW r \in Request, NEW state, NEW queue
  PROVE  [r EXCEPT !.state = state, !.queue = queue]
           = Shifted(r, state, queue, r.sent)
BY DEF Request, Shifted

\* mem_process_l1_hit_access counts a prefetch as useful at its first use.
LEMMA AccessedOK ==
  ASSUME NEW d, DataOK(d), NEW type
  PROVE  LET e == Accessed(type, d)
         IN  /\ DataOK(e)
             /\ e.valid = d.valid /\ e.line = d.line
             /\ d.dirty \/ type = "WB" => e.dirty
<1> DEFINE e == Accessed(type, d)
           first == FirstUse(type, d)
<1>1. d \in L1Data
  BY DEF DataOK
<1>2. first \in BOOLEAN /\ (first => d.prefetch /\ ~ d.seen_prefetch)
  BY DEF FirstUse
<1>3. /\ e.valid = d.valid /\ e.line = d.line /\ e.prefetch = d.prefetch
      /\ e.seen_prefetch = (d.seen_prefetch \/ first)
      /\ e.dirty = (d.dirty \/ type = "WB")
      /\ e.useful = IF first THEN Up(d.useful) ELSE d.useful
  BY <1>1 DEF Accessed, L1Data
<1>4. Up(d.useful) \in 0 .. CountMax /\ (d.useful = 0 => Up(d.useful) = 1)
  BY <1>1, UpBounds DEF L1Data
<1>5. e \in L1Data
  <2>1. /\ e.seen_prefetch \in BOOLEAN /\ e.dirty \in BOOLEAN
        /\ e.useful \in 0 .. CountMax
    <3> HIDE DEF e, first
    <3> QED  BY <1>1, <1>2, <1>3, <1>4 DEF L1Data
  <2>2. QED
    BY <1>1, <2>1 DEF Accessed, L1Data
<1>6. d.useful \in 0 .. CountMax /\ d.prefetch \in BOOLEAN
        /\ d.seen_prefetch \in BOOLEAN
  BY <1>1 DEF L1Data
<1>7. first => d.useful = 0
  BY <1>2, <1>6 DEF DataOK
<1> HIDE DEF e, first
<1>8. DataOK(e)
  BY <1>2, <1>3, <1>4, <1>5, <1>6, <1>7 DEF DataOK
<1>9. QED
  BY <1>3, <1>8 DEF e

\* l1_fill_line marks a prefetch that a demand came for as seen.
LEMMA FilledOK ==
  ASSUME NEW r, RequestOK(r), r.state # "INV"
  PROVE  DataOK(Filled(r))
<1>1. /\ r \in Request /\ r.addr \in Lines /\ r.useful =< 1
      /\ ~ r.demand_match_prefetch => r.useful = 0
  BY DEF RequestOK
<1>2. Filled(r) \in L1Data
  BY <1>1 DEF Filled, L1Data, Request
<1>3. QED
  BY <1>1, <1>2 DEF DataOK, Filled

-----------------------------------------------------------------------------
(***************************************************************************)
(* What the choices find                                                   *)
(***************************************************************************)

\* A request that may be allocated finds a free buffer.
LEMMA NewIdFree ==
  ASSUME Used < Entries
  PROVE  NewId \in Ids \ Live
<1>1. Live \subseteq Ids /\ Ids = 1 .. Entries /\ Entries \in Nat
  BY MemoryAssumption DEF Live
<1>2. ASSUME Ids \ Live = {}
      PROVE  FALSE
  <2>1. Live = 1 .. Entries
    BY <1>1, <1>2
  <2>2. Cardinality(Live) = Entries
    BY <1>1, <2>1, FS_Interval
  <2>3. QED
    BY <1>1, <2>2 DEF Used
<1>3. QED
  <2> DEFINE S == Ids \ Live
  <2>1. S \subseteq Nat /\ S # {}
    BY <1>1, <1>2
  <2> HIDE DEF S
  <2>2. Min(S) \in S
    BY <2>1, MinProperty
  <2>3. QED
    BY <2>2 DEF S, NewId

\* cache_access finds the line it says it has.
LEMMA HitWayHolds ==
  ASSUME NEW set, DOMAIN set \subseteq Nat, NEW line, Hit(set, line)
  PROVE  LET way == HitWay(set, line)
         IN  way \in DOMAIN set /\ set[way].valid /\ set[way].line = line
<1> DEFINE S == Holding(set, line)
<1>1. S \subseteq Nat /\ S # {}
  BY DEF Hit, Holding
<1>2. Min(S) \in S
  <2> HIDE DEF S
  <2> QED  BY <1>1, MinProperty
<1>3. QED
  BY <1>2 DEF HitWay, Holding

\* There is a way to replace in every set.
LEMMA ReplaceableWays ==
  ASSUME NEW set, DOMAIN set \subseteq Nat
  PROVE  Replaceable(set) \subseteq DOMAIN set
<1> DEFINE free == {w \in DOMAIN set : ~ set[w].valid}
<1>1. free # {} => Min(free) \in free
  <2>1. free \subseteq Nat
    OBVIOUS
  <2> HIDE DEF free
  <2> QED  BY <2>1, MinProperty
<1>2. QED
  BY <1>1 DEF Replaceable

\* A write leaves the queue, the others stay.
LEMMA RemoveAtType ==
  ASSUME NEW S, NEW s \in Seq(S), NEW i \in DOMAIN s
  PROVE  RemoveAt(s, i) \in Seq(S)
BY DEF RemoveAt

\* The answers of a line go behind those that wait already.
LEMMA ConcatElements ==
  ASSUME NEW S, NEW s \in Seq(S), NEW u \in Seq(S)
  PROVE  /\ s \o u \in Seq(S)
         /\ \A k \in DOMAIN (s \o u) :
              \/ k \in DOMAIN s /\ (s \o u)[k] = s[k]
              \/ /\ k \notin DOMAIN s /\ k - Len(s) \in DOMAIN u
                 /\ (s \o u)[k] = u[k - Len(s)]
OBVIOUS

LEMMA TailElements ==
  ASSUME NEW S, NEW s \in Seq(S), s # <<>>
  PROVE  /\ Tail(s) \in Seq(S) /\ Head(s) \in S /\ 1 \in DOMAIN s
         /\ Head(s) = s[1]
         /\ \A k \in DOMAIN Tail(s) : /\ k + 1 \in DOMAIN s /\ k + 1 # 1
                                      /\ Tail(s)[k] = s[k + 1]
OBVIOUS

LEMMA AppendElements ==
  ASSUME NEW S, NEW s \in Seq(S), NEW e \in S
  PROVE  /\ Append(s, e) \in Seq(S)
         /\ DOMAIN Append(s, e) = DOMAIN s \cup {Len(s) + 1}
         /\ Len(s) + 1 \notin DOMAIN s
         /\ Append(s, e)[Len(s) + 1] = e
         /\ \A k \in DOMAIN s : Append(s, e)[k] = s[k]
OBVIOUS

-----------------------------------------------------------------------------
(* The DRAM side.                                                           *)

\* Position by position: who waits for a line asked for it, nobody stands
\* in two places, and nobody is missing.
ListsInv ==
  /\ inflight \in [Lines -> Seq(Ids)] /\ resp \in Seq(Ids)
  /\ \A line \in Lines : \A k \in DOMAIN inflight[line] :
       /\ req[inflight[line][k]].state = "MEM_NEW"
       /\ req[inflight[line][k]].addr = line
       /\ \A m \in DOMAIN inflight[line] :
            inflight[line][k] = inflight[line][m] => k = m
       /\ \A m \in DOMAIN resp : inflight[line][k] # resp[m]
  /\ \A k \in DOMAIN resp :
       /\ req[resp[k]].state = "MEM_NEW"
       /\ \A m \in DOMAIN resp : resp[k] = resp[m] => k = m
  /\ \A i \in Ids : req[i].state = "MEM_NEW" =>
       /\ req[i].addr \in Lines
       /\ \/ \E k \in DOMAIN inflight[req[i].addr] :
               inflight[req[i].addr][k] = i
          \/ \E m \in DOMAIN resp : resp[m] = i

\* A line is with the controller in one place or, when nobody waits, in none.
PlacesInv ==
  /\ readq \subseteq Lines /\ pending \subseteq Lines
  /\ readq \cap pending = {}
  /\ \A line \in Lines :
       (inflight[line] = <<>>) = (line \notin readq \cup pending)

DramInv ==
  /\ writeq \in Seq(Lines) /\ write_mode \in BOOLEAN
  /\ ListsInv /\ PlacesInv

LEMMA InitDram ==
  ASSUME DramInit, \A i \in Ids : req[i].state # "MEM_NEW"
  PROVE  DramInv
<1>1. /\ inflight \in [Lines -> Seq(Ids)] /\ resp \in Seq(Ids)
      /\ writeq \in Seq(Lines)
  BY DEF DramInit
<1>2. DOMAIN resp = {} /\ \A line \in Lines : DOMAIN inflight[line] = {}
  BY DEF DramInit
<1>3. ListsInv
  BY <1>1, <1>2 DEF ListsInv
<1>4. PlacesInv
  BY DEF DramInit, PlacesInv
<1>5. QED
  BY <1>1, <1>3, <1>4 DEF DramInit, DramInv

\* Steps that neither send nor answer a request.
LEMMA ListsKept ==
  ASSUME ListsInv, UNCHANGED <<inflight, resp>>,
         \A i \in Ids :
           req[i].state = "MEM_NEW" \/ req'[i].state = "MEM_NEW" =>
             req'[i].state = req[i].state /\ req'[i].addr = req[i].addr
  PROVE  ListsInv'
<1>1. inflight' = inflight /\ resp' = resp
  OBVIOUS
<1>2. /\ \A line \in Lines : \A k \in DOMAIN inflight[line] :
           inflight[line][k] \in Ids
      /\ \A k \in DOMAIN resp : resp[k] \in Ids
  BY DEF ListsInv
<1>3. \A line \in Lines : \A k \in DOMAIN inflight[line] :
        /\ req'[inflight[line][k]].state = "MEM_NEW"
        /\ req'[inflight[line][k]].addr = line
  BY <1>2 DEF ListsInv
<1>4. \A k \in DOMAIN resp : req'[resp[k]].state = "MEM_NEW"
  BY <1>2 DEF ListsInv
<1>5. ASSUME NEW i \in Ids, req'[i].state = "MEM_NEW"
      PROVE  /\ req'[i].addr \in Lines
             /\ \/ \E k \in DOMAIN inflight[req'[i].addr] :
                     inflight[req'[i].addr][k] = i
                \/ \E m \in DOMAIN resp : resp[m] = i
  <2>1. req[i].state = "MEM_NEW" /\ req'[i].addr = req[i].addr
    BY <1>5
  <2>2. QED
    BY <2>1 DEF ListsInv
<1>6. QED
  BY <1>1, <1>3, <1>4, <1>5 DEF ListsInv

LEMMA DramKept ==
  ASSUME DramInv, UNCHANGED dramVars,
         \A i \in Ids :
           req[i].state = "MEM_NEW" \/ req'[i].state = "MEM_NEW" =>
             req'[i].state = req[i].state /\ req'[i].addr = req[i].addr
  PROVE  DramInv'
<1>1. ListsInv'
  BY ListsKept DEF dramVars, DramInv
<1>2. PlacesInv'
  BY DEF PlacesInv, DramInv, dramVars
<1>3. QED
  BY <1>1, <1>2 DEF DramInv, dramVars

LEMMA SendWriteKeeps ==
  ASSUME DramInv, NEW line \in Lines, SendWrite(line),
         \A i \in Ids :
           req[i].state = "MEM_NEW" \/ req'[i].state = "MEM_NEW" =>
             req'[i].state = req[i].state /\ req'[i].addr = req[i].addr
  PROVE  DramInv'
<1>1. ListsInv'
  BY ListsKept DEF DramInv, SendWrite
<1>2. PlacesInv'
  BY DEF PlacesInv, DramInv, SendWrite
<1>3. writeq' \in Seq(Lines) /\ write_mode' \in BOOLEAN
  BY AppendElements DEF DramInv, SendWrite
<1>4. QED
  BY <1>1, <1>2, <1>3 DEF DramInv

LEMMA SwitchModeKeeps ==
  ASSUME DramInv, SwitchMode, UNCHANGED req
  PROVE  DramInv'
<1>1. ListsInv'
  BY ListsKept DEF DramInv, SwitchMode
<1>2. PlacesInv'
  BY DEF PlacesInv, DramInv, SwitchMode
<1>3. write_mode' \in BOOLEAN
  <2>1. NextMode \in BOOLEAN
    BY DEF NextMode
  <2>2. QED
    BY <2>1 DEF SwitchMode
<1>4. QED
  BY <1>1, <1>2, <1>3 DEF DramInv, SwitchMode

LEMMA ServeReadKeeps ==
  ASSUME DramInv, NEW line \in Lines, ServeRead(line), UNCHANGED req
  PROVE  DramInv'
<1>1. ListsInv'
  BY ListsKept DEF DramInv, ServeRead
<1>2. PlacesInv'
  BY DEF PlacesInv, DramInv, ServeRead
<1>3. QED
  BY <1>1, <1>2 DEF DramInv, ServeRead

LEMMA ServeWriteKeeps ==
  ASSUME DramInv, NEW i \in DOMAIN writeq, ServeWrite(i), UNCHANGED req
  PROVE  DramInv'
<1>1. ListsInv'
  BY ListsKept DEF DramInv, ServeWrite
<1>2. PlacesInv'
  BY DEF PlacesInv, DramInv, ServeWrite
<1>3. writeq' \in Seq(Lines)
  BY RemoveAtType DEF DramInv, ServeWrite
<1>4. QED
  BY <1>1, <1>2, <1>3 DEF DramInv, ServeWrite

\* enqueue_response: the requests of a line move behind the answers.
LEMMA CompleteKeeps ==
  ASSUME DramInv, NEW line \in Lines, Complete(line), UNCHANGED req
  PROVE  DramInv'
<1> DEFINE s == inflight[line]
<1>1. /\ inflight \in [Lines -> Seq(Ids)] /\ s \in Seq(Ids)
      /\ resp \in Seq(Ids)
  BY DEF DramInv, ListsInv
<1>2. /\ resp' = resp \o s /\ req' = req
      /\ inflight' = [inflight EXCEPT ![line] = <<>>]
      /\ inflight' \in [Lines -> Seq(Ids)]
  BY <1>1 DEF Complete
<1>3. /\ resp \o s \in Seq(Ids)
      /\ \A k \in DOMAIN (resp \o s) :
           \/ k \in DOMAIN resp /\ (resp \o s)[k] = resp[k]
           \/ /\ k \notin DOMAIN resp /\ k - Len(resp) \in DOMAIN s
              /\ (resp \o s)[k] = s[k - Len(resp)]
  BY <1>1, ConcatElements
<1>4. /\ \A k \in DOMAIN resp : /\ k \in DOMAIN (resp \o s)
                                /\ (resp \o s)[k] = resp[k]
      /\ \A k \in DOMAIN s : /\ k + Len(resp) \in DOMAIN (resp \o s)
                             /\ (resp \o s)[k + Len(resp)] = s[k]
  BY <1>1
<1> HIDE DEF s
<1>5. ListsInv'
  <2>1. \A k \in DOMAIN resp' :
          /\ req[resp'[k]].state = "MEM_NEW"
          /\ \A m \in DOMAIN resp' : resp'[k] = resp'[m] => k = m
    <3>1. ASSUME NEW k \in DOMAIN resp'
          PROVE  req[resp'[k]].state = "MEM_NEW"
      BY <1>2, <1>3 DEF DramInv, ListsInv, s
    <3>2. ASSUME NEW k \in DOMAIN resp', NEW m \in DOMAIN resp',
                 resp'[k] = resp'[m]
          PROVE  k = m
      <4>1. CASE k \in DOMAIN resp /\ m \in DOMAIN resp
        BY <1>2, <1>3, <3>2, <4>1 DEF DramInv, ListsInv
      <4>2. CASE k \in DOMAIN resp /\ m \notin DOMAIN resp
        BY <1>2, <1>3, <3>2, <4>2 DEF DramInv, ListsInv, s
      <4>3. CASE k \notin DOMAIN resp /\ m \in DOMAIN resp
        BY <1>2, <1>3, <3>2, <4>3 DEF DramInv, ListsInv, s
      <4>4. CASE k \notin DOMAIN resp /\ m \notin DOMAIN resp
        <5>1. k - Len(resp) = m - Len(resp)
          BY <1>2, <1>3, <3>2, <4>4 DEF DramInv, ListsInv, s
        <5>2. k \in Int /\ m \in Int /\ Len(resp) \in Int
          BY <1>1, <1>2, <1>3
        <5>3. QED
          BY <5>1, <5>2
      <4>5. QED
        BY <4>1, <4>2, <4>3, <4>4
    <3>3. QED
      BY <3>1, <3>2
  <2>2. ASSUME NEW other \in Lines, NEW k \in DOMAIN inflight'[other]
        PROVE  /\ req[inflight'[other][k]].state = "MEM_NEW"
               /\ req[inflight'[other][k]].addr = other
               /\ \A m \in DOMAIN inflight'[other] :
                    inflight'[other][k] = inflight'[other][m] => k = m
               /\ \A m \in DOMAIN resp' : inflight'[other][k] # resp'[m]
    <3>1. other # line
      BY <1>1, <1>2, <2>2
    <3>2. inflight'[other] = inflight[other]
      BY <1>1, <1>2, <3>1
    <3>3. ASSUME NEW m \in DOMAIN resp'
          PROVE  inflight[other][k] # resp'[m]
      <4>1. CASE m \in DOMAIN resp
        BY <1>2, <1>3, <2>2, <3>2, <4>1 DEF DramInv, ListsInv
      <4>2. CASE m \notin DOMAIN resp
        <5>1. m - Len(resp) \in DOMAIN s /\ resp'[m] = s[m - Len(resp)]
          BY <1>2, <1>3, <4>2
        <5>2. req[resp'[m]].addr = line
          BY <5>1 DEF DramInv, ListsInv, s
        <5>3. req[inflight[other][k]].addr = other
          BY <2>2, <3>2 DEF DramInv, ListsInv
        <5>4. QED
          BY <3>1, <5>2, <5>3
      <4>3. QED
        BY <4>1, <4>2
    <3>4. QED
      BY <2>2, <3>2, <3>3 DEF DramInv, ListsInv
  <2>3. ASSUME NEW i \in Ids, req[i].state = "MEM_NEW"
        PROVE  /\ req[i].addr \in Lines
               /\ \/ \E k \in DOMAIN inflight'[req[i].addr] :
                       inflight'[req[i].addr][k] = i
                  \/ \E m \in DOMAIN resp' : resp'[m] = i
    <3>1. req[i].addr \in Lines
      BY <2>3 DEF DramInv, ListsInv
    <3>2. CASE \E m \in DOMAIN resp : resp[m] = i
      BY <1>2, <1>4, <3>1, <3>2
    <3>3. CASE \E k \in DOMAIN inflight[req[i].addr] :
                 inflight[req[i].addr][k] = i
      <4>1. CASE req[i].addr = line
        <5>1. PICK k \in DOMAIN s : s[k] = i
          BY <3>3, <4>1 DEF s
        <5>2. Len(resp) + k \in DOMAIN resp' /\ resp'[Len(resp) + k] = i
          BY <1>2, <1>4, <5>1
        <5>3. QED
          BY <3>1, <5>2
      <4>2. CASE req[i].addr # line
        BY <1>1, <1>2, <3>1, <3>3, <4>2
      <4>3. QED
        BY <4>1, <4>2
    <3>4. QED
      BY <2>3, <3>1, <3>2, <3>3 DEF DramInv, ListsInv
  <2>4. inflight' \in [Lines -> Seq(Ids)] /\ resp' \in Seq(Ids)
    BY <1>2, <1>3
  <2>5. QED
    BY <1>2, <2>1, <2>2, <2>3, <2>4 DEF ListsInv
<1>6. PlacesInv'
  BY <1>1, <1>2 DEF DramInv, PlacesInv, Complete
<1>7. QED
  BY <1>5, <1>6 DEF DramInv, Complete

\* ramulator_send: the request joins the list of its line.
LEMMA SendReadKeeps ==
  ASSUME DramInv, NEW line \in Lines, NEW i \in Ids, SendRead(line, i),
         req[i].state # "MEM_NEW",
         req'[i].state = "MEM_NEW", req'[i].addr = line,
         \A j \in Ids \ {i} : req'[j] = req[j]
  PROVE  DramInv'
<1> DEFINE s == inflight[line]
<1>1. /\ inflight \in [Lines -> Seq(Ids)] /\ s \in Seq(Ids)
      /\ resp \in Seq(Ids)
  BY DEF DramInv, ListsInv
<1>2. /\ resp' = resp
      /\ inflight' = [inflight EXCEPT ![line] = Append(s, i)]
  BY DEF SendRead, Waiting
<1>3. /\ Append(s, i) \in Seq(Ids)
      /\ DOMAIN Append(s, i) = DOMAIN s \cup {Len(s) + 1}
      /\ Len(s) + 1 \notin DOMAIN s
      /\ Append(s, i)[Len(s) + 1] = i
      /\ \A k \in DOMAIN s : Append(s, i)[k] = s[k]
  BY <1>1, AppendElements
<1>4. /\ \A k \in DOMAIN resp : resp[k] \in Ids /\ resp[k] # i
      /\ \A other \in Lines : \A k \in DOMAIN inflight[other] :
           inflight[other][k] \in Ids /\ inflight[other][k] # i
  BY <1>1 DEF DramInv, ListsInv
<1>5. /\ inflight'[line] = Append(s, i)
      /\ \A other \in Lines \ {line} : inflight'[other] = inflight[other]
      /\ inflight' \in [Lines -> Seq(Ids)]
  BY <1>1, <1>2, <1>3
<1> HIDE DEF s
<1>6. ListsInv'
  <2>1. ASSUME NEW k \in DOMAIN resp
        PROVE  /\ req'[resp[k]].state = "MEM_NEW"
               /\ \A m \in DOMAIN resp : resp[k] = resp[m] => k = m
    <3>1. /\ req[resp[k]].state = "MEM_NEW"
          /\ \A m \in DOMAIN resp : resp[k] = resp[m] => k = m
      BY <2>1 DEF DramInv, ListsInv
    <3>2. req'[resp[k]] = req[resp[k]]
      BY <1>4, <2>1
    <3>3. QED
      BY <3>1, <3>2
  <2>2. ASSUME NEW other \in Lines, NEW k \in DOMAIN inflight'[other]
        PROVE  /\ req'[inflight'[other][k]].state = "MEM_NEW"
               /\ req'[inflight'[other][k]].addr = other
               /\ \A m \in DOMAIN inflight'[other] :
                    inflight'[other][k] = inflight'[other][m] => k = m
               /\ \A m \in DOMAIN resp : inflight'[other][k] # resp[m]
    <3>1. CASE other # line
      <4>1. inflight'[other] = inflight[other] /\ k \in DOMAIN inflight[other]
        BY <1>5, <2>2, <3>1
      <4>2. /\ req[inflight[other][k]].state = "MEM_NEW"
            /\ req[inflight[other][k]].addr = other
            /\ \A m \in DOMAIN inflight[other] :
                 inflight[other][k] = inflight[other][m] => k = m
            /\ \A m \in DOMAIN resp : inflight[other][k] # resp[m]
        BY <4>1 DEF DramInv, ListsInv
      <4>3. req'[inflight[other][k]] = req[inflight[other][k]]
        BY <1>4, <4>1
      <4>4. QED
        BY <4>1, <4>2, <4>3
    <3>2. CASE other = line /\ k \in DOMAIN s
      <4>1. inflight'[other][k] = s[k] /\ s[k] \in Ids /\ s[k] # i
        BY <1>3, <1>4, <1>5, <3>2 DEF s
      <4>2. /\ req'[s[k]].state = "MEM_NEW" /\ req'[s[k]].addr = line
            /\ \A m \in DOMAIN resp : s[k] # resp[m]
        BY <3>2, <4>1 DEF DramInv, ListsInv, s
      <4>3. ASSUME NEW m \in DOMAIN Append(s, i), s[k] = Append(s, i)[m]
            PROVE  k = m
        <5>1. m \in DOMAIN s
          BY <1>3, <4>1, <4>3
        <5>2. s[k] = s[m]
          BY <1>3, <4>3, <5>1
        <5>3. QED
          BY <3>2, <5>1, <5>2 DEF DramInv, ListsInv, s
      <4>4. QED
        BY <1>5, <3>2, <4>1, <4>2, <4>3
    <3>3. CASE other = line /\ k = Len(s) + 1
      <4>1. inflight'[other][k] = i
        BY <1>3, <1>5, <3>3
      <4>2. ASSUME NEW m \in DOMAIN Append(s, i), Append(s, i)[m] = i
            PROVE  k = m
        BY <1>3, <1>4, <3>3, <4>2 DEF s
      <4>3. QED
        BY <1>4, <1>5, <3>3, <4>1, <4>2
    <3>4. QED
      BY <1>3, <1>5, <2>2, <3>1, <3>2, <3>3
  <2>3. ASSUME NEW j \in Ids, req'[j].state = "MEM_NEW"
        PROVE  /\ req'[j].addr \in Lines
               /\ \/ \E k \in DOMAIN inflight'[req'[j].addr] :
                       inflight'[req'[j].addr][k] = j
                  \/ \E m \in DOMAIN resp' : resp'[m] = j
    <3>1. CASE j = i
      <4>1. req'[j].addr = line
        BY <3>1
      <4>2. Len(s) + 1 \in DOMAIN inflight'[line] /\ inflight'[line][Len(s) + 1] = j
        BY <1>3, <1>5, <3>1
      <4>3. QED
        BY <4>1, <4>2
    <3>2. CASE j # i
      <4>1. /\ req'[j] = req[j] /\ req[j].addr \in Lines
            /\ \/ \E k \in DOMAIN inflight[req[j].addr] :
                    inflight[req[j].addr][k] = j
               \/ \E m \in DOMAIN resp : resp[m] = j
        <5>1. req'[j] = req[j] /\ req[j].state = "MEM_NEW"
          BY <2>3, <3>2
        <5>2. ListsInv
          BY DEF DramInv
        <5>3. QED
          BY <5>1, <5>2 DEF ListsInv
      <4>2. CASE req[j].addr = line
        <5>1. CASE \E m \in DOMAIN resp : resp[m] = j
          BY <1>2, <4>1, <5>1
        <5>2. CASE \E k \in DOMAIN s : s[k] = j
          <6>1. PICK k \in DOMAIN s : s[k] = j
            BY <5>2
          <6>2. k \in DOMAIN inflight'[line] /\ inflight'[line][k] = j
            BY <1>3, <1>5, <6>1
          <6>3. QED
            BY <4>1, <4>2, <6>2
        <5>3. QED
          BY <4>1, <4>2, <5>1, <5>2 DEF s
      <4>3. CASE req[j].addr # line
        BY <1>2, <1>5, <4>1, <4>3
      <4>4. QED
        BY <4>2, <4>3
    <3>3. QED
      BY <3>1, <3>2
  <2>4. \A k \in DOMAIN resp' :
          /\ req'[resp'[k]].state = "MEM_NEW"
          /\ \A m \in DOMAIN resp' : resp'[k] = resp'[m] => k = m
    BY <1>2, <2>1
  <2>5. \A other \in Lines : \A k \in DOMAIN inflight'[other] :
          /\ req'[inflight'[other][k]].state = "MEM_NEW"
          /\ req'[inflight'[other][k]].addr = other
          /\ \A m \in DOMAIN inflight'[other] :
               inflight'[other][k] = inflight'[other][m] => k = m
          /\ \A m \in DOMAIN resp' : inflight'[other][k] # resp'[m]
    BY <1>2, <2>2
  <2>6. inflight' \in [Lines -> Seq(Ids)] /\ resp' \in Seq(Ids)
    BY <1>1, <1>2, <1>5
  <2>7. QED
    BY <2>3, <2>4, <2>5, <2>6 DEF ListsInv
<1>7. PlacesInv'
  <2>1. inflight'[line] # <<>>
    BY <1>3, <1>5
  <2>2. PlacesInv
    BY DEF DramInv
  <2>3. CASE inflight[line] # <<>>
    BY <1>5, <2>1, <2>2, <2>3 DEF PlacesInv, SendRead
  <2>4. CASE inflight[line] = <<>> /\ Contains(writeq, line)
    <3>1. pending' = pending \cup {line} /\ readq' = readq
      BY <2>4 DEF SendRead
    <3>2. QED
      BY <1>5, <2>1, <2>2, <2>4, <3>1 DEF PlacesInv
  <2>5. CASE inflight[line] = <<>> /\ ~ Contains(writeq, line)
    <3>1. readq' = readq \cup {line} /\ pending' = pending
      BY <2>5 DEF SendRead
    <3>2. QED
      BY <1>5, <2>1, <2>2, <2>5, <3>1 DEF PlacesInv
  <2>6. QED
    BY <2>3, <2>4, <2>5
<1>8. QED
  BY <1>6, <1>7 DEF DramInv, SendRead

\* ramulator_tick with mem_complete_bus_in_access: the oldest answer goes.
LEMMA DeliverKeeps ==
  ASSUME DramInv, Deliver,
         req'[Head(resp)].state # "MEM_NEW",
         \A j \in Ids \ {Head(resp)} : req'[j] = req[j]
  PROVE  DramInv'
<1>1. resp \in Seq(Ids) /\ inflight \in [Lines -> Seq(Ids)]
  BY DEF DramInv, ListsInv
<1>2. /\ Tail(resp) \in Seq(Ids) /\ Head(resp) \in Ids /\ 1 \in DOMAIN resp
      /\ Head(resp) = resp[1]
      /\ \A k \in DOMAIN Tail(resp) : /\ k + 1 \in DOMAIN resp /\ k + 1 # 1
                                      /\ Tail(resp)[k] = resp[k + 1]
  BY <1>1, TailElements DEF Deliver
<1>3. resp' = Tail(resp) /\ inflight' = inflight
  BY DEF Deliver
<1>4. /\ \A k \in DOMAIN Tail(resp) : Tail(resp)[k] # Head(resp)
      /\ \A line \in Lines : \A k \in DOMAIN inflight[line] :
           inflight[line][k] \in Ids \ {Head(resp)}
  BY <1>1, <1>2 DEF DramInv, ListsInv
<1>5. \A m \in DOMAIN resp : m # 1 =>
        m - 1 \in DOMAIN Tail(resp) /\ Tail(resp)[m - 1] = resp[m]
  BY <1>1 DEF Deliver
<1>6. ListsInv'
  <2>1. ASSUME NEW k \in DOMAIN Tail(resp)
        PROVE  /\ req'[Tail(resp)[k]].state = "MEM_NEW"
               /\ \A m \in DOMAIN Tail(resp) :
                    Tail(resp)[k] = Tail(resp)[m] => k = m
    <3>1. req'[Tail(resp)[k]].state = "MEM_NEW"
      BY <1>1, <1>2, <1>4 DEF DramInv, ListsInv
    <3>2. ASSUME NEW m \in DOMAIN Tail(resp), Tail(resp)[k] = Tail(resp)[m]
          PROVE  k = m
      <4>1. k + 1 = m + 1
        BY <1>2, <3>2 DEF DramInv, ListsInv
      <4>2. k \in Int /\ m \in Int
        BY <1>2
      <4>3. QED
        BY <4>1, <4>2
    <3>3. QED
      BY <3>1, <3>2
  <2>2. ASSUME NEW line \in Lines, NEW k \in DOMAIN inflight[line]
        PROVE  /\ req'[inflight[line][k]].state = "MEM_NEW"
               /\ req'[inflight[line][k]].addr = line
               /\ \A m \in DOMAIN inflight[line] :
                    inflight[line][k] = inflight[line][m] => k = m
               /\ \A m \in DOMAIN Tail(resp) :
                    inflight[line][k] # Tail(resp)[m]
    BY <1>2, <1>4 DEF DramInv, ListsInv
  <2>3. ASSUME NEW j \in Ids, req'[j].state = "MEM_NEW"
        PROVE  /\ req'[j].addr \in Lines
               /\ \/ \E k \in DOMAIN inflight[req'[j].addr] :
                       inflight[req'[j].addr][k] = j
                  \/ \E m \in DOMAIN Tail(resp) : Tail(resp)[m] = j
    <3>1. j # Head(resp) /\ req'[j] = req[j]
      BY <2>3
    <3>2. /\ req[j].addr \in Lines
          /\ \/ \E k \in DOMAIN inflight[req[j].addr] :
                  inflight[req[j].addr][k] = j
             \/ \E m \in DOMAIN resp : resp[m] = j
      BY <2>3, <3>1 DEF DramInv, ListsInv
    <3>3. CASE \E m \in DOMAIN resp : resp[m] = j
      <4>1. PICK m \in DOMAIN resp : resp[m] = j
        BY <3>3
      <4>2. m # 1
        BY <1>2, <3>1, <4>1
      <4>3. QED
        BY <1>5, <3>1, <3>2, <4>1, <4>2
    <3>4. QED
      BY <3>1, <3>2, <3>3
  <2>4. QED
    BY <1>1, <1>2, <1>3, <2>1, <2>2, <2>3 DEF ListsInv
<1>7. PlacesInv'
  BY DEF DramInv, PlacesInv, Deliver
<1>8. QED
  BY <1>6, <1>7 DEF DramInv, Deliver
=============================================================================

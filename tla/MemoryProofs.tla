---------------------------- MODULE MemoryProofs ----------------------------
(***************************************************************************)
(* The memory hierarchy with a core above it: no op is forgotten, none is  *)
(* woken for nothing, no store is lost, Scarab and Ramulator agree, and    *)
(* the prefetcher is told the truth, for any number of ops, lines, buffers *)
(* and ways, and any size of the queues.                                   *)
(***************************************************************************)
EXTENDS RamulatorProofs

RequestsInv ==
  /\ req \in [Ids -> Request]
  /\ \A i \in Ids : RequestOK(req[i])

L1Inv ==
  /\ l1 \in [L1Ways -> L1Data]
  /\ \A w \in L1Ways : DataOK(l1[w])

DcacheInv ==
  /\ dcache \in [DcacheWays -> Line]
  /\ \A w \in DcacheWays : dcache[w].valid => dcache[w].line \in Lines

CoreInv ==
  /\ op \in [Ops -> Op \cup {NoOp}]
  /\ \/ ic = Fetching
     \/ ic \in [state : {"IC_WAIT_FOR_MISS"}, line_addr : Fetches]

\* What the memory needs for itself, and what it needs with its core.
MemInv == RequestsInv /\ L1Inv /\ DramInv

\* The L1 has the only copy of a store to the line.
InL1(line) == \E w \in L1Ways : l1[w].valid /\ l1[w].line = line /\ l1[w].dirty

\* Dirty lines and writebacks survive a step of the memory.
L1Keeps ==
  \A line \in Lines :
    InL1(line) => InL1(line)' \/ writeq' = Append(writeq, line)

WritebackOf(i, line) ==
  req[i].type = "WB" /\ req[i].state # "INV" /\ req[i].addr = line

WritebacksKept ==
  \A line \in Lines : \A i \in Ids :
    WritebackOf(i, line) => WritebackOf(i, line)' \/ InL1(line)'

MemKeeps ==
  /\ MemInv'
  /\ \A i \in Ids : Advances(req[i], req'[i])
  /\ L1Keeps /\ WritebacksKept

-----------------------------------------------------------------------------

LEMMA RequestChange ==
  ASSUME RequestsInv, NEW i \in Ids, NEW s, RequestOK(s),
         req' = [req EXCEPT ![i] = s]
  PROVE  /\ RequestsInv'
         /\ req'[i] = s
         /\ \A j \in Ids \ {i} : req'[j] = req[j]
BY DEF RequestsInv, RequestOK

\* A step that moves one request and leaves the L1 alone.
LEMMA OneAdvances ==
  ASSUME MemInv, NEW i \in Ids, NEW s, RequestOK(s), Advances(req[i], s),
         req' = [req EXCEPT ![i] = s], UNCHANGED l1, DramInv',
         s.type = "WB" \/ req[i].type # "WB" \/ req[i].state = "INV"
  PROVE  MemKeeps
<1>1. RequestsInv' /\ req'[i] = s /\ \A j \in Ids \ {i} : req'[j] = req[j]
  BY RequestChange DEF MemInv
<1>2. L1Inv'
  BY DEF MemInv, L1Inv
<1>3. \A j \in Ids : Advances(req[j], req'[j])
  BY <1>1 DEF Advances
<1>4. L1Keeps
  BY DEF L1Keeps, InL1
<1>5. WritebacksKept
  <2> SUFFICES ASSUME NEW line \in Lines, NEW j \in Ids,
                      WritebackOf(j, line)
               PROVE  WritebackOf(j, line)'
    BY DEF WritebacksKept
  <2>1. CASE j # i
    BY <1>1, <2>1 DEF WritebackOf
  <2>2. CASE j = i
    BY <1>1, <2>2 DEF Advances, FreeBuffer, WritebackOf
  <2>3. QED
    BY <2>1, <2>2
<1>6. QED
  BY <1>1, <1>2, <1>3, <1>4, <1>5 DEF MemKeeps, MemInv

\* mem_free_reqbuf of a request that nobody waits for.
LEMMA FreeAdvances ==
  ASSUME NEW r, RequestOK(r), r.done_func = "NULL"
  PROVE  Advances(r, FreeBuffer)
BY DEF Advances, RequestOK

\* l1_fill_line keeps the L1 in order and lets no dirty line go unwritten.
LEMMA FillLineKeeps ==
  ASSUME MemInv, NEW i \in Ids, NEW way \in L1Ways, FillLine(i, way),
         req[i].state # "INV",
         \A j \in Ids :
           req[j].state = "MEM_NEW" \/ req'[j].state = "MEM_NEW" =>
             req'[j].state = req[j].state /\ req'[j].addr = req[j].addr
  PROVE  /\ L1Inv' /\ DramInv' /\ L1Keeps
         /\ l1'[way] = Filled(req[i])
<1>1. /\ l1 \in [L1Ways -> L1Data] /\ \A w \in L1Ways : DataOK(l1[w])
      /\ RequestOK(req[i])
  BY DEF MemInv, L1Inv, RequestsInv
<1>2. DataOK(Filled(req[i]))
  BY <1>1, FilledOK
<1>3. l1' = [l1 EXCEPT ![way] = Filled(req[i])]
  BY DEF FillLine, Insert
<1>4. /\ l1'[way] = Filled(req[i])
      /\ \A w \in L1Ways \ {way} : l1'[w] = l1[w]
  BY <1>1, <1>3
<1>5. L1Inv'
  BY <1>1, <1>2, <1>3, <1>4 DEF L1Inv, DataOK
<1>6. CASE l1[way].valid /\ l1[way].dirty
  <2>1. l1[way].line \in Lines /\ SendWrite(l1[way].line)
    BY <1>1, <1>6 DEF FillLine, DataOK
  <2>2. DramInv'
    BY <2>1, SendWriteKeeps DEF MemInv
  <2>3. writeq' = Append(writeq, l1[way].line)
    BY <2>1 DEF SendWrite
  <2>4. L1Keeps
    BY <1>4, <2>3 DEF L1Keeps, InL1
  <2>5. QED
    BY <1>4, <1>5, <2>2, <2>4
<1>7. CASE ~ (l1[way].valid /\ l1[way].dirty)
  <2>1. DramInv'
    BY <1>7, DramKept DEF FillLine, MemInv
  <2>2. L1Keeps
    BY <1>4, <1>7 DEF L1Keeps, InL1
  <2>3. QED
    BY <1>4, <1>5, <2>1, <2>2
<1>8. QED
  BY <1>6, <1>7

LEMMA StartL1Keeps ==
  ASSUME MemInv, NEW i \in Ids, StartL1(i)
  PROVE  MemKeeps
<1> DEFINE r == req[i]
           s == Shifted(r, "L1_WAIT", "L1", r.sent)
<1>1. RequestOK(r) /\ r \in Request /\ r.state = "L1_NEW"
  BY DEF MemInv, RequestsInv, RequestOK, StartL1
<1>2. RequestOK(s) /\ Advances(r, s) /\ s.state = "L1_WAIT"
  <2>1. "L1_WAIT" \in States \ {"INV"} /\ "L1" \in QueuesOf("L1_WAIT")
    BY DEF States, QueuesOf
  <2>2. r.sent \in 0 .. CountMax /\ r.state \notin Final
    BY <1>1 DEF Request, Final
  <2> HIDE DEF r
  <2>3. QED
    BY <1>1, <2>1, <2>2, MovedOK
<1>3. req' = [req EXCEPT ![i] = s]
  BY <1>1, MovedIsMoved DEF StartL1, Moved
<1>4. s.type = r.type
  BY <1>1 DEF Request, Shifted
<1> HIDE DEF s
<1>5. DramInv'
  <2>1. \A j \in Ids \ {i} : req'[j] = req[j]
    BY <1>2, <1>3, RequestChange DEF MemInv
  <2>2. req'[i] = s
    BY <1>2, <1>3, RequestChange DEF MemInv
  <2>3. QED
    BY <1>1, <1>2, <2>1, <2>2, DramKept DEF MemInv, StartL1
<1>6. QED
  BY <1>2, <1>3, <1>4, <1>5, OneAdvances DEF StartL1

LEMMA L1MissSentKeeps ==
  ASSUME MemInv, NEW i \in Ids, L1MissSent(i)
  PROVE  MemKeeps
<1> DEFINE r == req[i]
           s == Shifted(r, "MEM_NEW", "RAM", Reported(r))
<1>1. /\ RequestOK(r) /\ r \in Request
      /\ r.state = "L1_WAIT" /\ r.type # "WB" /\ r.addr \in Lines
  BY DEF MemInv, RequestsInv, RequestOK, L1MissSent
<1>2. RequestOK(s) /\ Advances(r, s) /\ s.state = "MEM_NEW"
  <2>1. "MEM_NEW" \in States \ {"INV"} /\ "RAM" \in QueuesOf("MEM_NEW")
    BY DEF States, QueuesOf
  <2>2. r.sent \in 0 .. CountMax /\ r.state \notin Final
    BY <1>1 DEF Request, Final
  <2>3. Reported(r) \in 0 .. CountMax /\ (r.prefetcher => Reported(r) > 0)
    BY <1>1, <2>2, UpBounds DEF Reported, IsPrefetch, RequestOK
  <2> HIDE DEF r
  <2>4. QED
    BY <1>1, <2>1, <2>2, <2>3, MovedOK
<1>3. req' = [req EXCEPT ![i] = s]
  BY DEF L1MissSent, Shifted
<1>4. s.type = r.type /\ s.addr = r.addr
  BY <1>1 DEF Request, Shifted
<1> HIDE DEF s
<1>5. DramInv'
  <2>1. req'[i] = s /\ \A j \in Ids \ {i} : req'[j] = req[j]
    BY <1>2, <1>3, RequestChange DEF MemInv
  <2>2. SendRead(r.addr, i)
    BY DEF L1MissSent
  <2>3. QED
    BY <1>1, <1>2, <1>4, <2>1, <2>2, SendReadKeeps DEF MemInv
<1>6. QED
  BY <1>1, <1>2, <1>3, <1>4, <1>5, OneAdvances DEF L1MissSent

LEMMA L1MissRejectedKeeps ==
  ASSUME MemInv, NEW i \in Ids, L1MissRejected(i)
  PROVE  MemKeeps
<1> DEFINE r == req[i]
           s == [r EXCEPT !.sent = Reported(r)]
           u == Shifted(r, "L1_WAIT", "L1", Reported(r))
<1>1. /\ RequestOK(r) /\ r \in Request
      /\ r.state = "L1_WAIT" /\ r.type # "WB"
  BY DEF MemInv, RequestsInv, RequestOK, L1MissRejected
<1>2. s = u
  <2>1. r.queue = "L1"
    BY <1>1 DEF RequestOK, QueuesOf
  <2>2. QED
    BY <1>1, <2>1 DEF Request, Shifted
<1>3. RequestOK(u) /\ Advances(r, u) /\ u.state = "L1_WAIT"
  <2>1. "L1_WAIT" \in States \ {"INV"} /\ "L1" \in QueuesOf("L1_WAIT")
    BY DEF States, QueuesOf
  <2>2. r.sent \in 0 .. CountMax /\ r.state \notin Final
    BY <1>1 DEF Request, Final
  <2>3. Reported(r) \in 0 .. CountMax
    BY <2>2, UpBounds DEF Reported
  <2> HIDE DEF r
  <2>4. QED
    BY <1>1, <2>1, <2>2, <2>3, MovedOK
<1>4. req' = [req EXCEPT ![i] = s]
  BY DEF L1MissRejected
<1> HIDE DEF s, u
<1>5. DramInv'
  <2>1. req'[i] = s /\ \A j \in Ids \ {i} : req'[j] = req[j]
    BY <1>2, <1>3, <1>4, RequestChange DEF MemInv
  <2>2. QED
    BY <1>1, <1>2, <1>3, <2>1, DramKept DEF MemInv, L1MissRejected
<1>6. QED
  BY <1>1, <1>2, <1>3, <1>4, <1>5, OneAdvances DEF L1MissRejected

LEMMA CompleteBusInKeeps ==
  ASSUME MemInv, CompleteBusIn
  PROVE  MemKeeps
<1> DEFINE i == Head(resp)
           r == req[i]
           s == Shifted(r, "FILL_L1", "L1FILL", r.sent)
<1>1. i \in Ids /\ r.state = "MEM_NEW"
  <2>1. resp \in Seq(Ids) /\ resp # <<>>
    BY DEF MemInv, DramInv, ListsInv, CompleteBusIn, Deliver
  <2>2. i \in Ids /\ 1 \in DOMAIN resp /\ i = resp[1]
    BY <2>1, TailElements
  <2> HIDE DEF i
  <2>3. QED
    BY <2>2 DEF MemInv, DramInv, ListsInv
<1> HIDE DEF i
<1>2. RequestOK(r) /\ r \in Request /\ r.type # "WB"
  BY <1>1 DEF MemInv, RequestsInv, RequestOK
<1>3. RequestOK(s) /\ Advances(r, s) /\ s.state = "FILL_L1"
  <2>1. "FILL_L1" \in States \ {"INV"} /\ "L1FILL" \in QueuesOf("FILL_L1")
    BY DEF States, QueuesOf
  <2>2. /\ r.sent \in 0 .. CountMax /\ r.state \notin Final
        /\ r.prefetcher => r.sent > 0
    BY <1>1, <1>2 DEF Request, Final, RequestOK
  <2> HIDE DEF r
  <2>3. QED
    BY <1>1, <1>2, <2>1, <2>2, MovedOK
<1>4. req' = [req EXCEPT ![i] = s]
  BY <1>2, MovedIsMoved DEF CompleteBusIn, Moved, i
<1> HIDE DEF s
<1>5. DramInv'
  <2>1. req'[i] = s /\ \A j \in Ids \ {i} : req'[j] = req[j]
    BY <1>1, <1>3, <1>4, RequestChange DEF MemInv
  <2>2. QED
    BY <1>3, <2>1, DeliverKeeps DEF MemInv, CompleteBusIn, i
<1>6. QED
  BY <1>1, <1>2, <1>3, <1>4, <1>5, OneAdvances DEF CompleteBusIn

LEMMA LeaveL1FillKeeps ==
  ASSUME MemInv, NEW i \in Ids, LeaveL1Fill(i)
  PROVE  MemKeeps
<1> DEFINE r == req[i]
<1>1. /\ RequestOK(r) /\ r \in Request /\ r.state = "FILL_DONE"
      /\ r.type # "WB"
  BY DEF MemInv, RequestsInv, RequestOK, LeaveL1Fill
<1>2. PICK s : /\ RequestOK(s) /\ Advances(r, s) /\ s.state # "MEM_NEW"
               /\ req' = [req EXCEPT ![i] = s]
  <2>1. CASE r.done_func = "NULL"
    <3>1. req' = [req EXCEPT ![i] = FreeBuffer]
      BY <2>1 DEF LeaveL1Fill, Freed
    <3>2. FreeBuffer.state # "MEM_NEW"
      BY DEF FreeBuffer
    <3>3. QED
      BY <1>1, <2>1, <3>1, <3>2, FreeBufferOK, FreeAdvances
  <2>2. CASE r.done_func # "NULL"
    <3> DEFINE s == Shifted(r, "FILL_DONE", "CORE_FILL", r.sent)
    <3>1. req' = [req EXCEPT ![i] = s]
      BY <1>1, <2>2, MovedIsMoved DEF LeaveL1Fill, Moved
    <3>2. /\ "FILL_DONE" \in States \ {"INV"} /\ "FILL_DONE" \in Final
          /\ "CORE_FILL" \in QueuesOf("FILL_DONE")
      BY DEF States, QueuesOf, Final
    <3>3. r.sent \in 0 .. CountMax /\ (r.prefetcher => r.sent > 0)
      BY <1>1 DEF Request, RequestOK
    <3>4. RequestOK(s) /\ Advances(r, s) /\ s.state = "FILL_DONE"
      <4> HIDE DEF r
      <4> QED  BY <1>1, <2>2, <3>2, <3>3, MovedOK
    <3> HIDE DEF s
    <3>5. QED
      BY <3>1, <3>4
  <2>3. QED
    BY <2>1, <2>2
<1>3. DramInv'
  <2>1. req'[i] = s /\ \A j \in Ids \ {i} : req'[j] = req[j]
    BY <1>2, RequestChange DEF MemInv
  <2>2. QED
    BY <1>1, <1>2, <2>1, DramKept DEF MemInv, LeaveL1Fill
<1>4. QED
  BY <1>1, <1>2, <1>3, OneAdvances DEF LeaveL1Fill

\* A request that hits: the line is marked, the request goes to the core or
\* is done; a writeback has left its data in the line.
LEMMA L1HitKeeps ==
  ASSUME MemInv, NEW i \in Ids, L1Hit(i)
  PROVE  MemKeeps
<1> DEFINE r == req[i]
           way == HitWay(l1, r.addr)
<1>1. RequestOK(r) /\ r \in Request /\ r.state = "L1_WAIT"
  BY DEF MemInv, RequestsInv, RequestOK, L1Hit
<1>2. l1 \in [L1Ways -> L1Data] /\ \A w \in L1Ways : DataOK(l1[w])
  BY DEF MemInv, L1Inv
<1>3. way \in L1Ways /\ l1[way].valid /\ l1[way].line = r.addr
  <2>1. DOMAIN l1 = L1Ways /\ DOMAIN l1 \subseteq Nat /\ Hit(l1, r.addr)
    BY <1>2, MemoryAssumption DEF L1Hit
  <2> HIDE DEF r
  <2>2. QED
    BY <2>1, HitWayHolds
<1>4. l1' = [l1 EXCEPT ![way] = Accessed(r.type, l1[way])]
  BY DEF L1Hit
<1>5. PICK s : /\ RequestOK(s) /\ Advances(r, s) /\ s.state # "MEM_NEW"
               /\ req' = [req EXCEPT ![i] = s]
  <2>1. CASE r.done_func = "NULL"
    <3>1. req' = [req EXCEPT ![i] = FreeBuffer]
      BY <2>1 DEF L1Hit, Freed
    <3>2. FreeBuffer.state # "MEM_NEW"
      BY DEF FreeBuffer
    <3>3. QED
      BY <1>1, <2>1, <3>1, <3>2, FreeBufferOK, FreeAdvances
  <2>2. CASE r.done_func # "NULL"
    <3> DEFINE s == Shifted(r, "L1_HIT_DONE", "CORE_FILL", r.sent)
    <3>1. req' = [req EXCEPT ![i] = s]
      BY <1>1, <2>2, MovedIsMoved DEF L1Hit, Moved
    <3>2. /\ "L1_HIT_DONE" \in States \ {"INV"} /\ "L1_HIT_DONE" \in Final
          /\ "CORE_FILL" \in QueuesOf("L1_HIT_DONE")
      BY DEF States, QueuesOf, Final
    <3>3. r.sent \in 0 .. CountMax /\ r.type # "WB"
      BY <1>1, <2>2 DEF Request, RequestOK
    <3>4. RequestOK(s) /\ Advances(r, s) /\ s.state = "L1_HIT_DONE"
      <4> HIDE DEF r
      <4> QED  BY <1>1, <2>2, <3>2, <3>3, MovedOK
    <3> HIDE DEF s
    <3>5. QED
      BY <3>1, <3>4
  <2>3. QED
    BY <2>1, <2>2
<1>6. /\ RequestsInv' /\ req'[i] = s
      /\ \A j \in Ids \ {i} : req'[j] = req[j]
  BY <1>5, RequestChange DEF MemInv
<1>7. DramInv'
  BY <1>1, <1>5, <1>6, DramKept DEF MemInv, L1Hit
<1> DEFINE e == Accessed(r.type, l1[way])
<1>8. /\ DataOK(e) /\ e.valid = l1[way].valid /\ e.line = l1[way].line
      /\ l1[way].dirty \/ r.type = "WB" => e.dirty
  BY <1>2, <1>3, AccessedOK
<1> HIDE DEF e
<1>9. /\ l1'[way] = e
      /\ \A w \in L1Ways \ {way} : l1'[w] = l1[w]
      /\ l1' \in [L1Ways -> L1Data]
  <2> HIDE DEF way
  <2> QED  BY <1>2, <1>3, <1>4, <1>8 DEF e, DataOK
<1> HIDE DEF way
<1>10. L1Inv'
  BY <1>2, <1>8, <1>9 DEF L1Inv
<1>11. L1Keeps
  BY <1>3, <1>8, <1>9 DEF L1Keeps, InL1
<1>12. WritebacksKept
  <2> SUFFICES ASSUME NEW line \in Lines, NEW j \in Ids,
                      WritebackOf(j, line)
               PROVE  WritebackOf(j, line)' \/ InL1(line)'
    BY DEF WritebacksKept
  <2>1. CASE j # i
    BY <1>6, <2>1 DEF WritebackOf
  <2>2. CASE j = i
    <3>1. l1'[way].valid /\ l1'[way].line = r.addr /\ l1'[way].dirty
      BY <1>3, <1>8, <1>9, <2>2 DEF WritebackOf
    <3>2. InL1(line)'
      BY <1>3, <3>1, <2>2 DEF InL1, WritebackOf
    <3>3. QED
      BY <3>2
  <2>3. QED
    BY <2>1, <2>2
<1>13. \A j \in Ids : Advances(req[j], req'[j])
  BY <1>5, <1>6 DEF Advances
<1>14. QED
  BY <1>6, <1>7, <1>10, <1>11, <1>12, <1>13 DEF MemKeeps, MemInv

\* A writeback that misses is written into a line of its own.
LEMMA L1MissWBKeeps ==
  ASSUME MemInv, NEW i \in Ids, L1MissWB(i)
  PROVE  MemKeeps
<1> DEFINE r == req[i]
<1>1. /\ RequestOK(r) /\ r \in Request /\ r.state = "L1_WAIT"
      /\ r.type = "WB" /\ r.done_func = "NULL"
  BY DEF MemInv, RequestsInv, RequestOK, L1MissWB
<1>2. /\ RequestsInv' /\ req'[i] = FreeBuffer
      /\ \A j \in Ids \ {i} : req'[j] = req[j]
  <2>1. req' = [req EXCEPT ![i] = FreeBuffer]
    BY DEF L1MissWB, Freed
  <2>2. QED
    BY <2>1, FreeBufferOK, RequestChange DEF MemInv
<1>3. PICK way \in L1Ways : FillLine(i, way)
  BY DEF L1MissWB
<1>4. /\ L1Inv' /\ DramInv' /\ L1Keeps
      /\ l1'[way] = Filled(r)
  <2>1. FreeBuffer.state # "MEM_NEW"
    BY DEF FreeBuffer
  <2>2. QED
    BY <1>1, <1>2, <1>3, <2>1, FillLineKeeps
<1>5. /\ Filled(r).valid /\ Filled(r).line = r.addr /\ Filled(r).dirty
  BY <1>1 DEF Filled
<1>6. WritebacksKept
  <2> SUFFICES ASSUME NEW line \in Lines, NEW j \in Ids,
                      WritebackOf(j, line)
               PROVE  WritebackOf(j, line)' \/ InL1(line)'
    BY DEF WritebacksKept
  <2>1. CASE j # i
    BY <1>2, <2>1 DEF WritebackOf
  <2>2. CASE j = i
    BY <1>4, <1>5, <2>2 DEF InL1, WritebackOf
  <2>3. QED
    BY <2>1, <2>2
<1>7. \A j \in Ids : Advances(req[j], req'[j])
  BY <1>1, <1>2, FreeAdvances DEF Advances
<1>8. QED
  BY <1>2, <1>4, <1>6, <1>7 DEF MemKeeps, MemInv

LEMMA FillL1Keeps ==
  ASSUME MemInv, NEW i \in Ids, FillL1(i)
  PROVE  MemKeeps
<1> DEFINE r == req[i]
           s == Shifted(r, "FILL_DONE", "L1FILL", r.sent)
<1>1. /\ RequestOK(r) /\ r \in Request /\ r.state = "FILL_L1"
      /\ r.type # "WB"
  BY DEF MemInv, RequestsInv, RequestOK, FillL1
<1>2. RequestOK(s) /\ Advances(r, s) /\ s.state = "FILL_DONE"
  <2>1. /\ "FILL_DONE" \in States \ {"INV"} /\ "FILL_DONE" \in Final
        /\ "L1FILL" \in QueuesOf("FILL_DONE")
    BY DEF States, QueuesOf, Final
  <2>2. r.sent \in 0 .. CountMax /\ (r.prefetcher => r.sent > 0)
    BY <1>1 DEF Request, RequestOK
  <2> HIDE DEF r
  <2>3. QED
    BY <1>1, <2>1, <2>2, MovedOK
<1>3. req' = [req EXCEPT ![i] = s]
  BY <1>1, MovedIsMoved DEF FillL1, Moved
<1> HIDE DEF s
<1>4. /\ RequestsInv' /\ req'[i] = s
      /\ \A j \in Ids \ {i} : req'[j] = req[j]
  BY <1>2, <1>3, RequestChange DEF MemInv
<1>5. PICK way \in L1Ways : FillLine(i, way)
  BY DEF FillL1
<1>6. L1Inv' /\ DramInv' /\ L1Keeps
  BY <1>1, <1>2, <1>4, <1>5, FillLineKeeps
<1>7. WritebacksKept
  BY <1>1, <1>4 DEF WritebacksKept, WritebackOf
<1>8. \A j \in Ids : Advances(req[j], req'[j])
  BY <1>2, <1>4 DEF Advances
<1>9. QED
  BY <1>4, <1>6, <1>7, <1>8 DEF MemKeeps, MemInv

LEMMA DramStepKeeps ==
  ASSUME MemInv, DramStep, UNCHANGED <<req, l1>>
  PROVE  MemKeeps
<1>1. DramInv'
  <2>1. CASE SwitchMode
    BY <2>1, SwitchModeKeeps DEF MemInv
  <2>2. CASE \E line \in Lines : ServeRead(line)
    BY <2>2, ServeReadKeeps DEF MemInv
  <2>3. CASE \E line \in Lines : Complete(line)
    BY <2>3, CompleteKeeps DEF MemInv
  <2>4. CASE \E i \in DOMAIN writeq : ServeWrite(i)
    BY <2>4, ServeWriteKeeps DEF MemInv
  <2>5. QED
    BY <2>1, <2>2, <2>3, <2>4 DEF DramStep
<1>2. RequestsInv' /\ L1Inv'
  BY DEF MemInv, RequestsInv, L1Inv
<1>3. \A j \in Ids : Advances(req[j], req'[j])
  BY DEF Advances
<1>4. L1Keeps
  BY DEF L1Keeps, InL1
<1>5. WritebacksKept
  BY DEF WritebacksKept, WritebackOf
<1>6. QED
  BY <1>1, <1>2, <1>3, <1>4, <1>5 DEF MemKeeps, MemInv

LEMMA MemStepKeeps ==
  ASSUME MemInv, MemStep
  PROVE  MemKeeps
<1>1. CASE \E i \in Ids : \/ StartL1(i) \/ L1Hit(i) \/ L1MissWB(i)
                          \/ L1MissSent(i) \/ L1MissRejected(i)
                          \/ FillL1(i) \/ LeaveL1Fill(i)
  BY <1>1, StartL1Keeps, L1HitKeeps, L1MissWBKeeps, L1MissSentKeeps,
     L1MissRejectedKeeps, FillL1Keeps, LeaveL1FillKeeps
<1>2. CASE CompleteBusIn
  BY <1>2, CompleteBusInKeeps
<1>3. CASE DramStep /\ UNCHANGED <<req, l1>>
  BY <1>3, DramStepKeeps
<1>4. QED
  BY <1>1, <1>2, <1>3 DEF MemStep

-----------------------------------------------------------------------------
(***************************************************************************)
(* new_mem_req, by whoever calls it                                        *)
(***************************************************************************)

\* The request that is found is for the line, and for the same class.
LEMMA MatchingFacts ==
  ASSUME MemInv, NEW type \in Demands \cup {"DPRF"}, NEW line \in Lines,
         NEW i \in Matching(line, type)
  PROVE  /\ i \in Ids /\ req[i].state \notin Final \cup {"INV"}
         /\ req[i].addr = line /\ req[i].type # "WB"
         /\ (req[i].type = "IFETCH") = (type = "IFETCH")
<1>1. ASSUME NEW queue \in {"L1FILL", "L1"},
             i \in SearchQueue(queue, line, type)
      PROVE  /\ i \in Ids /\ req[i].state \notin Final \cup {"INV"}
             /\ req[i].addr = line /\ req[i].type # "WB"
             /\ (req[i].type = "IFETCH") = (type = "IFETCH")
  <2>1. /\ i \in Ids /\ req[i].queue = queue /\ req[i].addr = line
        /\ req[i].state \notin Final /\ Joins(type, req[i].type)
    BY <1>1 DEF SearchQueue, In
  <2>2. req[i].state # "INV"
    <3>1. req[i].queue \in QueuesOf(req[i].state)
      BY <2>1 DEF MemInv, RequestsInv, RequestOK
    <3>2. QED
      BY <2>1, <3>1 DEF QueuesOf
  <2>3. /\ req[i].type # "WB"
        /\ (req[i].type = "IFETCH") = (type = "IFETCH")
    BY <2>1 DEF Joins, Demands
  <2>4. QED
    BY <2>1, <2>2, <2>3
<1>2. ASSUME i \in SearchRamulator(line, type)
      PROVE  /\ i \in Ids /\ req[i].state \notin Final \cup {"INV"}
             /\ req[i].addr = line /\ req[i].type # "WB"
             /\ (req[i].type = "IFETCH") = (type = "IFETCH")
  <2>1. /\ (req[i].type = "IFETCH") = (type = "IFETCH")
        /\ i \in Range(inflight[line])
             \cup {j \in Range(resp) : req[j].addr = line}
    BY <1>2 DEF SearchRamulator
  <2>2. i \in Ids /\ req[i].state = "MEM_NEW" /\ req[i].addr = line
    <3>1. CASE i \in Range(inflight[line])
      BY <3>1 DEF Range, MemInv, DramInv, ListsInv
    <3>2. CASE i \in Range(resp) /\ req[i].addr = line
      BY <3>2 DEF Range, MemInv, DramInv, ListsInv
    <3>3. QED
      BY <2>1, <3>1, <3>2
  <2>3. req[i].type # "WB"
    BY <2>2 DEF MemInv, RequestsInv, RequestOK
  <2>4. QED
    BY <2>1, <2>2, <2>3 DEF Final
<1>3. QED
  BY <1>1, <1>2 DEF Matching

\* A request on its way that could be joined is found.
LEMMA MatchingFinds ==
  ASSUME MemInv, NEW type \in Demands \cup {"DPRF"}, NEW line \in Lines,
         NEW i \in Ids, req[i].state \notin Final \cup {"INV"},
         req[i].addr = line, req[i].type # "WB",
         (req[i].type = "IFETCH") = (type = "IFETCH")
  PROVE  Matching(line, type) # {}
<1>1. RequestOK(req[i]) /\ req[i] \in Request
  BY DEF MemInv, RequestsInv, RequestOK
<1>2. Joins(type, req[i].type)
  BY <1>1 DEF Request, Types, Demands, Joins
<1>3. req[i].state \in {"L1_NEW", "L1_WAIT", "MEM_NEW", "FILL_L1"}
  BY <1>1 DEF Request, States, Final
<1>4. CASE req[i].state \in {"L1_NEW", "L1_WAIT"}
  <2>1. req[i].queue = "L1"
    BY <1>1, <1>4 DEF RequestOK, QueuesOf
  <2>2. i \in SearchQueue("L1", line, type)
    BY <1>2, <2>1 DEF SearchQueue, In
  <2>3. QED
    BY <2>2 DEF Matching
<1>5. CASE req[i].state = "FILL_L1"
  <2>1. req[i].queue = "L1FILL"
    BY <1>1, <1>5 DEF RequestOK, QueuesOf
  <2>2. i \in SearchQueue("L1FILL", line, type)
    BY <1>2, <2>1 DEF SearchQueue, In
  <2>3. QED
    BY <2>2 DEF Matching
<1>6. CASE req[i].state = "MEM_NEW"
  <2>1. i \in Range(inflight[line]) \/ i \in Range(resp)
    BY <1>6 DEF MemInv, DramInv, ListsInv, Range
  <2>2. i \in SearchRamulator(line, type)
    BY <2>1 DEF SearchRamulator
  <2>3. QED
    BY <2>2 DEF Matching
<1>7. QED
  BY <1>3, <1>4, <1>5, <1>6

\* What a caller can rely on once new_mem_req has answered TRUE: request i
\* was there before and has been joined, or is new.
Takes(i, type, line, ops, store) ==
  /\ \A j \in Ids \ {i} : req'[j] = req[j]
  /\ req'[i].state \notin Final \cup {"INV"}
  /\ req'[i].addr = line /\ req'[i].type # "WB"
  /\ (req'[i].type = "IFETCH") = (type = "IFETCH")
  /\ store => req'[i].dirty_l0
  /\ \/ /\ req[i].state = req'[i].state
        /\ req[i].addr = line /\ req[i].type # "WB"
        /\ (req[i].type = "IFETCH") = (type = "IFETCH")
        /\ req'[i].ops = req[i].ops \cup ops
        /\ req[i].dirty_l0 => req'[i].dirty_l0
     \/ /\ req[i].state = "INV" /\ req'[i].state = "L1_NEW"
        /\ Matching(line, type) = {}
        /\ req'[i].ops = ops

LEMMA NewMemReqTakes ==
  ASSUME MemInv, NEW type, NEW line, NEW ops, NEW store, NEW done,
         NEW prefetcher, Asked(type, line, ops, store, done, prefetcher),
         NewMemReq(type, line, ops, store, done, prefetcher)
  PROVE  MemInv' /\ \E i \in Ids : Takes(i, type, line, ops, store)
<1>1. PICK i \in Ids :
        RequestsInv' /\ Takes(i, type, line, ops, store)
  <2>1. CASE Matching(line, type) # {}
    <3>1. PICK i \in Matching(line, type) :
            req' = [req EXCEPT ![i] =
                     Adjusted(req[i], type, ops, store, done)]
      BY <2>1 DEF NewMemReq
    <3>2. /\ i \in Ids /\ req[i].state \notin Final \cup {"INV"}
          /\ req[i].addr = line /\ req[i].type # "WB"
          /\ (req[i].type = "IFETCH") = (type = "IFETCH")
      BY MatchingFacts DEF Asked
    <3> DEFINE r == req[i]
               s == Adjusted(req[i], type, ops, store, done)
    <3>3. RequestOK(r)
      BY <3>2 DEF MemInv, RequestsInv
    <3>4. /\ RequestOK(s)
          /\ s.state = r.state /\ s.queue = r.queue /\ s.addr = r.addr
          /\ s.ops = r.ops \cup ops
          /\ s.dirty_l0 = (r.dirty_l0 \/ store)
          /\ (s.type = "IFETCH") = (r.type = "IFETCH") /\ s.type # "WB"
      BY <3>2, <3>3, AdjustedOK
    <3> HIDE DEF s
    <3>5. /\ RequestsInv' /\ req'[i] = s
          /\ \A j \in Ids \ {i} : req'[j] = req[j]
      BY <3>1, <3>2, <3>4, RequestChange DEF MemInv, s
    <3>6. Takes(i, type, line, ops, store)
      BY <3>2, <3>4, <3>5 DEF Takes
    <3>7. QED
      BY <3>2, <3>5, <3>6
  <2>2. CASE Matching(line, type) = {}
    <3> DEFINE i == NewId
               s == NewRequest(type, line, ops, store, done, prefetcher)
    <3>1. req' = [req EXCEPT ![i] = s]
      BY <2>2 DEF NewMemReq
    <3>2. i \in Ids /\ req[i].state = "INV"
      <4>1. Used < Entries
        BY <2>2 DEF NewMemReq, Accepts, CanAllocate
      <4>2. QED
        BY <4>1, NewIdFree DEF Live
    <3>3. RequestOK(s)
      BY NewRequestOK
    <3>4. /\ s.state = "L1_NEW" /\ s.addr = line /\ s.type = type
          /\ s.ops = ops /\ s.dirty_l0 = store
      BY DEF NewRequest
    <3> HIDE DEF s, i
    <3>5. /\ RequestsInv' /\ req'[i] = s
          /\ \A j \in Ids \ {i} : req'[j] = req[j]
      BY <3>1, <3>2, <3>3, RequestChange DEF MemInv
    <3>6. Takes(i, type, line, ops, store)
      <4>1. "L1_NEW" \notin Final \cup {"INV"} /\ type # "WB"
        BY DEF Final, Asked, Demands
      <4>2. QED
        BY <2>2, <3>2, <3>4, <3>5, <4>1 DEF Takes
    <3>7. QED
      BY <3>2, <3>5, <3>6
  <2>3. QED
    BY <2>1, <2>2
<1>2. L1Inv'
  BY DEF MemInv, L1Inv, NewMemReq
<1>3. DramInv'
  <2>1. \A j \in Ids :
          req[j].state = "MEM_NEW" \/ req'[j].state = "MEM_NEW" =>
            req'[j].state = req[j].state /\ req'[j].addr = req[j].addr
    BY <1>1 DEF Takes
  <2>2. QED
    BY <2>1, DramKept DEF MemInv, NewMemReq
<1>4. QED
  BY <1>1, <1>2, <1>3 DEF MemInv

-----------------------------------------------------------------------------
(***************************************************************************)
(* One read of a line per class                                            *)
(***************************************************************************)

\* A request that a later one of its class would have had to join.
Joinable(i, line) ==
  /\ req[i].state \notin Final \cup {"INV"}
  /\ req[i].addr = line /\ req[i].type # "WB"

OneRead ==
  \A line \in Lines : \A i, j \in Ids :
    Joinable(i, line) /\ Joinable(j, line) /\ i # j
      => (req[i].type = "IFETCH") # (req[j].type = "IFETCH")

LEMMA OneReadIs ==
  ASSUME RequestsInv
  PROVE  OneRead => OneReadPerClass
<1> SUFFICES ASSUME OneRead, NEW i \in Live, NEW j \in Live, i # j,
                    req[i].addr = req[j].addr,
                    {req[i].type, req[j].type} \cap {"WB"} = {},
                    {req[i].state, req[j].state} \cap Final = {}
             PROVE  (req[i].type = "IFETCH") # (req[j].type = "IFETCH")
  BY DEF OneReadPerClass
<1>1. i \in Ids /\ j \in Ids /\ req[i].state # "INV" /\ req[j].state # "INV"
  BY DEF Live
<1>2. req[i].addr \in Lines
  BY <1>1 DEF RequestsInv, RequestOK
<1>3. Joinable(i, req[i].addr) /\ Joinable(j, req[i].addr)
  BY <1>1 DEF Joinable
<1>4. QED
  BY <1>1, <1>2, <1>3 DEF OneRead

LEMMA OneReadAdvances ==
  ASSUME OneRead, \A i \in Ids : Advances(req[i], req'[i])
  PROVE  OneRead'
<1>1. ASSUME NEW i \in Ids, NEW line \in Lines, Joinable(i, line)'
      PROVE  Joinable(i, line) /\ req'[i].type = req[i].type
  BY <1>1 DEF Joinable, Advances, FreeBuffer
<1>2. QED
  BY <1>1 DEF OneRead

LEMMA OneReadTakes ==
  ASSUME MemInv, OneRead, NEW type \in Demands \cup {"DPRF"},
         NEW line \in Lines, NEW ops, NEW store,
         NEW i \in Ids, Takes(i, type, line, ops, store)
  PROVE  OneRead'
<1> DEFINE class(x) == x.type = "IFETCH"
<1>1. ASSUME NEW other \in Lines, NEW j \in Ids \ {i}
      PROVE  /\ Joinable(j, other)' <=> Joinable(j, other)
             /\ req'[j] = req[j]
  BY DEF Joinable, Takes
<1>2. ASSUME NEW other \in Lines, NEW j \in Ids \ {i},
             Joinable(i, other)', Joinable(j, other)
      PROVE  class(req'[i]) # class(req[j])
  <2>1. other = line /\ class(req'[i]) = (type = "IFETCH")
    BY <1>2 DEF Joinable, Takes
  <2>2. CASE req[i].state = "INV"
    <3>1. Matching(line, type) = {}
      BY <2>2 DEF Takes, Final
    <3>2. class(req[j]) # (type = "IFETCH")
      BY <1>2, <2>1, <3>1, MatchingFinds DEF Joinable
    <3>3. QED
      BY <2>1, <3>2
  <2>3. CASE req[i].state # "INV"
    <3>1. /\ req[i].state = req'[i].state
          /\ req[i].addr = line /\ req[i].type # "WB"
          /\ class(req[i]) = (type = "IFETCH")
      BY <2>3 DEF Takes
    <3>2. Joinable(i, other)
      BY <2>1, <3>1 DEF Joinable, Takes
    <3>3. class(req[i]) # class(req[j])
      BY <1>2, <3>2 DEF OneRead
    <3>4. QED
      BY <2>1, <3>1, <3>3
  <2>4. QED
    BY <2>2, <2>3
<1>3. QED
  BY <1>1, <1>2 DEF OneRead

-----------------------------------------------------------------------------
(***************************************************************************)
(* Who waits for whom                                                      *)
(***************************************************************************)

Remembers(i, o) == <<o, op[o].unique_num>> \in req[i].ops

\* Request i will give the op its line.
Serves(i, o) ==
  /\ Remembers(i, o)
  /\ req[i].addr = op[o].va
  /\ Modifies(op[o]) => req[i].dirty_l0

Waits(o) ==
  /\ op[o].state = "OS_WAIT_MEM" => \A i \in Ids : ~ Remembers(i, o)
  /\ op[o].state = "OS_MISS" =>
       \E i \in Ids : /\ Serves(i, o)
                      /\ \A j \in Ids : Remembers(j, o) => j = i

OpsInv == \A o \in Active : Waits(o)

FetchInv ==
  ic.state = "IC_WAIT_FOR_MISS" =>
    \E i \in Ids : /\ req[i].state # "INV" /\ req[i].addr = ic.line_addr
                   /\ req[i].type = "IFETCH"

LEMMA ActiveOps ==
  ASSUME CoreInv, NEW o \in Active
  PROVE  o \in Ops /\ op[o] \in Op
BY DEF CoreInv, Active

\* A buffer that remembers an op is in use.
LEMMA RemembersLive ==
  ASSUME RequestsInv, NEW i \in Ids, req[i].ops # {}
  PROVE  i \in Live
BY DEF RequestsInv, RequestOK, FreeBuffer, Live

LEMMA NobodyForgottenIs ==
  ASSUME RequestsInv, CoreInv
  PROVE  OpsInv /\ FetchInv => NobodyForgotten
<1> SUFFICES ASSUME OpsInv, FetchInv
             PROVE  NobodyForgotten
  OBVIOUS
<1>1. ASSUME NEW o \in Active, op[o].state = "OS_WAIT_MEM"
      PROVE  {i \in Live : <<o, op[o].unique_num>> \in req[i].ops} = {}
  BY <1>1 DEF OpsInv, Waits, Live, Remembers
<1>2. ASSUME NEW o \in Active, op[o].state # "OS_WAIT_MEM"
      PROVE  LET mine == {i \in Live : <<o, op[o].unique_num>> \in req[i].ops}
             IN  \E i \in mine :
                   /\ mine = {i}
                   /\ req[i].addr = op[o].va /\ req[i].done_func = "dcache"
                   /\ Modifies(op[o]) => req[i].dirty_l0
  <2>1. op[o].state = "OS_MISS"
    BY <1>2, ActiveOps DEF Op
  <2>2. PICK i \in Ids : /\ Serves(i, o)
                         /\ \A j \in Ids : Remembers(j, o) => j = i
    BY <2>1 DEF OpsInv, Waits
  <2>3. i \in Live /\ req[i].done_func = "dcache"
    BY <2>2, RemembersLive DEF Serves, Remembers, RequestsInv, RequestOK
  <2>4. {j \in Live : <<o, op[o].unique_num>> \in req[j].ops} = {i}
    BY <2>2, <2>3 DEF Live, Serves, Remembers
  <2>5. QED
    BY <2>2, <2>3, <2>4 DEF Serves
<1>3. ic.state = "IC_WAIT_FOR_MISS" =>
        \E i \in Live : req[i].addr = ic.line_addr /\ req[i].type = "IFETCH"
  BY DEF FetchInv, Live
<1>4. QED
  BY <1>1, <1>2, <1>3 DEF NobodyForgotten

\* A step that leaves an op and what is remembered of it alone.
LEMMA WaitsKept ==
  ASSUME NEW o, Waits(o), op'[o] = op[o],
         \A i \in Ids : Remembers(i, o)' <=> Remembers(i, o),
         \A i \in Ids : Remembers(i, o) =>
           /\ req'[i].addr = req[i].addr
           /\ req[i].dirty_l0 => req'[i].dirty_l0
  PROVE  Waits(o)'
<1>1. CASE op[o].state = "OS_MISS"
  <2>1. PICK i \in Ids : /\ Serves(i, o)
                         /\ \A j \in Ids : Remembers(j, o) => j = i
    BY <1>1 DEF Waits
  <2>2. Serves(i, o)'
    BY <2>1 DEF Serves, Modifies
  <2>3. QED
    BY <1>1, <2>1, <2>2 DEF Waits
<1>2. CASE op[o].state # "OS_MISS"
  BY <1>2 DEF Waits
<1>3. QED
  BY <1>1, <1>2

LEMMA OpsAdvance ==
  ASSUME OpsInv, FetchInv, UNCHANGED <<op, ic>>,
         \A i \in Ids : Advances(req[i], req'[i])
  PROVE  OpsInv' /\ FetchInv'
<1>1. Active' = Active
  BY DEF Active
<1>2. \A i \in Ids : /\ req'[i].ops = req[i].ops
                     /\ req[i].ops # {} => /\ req'[i].addr = req[i].addr
                                           /\ req'[i].dirty_l0 = req[i].dirty_l0
  <2>1. ASSUME NEW r, NEW s, Advances(r, s)
        PROVE  /\ s.ops = r.ops
               /\ r.ops # {} => s.addr = r.addr /\ s.dirty_l0 = r.dirty_l0
    BY <2>1 DEF Advances, FreeBuffer
  <2>2. QED
    BY <2>1
<1>3. ASSUME NEW o \in Active
      PROVE  Waits(o)'
  <2>1. \A i \in Ids : Remembers(i, o)' <=> Remembers(i, o)
    BY <1>2 DEF Remembers
  <2>2. \A i \in Ids : Remembers(i, o) =>
          /\ req'[i].addr = req[i].addr
          /\ req[i].dirty_l0 => req'[i].dirty_l0
    BY <1>2 DEF Remembers
  <2>3. QED
    BY <2>1, <2>2, WaitsKept DEF OpsInv
<1>4. FetchInv'
  <2>1. \A i \in Ids : req[i].state # "INV" /\ req[i].type = "IFETCH" =>
          /\ req'[i].state # "INV" /\ req'[i].type = "IFETCH"
          /\ req'[i].addr = req[i].addr
    BY DEF Advances
  <2>2. QED
    BY <2>1 DEF FetchInv
<1>5. QED
  BY <1>1, <1>3, <1>4 DEF OpsInv

\* Requests of others, and of one op that takes the number it has for
\* itself, change nothing for an op.
LEMMA WaitsTakes ==
  ASSUME NEW o, Waits(o), op'[o] = op[o],
         NEW i \in Ids, NEW type, NEW line, NEW ops, NEW store,
         Takes(i, type, line, ops, store),
         RequestsInv,
         <<o, op[o].unique_num>> \notin ops
  PROVE  Waits(o)'
<1>1. CASE req[i].state = "INV"
  <2>1. req[i].ops = {} /\ req'[i].ops = ops
    <3>1. req[i].ops = {}
      BY <1>1 DEF RequestsInv, RequestOK, FreeBuffer
    <3>2. QED
      BY <1>1, <3>1 DEF Takes
  <2>2. \A j \in Ids : /\ Remembers(j, o)' <=> Remembers(j, o)
                       /\ Remembers(j, o) => req'[j] = req[j]
    BY <2>1 DEF Takes, Remembers
  <2>3. QED
    BY <2>2, WaitsKept
<1>2. CASE req[i].state # "INV"
  <2>1. /\ req'[i].ops = req[i].ops \cup ops
        /\ req'[i].addr = req[i].addr
        /\ req[i].dirty_l0 => req'[i].dirty_l0
    BY <1>2 DEF Takes
  <2>2. \A j \in Ids : /\ Remembers(j, o)' <=> Remembers(j, o)
                       /\ j # i => req'[j] = req[j]
    BY <2>1 DEF Takes, Remembers
  <2>3. QED
    BY <2>1, <2>2, WaitsKept
<1>3. QED
  BY <1>1, <1>2

LEMMA FetchTakes ==
  ASSUME FetchInv, UNCHANGED ic,
         NEW i \in Ids, NEW type, NEW line, NEW ops, NEW store,
         Takes(i, type, line, ops, store)
  PROVE  FetchInv'
<1>1. ASSUME NEW j \in Ids, req[j].state # "INV", req[j].type = "IFETCH"
      PROVE  /\ req'[j].state # "INV" /\ req'[j].type = "IFETCH"
             /\ req'[j].addr = req[j].addr
  BY <1>1 DEF Takes
<1>2. QED
  BY <1>1 DEF FetchInv

IInv ==
  /\ MemInv /\ DcacheInv /\ CoreInv
  /\ OneRead /\ OpsInv /\ FetchInv

LEMMA InitIInv ==
  ASSUME Init
  PROVE  IInv
<1>1. req = [i \in Ids |-> FreeBuffer] /\ \A i \in Ids : RequestOK(req[i])
  BY FreeBufferOK DEF Init, MemInit
<1>2. /\ \A i \in Ids : /\ req[i].state = "INV" /\ req[i].ops = {}
                        /\ req[i].type = "DPRF"
  BY <1>1 DEF FreeBuffer
<1>3. RequestsInv
  BY <1>1 DEF RequestsInv, RequestOK
<1>4. L1Inv
  <2>1. NoData \in L1Data
    BY DEF NoData, L1Data, CountMax
  <2>2. DataOK(NoData)
    BY <2>1 DEF DataOK, NoData
  <2>3. l1 = [w \in L1Ways |-> NoData]
    BY DEF Init, MemInit
  <2>4. QED
    BY <2>1, <2>2, <2>3 DEF L1Inv
<1>5. DramInv
  BY <1>2, InitDram DEF Init, MemInit
<1>6. DcacheInv
  BY DEF Init, DcacheInv, Line
<1>7. CoreInv /\ Active = {} /\ FetchInv
  BY DEF Init, CoreInv, Active, FetchInv, Fetching
<1>8. OneRead
  BY <1>2 DEF OneRead, Joinable
<1>9. QED
  BY <1>3, <1>4, <1>5, <1>6, <1>7, <1>8 DEF IInv, MemInv, OpsInv

LEMMA MemStepIInv ==
  ASSUME IInv, MemStep, UNCHANGED <<dcache, op, ic>>
  PROVE  IInv'
<1>1. MemKeeps
  BY MemStepKeeps DEF IInv
<1>2. OneRead'
  BY <1>1, OneReadAdvances DEF IInv, MemKeeps
<1>3. OpsInv' /\ FetchInv'
  BY <1>1, OpsAdvance DEF IInv, MemKeeps
<1>4. DcacheInv' /\ CoreInv'
  BY DEF IInv, DcacheInv, CoreInv
<1>5. QED
  BY <1>1, <1>2, <1>3, <1>4 DEF IInv, MemKeeps

\* Ops, any of them, are flushed, and perhaps the fetch; or nothing happens.
LEMMA FlushIInv ==
  ASSUME IInv, NEW flushed, UNCHANGED <<dcache, memVars>>,
         op' = [o \in Ops |-> IF o \in flushed THEN NoOp ELSE op[o]],
         ic' \in {ic, Fetching}
  PROVE  IInv'
<1>1. req' = req /\ UNCHANGED <<dcache, l1, dramVars>>
  BY DEF memVars
<1>2. MemInv' /\ DcacheInv' /\ OneRead'
  <2>1. RequestsInv' /\ L1Inv' /\ DcacheInv' /\ OneRead'
    BY <1>1 DEF IInv, MemInv, RequestsInv, L1Inv, DcacheInv, OneRead, Joinable
  <2>2. DramInv'
    BY <1>1, DramKept DEF IInv, MemInv
  <2>3. QED
    BY <2>1, <2>2 DEF MemInv
<1>3. CoreInv /\ op' = [o \in Ops |-> IF o \in flushed THEN NoOp ELSE op[o]]
  BY DEF IInv
<1>4. CoreInv'
  BY <1>3 DEF CoreInv
<1>5. OpsInv'
  <2> SUFFICES ASSUME NEW o \in Active'
               PROVE  Waits(o)'
    BY DEF OpsInv
  <2>1. o \in Active /\ op'[o] = op[o]
    BY <1>3 DEF Active
  <2>2. QED
    BY <1>1, <2>1, WaitsKept DEF IInv, OpsInv, Remembers
<1>6. FetchInv'
  BY <1>1 DEF IInv, FetchInv, Fetching
<1>7. QED
  BY <1>2, <1>4, <1>5, <1>6 DEF IInv

LEMMA PrefetchIInv ==
  ASSUME IInv, NEW line \in Prefetches, Prefetch(line)
  PROVE  IInv'
<1>1. Asked("DPRF", line, {}, FALSE, "NULL", TRUE)
  BY CoreAssumption DEF Asked
<1>2. PICK i \in Ids : MemInv' /\ Takes(i, "DPRF", line, {}, FALSE)
  BY <1>1, NewMemReqTakes DEF IInv, Prefetch
<1>3. OneRead'
  BY <1>2, OneReadTakes, CoreAssumption DEF IInv
<1>4. OpsInv'
  <2>1. Active' = Active /\ op' = op
    BY DEF Active, Prefetch
  <2>2. ASSUME NEW o \in Active
        PROVE  Waits(o)'
    BY <1>2, <2>1, WaitsTakes DEF IInv, OpsInv, MemInv
  <2>3. QED
    BY <2>1, <2>2 DEF OpsInv
<1>5. FetchInv'
  BY <1>2, FetchTakes DEF IInv, Prefetch
<1>6. DcacheInv' /\ CoreInv'
  BY DEF IInv, DcacheInv, CoreInv, Prefetch
<1>7. QED
  BY <1>2, <1>3, <1>4, <1>5, <1>6 DEF IInv

LEMMA IcacheFetchIInv ==
  ASSUME IInv, NEW line \in Fetches, IcacheFetch(line)
  PROVE  IInv'
<1>1. Asked("IFETCH", line, {}, FALSE, "icache", FALSE)
  BY CoreAssumption DEF Asked, Demands
<1>2. PICK i \in Ids : MemInv' /\ Takes(i, "IFETCH", line, {}, FALSE)
  BY <1>1, NewMemReqTakes DEF IInv, IcacheFetch
<1>3. OneRead'
  BY <1>2, OneReadTakes, CoreAssumption DEF IInv, Demands
<1>4. OpsInv'
  <2>1. Active' = Active /\ op' = op
    BY DEF Active, IcacheFetch
  <2>2. ASSUME NEW o \in Active
        PROVE  Waits(o)'
    BY <1>2, <2>1, WaitsTakes DEF IInv, OpsInv, MemInv
  <2>3. QED
    BY <2>1, <2>2 DEF OpsInv
<1>5. FetchInv'
  <2>1. /\ req'[i].state # "INV" /\ req'[i].addr = line
        /\ req'[i].type = "IFETCH"
    BY <1>2 DEF Takes
  <2>2. QED
    BY <2>1 DEF FetchInv, IcacheFetch
<1>6. DcacheInv' /\ CoreInv'
  BY DEF IInv, DcacheInv, CoreInv, IcacheFetch
<1>7. QED
  BY <1>2, <1>3, <1>4, <1>5, <1>6 DEF IInv

\* update_dcache_stage: an op whose number no request remembers accesses the
\* cache, for the first time or again.
LEMMA AccessIInv ==
  ASSUME IInv, NEW o \in Ops, NEW a \in Op, a.state = "OS_WAIT_MEM",
         \A i \in Ids : <<o, a.unique_num>> \notin req[i].ops,
         Access(o, a) \/ Denied(o, a)
  PROVE  IInv'
<1>1. /\ a.mem_type \in OpTypes /\ a.va \in Lines
      /\ a.unique_num \in 1 .. MaxUnique /\ a.off_path \in BOOLEAN
      /\ op \in [Ops -> Op \cup {NoOp}]
  BY DEF Op, IInv, CoreInv
<1>2. /\ ic' = ic /\ op' \in [Ops -> Op \cup {NoOp}]
      /\ \A p \in Ops \ {o} : op'[p] = op[p]
      /\ \/ op'[o] = NoOp
         \/ op'[o] = a /\ UNCHANGED memVars
         \/ /\ op'[o] = [a EXCEPT !.state = "OS_MISS"]
            /\ DcacheMiss(o, a)
  <2>1. CASE DcacheHit(o, a) \/ Forwarded(o, a)
    BY <1>1, <2>1 DEF DcacheHit, Forwarded
  <2>2. CASE Denied(o, a)
    BY <1>1, <2>2 DEF Denied
  <2>3. CASE DcacheMiss(o, a)
    <3>1. [a EXCEPT !.state = "OS_MISS"] \in Op
      BY DEF Op
    <3>2. QED
      BY <1>1, <2>3, <3>1 DEF DcacheMiss
  <2>4. QED
    BY <2>1, <2>2, <2>3 DEF Access
<1>3. CoreInv'
  BY <1>2 DEF IInv, CoreInv
<1>4. DcacheInv'
  <2>1. CASE DcacheHit(o, a)
    <3> DEFINE way == HitWay(dcache, a.va)
    <3>1. way \in DcacheWays
      <4>1. DOMAIN dcache = DcacheWays /\ DOMAIN dcache \subseteq Nat
        BY CoreAssumption DEF IInv, DcacheInv
      <4>2. QED
        BY <2>1, <4>1, HitWayHolds DEF DcacheHit
    <3>2. dcache' = IF Modifies(a)
                    THEN [dcache EXCEPT ![way].dirty = TRUE] ELSE dcache
      BY <2>1 DEF DcacheHit
    <3> HIDE DEF way
    <3>3. QED
      BY <3>1, <3>2 DEF IInv, DcacheInv, Line
  <2>2. CASE UNCHANGED dcache
    BY <2>2 DEF IInv, DcacheInv
  <2>3. QED
    BY <2>1, <2>2 DEF Access, Forwarded, DcacheMiss, Denied
<1>5. CASE UNCHANGED memVars
  <2>1. req' = req
    BY <1>5 DEF memVars
  <2>2. MemInv' /\ OneRead'
    <3>1. RequestsInv' /\ L1Inv' /\ OneRead'
      BY <1>5 DEF memVars, IInv, MemInv, RequestsInv, L1Inv, OneRead, Joinable
    <3>2. DramInv'
      BY <1>5, <2>1, DramKept DEF IInv, MemInv, memVars
    <3>3. QED
      BY <3>1, <3>2 DEF MemInv
  <2>3. FetchInv'
    BY <1>2, <2>1 DEF IInv, FetchInv
  <2>4. ASSUME NEW p \in Active'
        PROVE  Waits(p)'
    <3>1. p \in Ops
      BY DEF Active
    <3>2. CASE p # o
      <4>1. p \in Active /\ op'[p] = op[p]
        BY <1>2, <3>1, <3>2 DEF Active
      <4>2. QED
        BY <2>1, <4>1, WaitsKept DEF IInv, OpsInv, Remembers
    <3>3. CASE p = o /\ op'[o] = a
      BY <2>1, <3>3 DEF Waits, Remembers
    <3>4. CASE p = o /\ DcacheMiss(o, a)
            /\ op'[o] = [a EXCEPT !.state = "OS_MISS"]
      <4>1. Asked(MissType(a.mem_type), a.va, {<<o, a.unique_num>>},
                  Modifies(a), "dcache", FALSE)
        BY <1>1, CoreAssumption DEF Asked, MissType, Modifies, Demands
      <4>2. PICK i \in Ids : Takes(i, MissType(a.mem_type), a.va,
                                   {<<o, a.unique_num>>}, Modifies(a))
        BY <3>4, <4>1, NewMemReqTakes DEF DcacheMiss, IInv
      <4>3. <<o, a.unique_num>> \in req'[i].ops
        BY <4>2 DEF Takes
      <4>4. QED
        BY <2>1, <4>3
    <3>5. QED
      BY <1>2, <3>1, <3>2, <3>3, <3>4 DEF Active
  <2>5. QED
    BY <1>3, <1>4, <2>2, <2>3, <2>4 DEF IInv, OpsInv
<1>6. CASE DcacheMiss(o, a)
  <2> DEFINE ops == {<<o, a.unique_num>>}
             type == MissType(a.mem_type)
  <2>1. Asked(type, a.va, ops, Modifies(a), "dcache", FALSE)
    BY <1>1, CoreAssumption DEF Asked, MissType, Modifies, Demands
  <2>2. PICK i \in Ids : MemInv' /\ Takes(i, type, a.va, ops, Modifies(a))
    BY <1>6, <2>1, NewMemReqTakes DEF DcacheMiss, IInv
  <2>3. OneRead'
    BY <1>1, <2>1, <2>2, OneReadTakes DEF IInv, Asked
  <2>4. FetchInv'
    BY <1>2, <2>2, FetchTakes DEF IInv
  <2>5. ASSUME NEW p \in Active'
        PROVE  Waits(p)'
    <3>1. p \in Ops
      BY DEF Active
    <3>2. CASE p # o
      <4>1. p \in Active /\ op'[p] = op[p]
        BY <1>2, <3>1, <3>2 DEF Active
      <4>2. <<p, op[p].unique_num>> \notin ops
        BY <3>2
      <4>3. QED
        BY <2>2, <4>1, <4>2, WaitsTakes DEF IInv, OpsInv, MemInv
    <3>3. CASE p = o
      <4> DEFINE b == [a EXCEPT !.state = "OS_MISS"]
      <4>1. op'[o] = b
        BY <1>1, <1>6, <3>3 DEF DcacheMiss, Active
      <4>2. /\ b.state = "OS_MISS" /\ b.unique_num = a.unique_num
            /\ b.va = a.va /\ (Modifies(b) <=> Modifies(a))
        BY DEF Op, Modifies
      <4> HIDE DEF b
      <4>3. /\ <<o, a.unique_num>> \in req'[i].ops /\ req'[i].addr = a.va
            /\ Modifies(a) => req'[i].dirty_l0
        BY <2>2 DEF Takes
      <4>4. Serves(i, o)'
        BY <4>1, <4>2, <4>3 DEF Serves, Remembers, Modifies
      <4>5. \A j \in Ids : Remembers(j, o)' => j = i
        BY <2>2, <4>1, <4>2 DEF Remembers, Takes
      <4>6. QED
        BY <3>3, <4>1, <4>2, <4>4, <4>5 DEF Waits
    <3>4. QED
      BY <3>2, <3>3
  <2>6. QED
    BY <1>3, <1>4, <2>2, <2>3, <2>4, <2>5 DEF IInv, OpsInv
<1>7. QED
  BY <1>5, <1>6 DEF Access, DcacheHit, Forwarded, Denied

LEMMA IssueIInv ==
  ASSUME IInv, NEW o \in Ops, Issue(o)
  PROVE  IInv'
<1>1. PICK t \in OpTypes, line \in Lines, off \in {FALSE, OffPathOps},
           u \in Unused(o) :
        LET a == [state |-> "OS_WAIT_MEM", mem_type |-> t, va |-> line,
                  off_path |-> off, unique_num |-> u]
        IN  Access(o, a) \/ Denied(o, a)
  BY DEF Issue
<1> DEFINE a == [state |-> "OS_WAIT_MEM", mem_type |-> t, va |-> line,
                 off_path |-> off, unique_num |-> u]
<1>2. a \in Op /\ a.state = "OS_WAIT_MEM" /\ a.unique_num = u
  BY CoreAssumption DEF Op, Unused
<1>3. \A i \in Ids : <<o, u>> \notin req[i].ops
  <2>1. \A i \in Ids : req[i].ops # {} => i \in Live
    BY RemembersLive DEF IInv, MemInv
  <2>2. QED
    BY <2>1 DEF Unused
<1>4. Access(o, a) \/ Denied(o, a)
  BY <1>1
<1> HIDE DEF a
<1>5. QED
  BY <1>2, <1>3, <1>4, AccessIInv

LEMMA RetryIInv ==
  ASSUME IInv, NEW o \in Ops, Retry(o)
  PROVE  IInv'
<1>1. /\ o \in Active /\ op[o].state = "OS_WAIT_MEM" /\ op[o] \in Op
      /\ Access(o, op[o])
  BY ActiveOps DEF Retry, IInv
<1>2. \A i \in Ids : <<o, op[o].unique_num>> \notin req[i].ops
  BY <1>1 DEF IInv, OpsInv, Waits, Remembers
<1>3. QED
  BY <1>1, <1>2, AccessIInv

-----------------------------------------------------------------------------
(***************************************************************************)
(* Fills of the core                                                       *)
(***************************************************************************)

\* A request the core takes: it has been through the memory.
LEMMA CoreFillFacts ==
  ASSUME MemInv, NEW i \in Ids, req[i].queue = "CORE_FILL"
  PROVE  /\ RequestOK(req[i]) /\ req[i].addr \in Lines /\ req[i].type # "WB"
         /\ req[i].state \in {"L1_HIT_DONE", "FILL_DONE"}
<1>1. RequestOK(req[i]) /\ req[i] \in Request
  BY DEF MemInv, RequestsInv, RequestOK
<1>2. req[i].queue \in QueuesOf(req[i].state) /\ req[i].state \in States
  BY <1>1 DEF RequestOK, Request
<1>3. req[i].state \in {"L1_HIT_DONE", "FILL_DONE"}
  BY <1>2 DEF QueuesOf, States
<1>4. QED
  BY <1>1, <1>3 DEF RequestOK

\* new_mem_dc_wb_req: a writeback of the line is there, and nothing else is
\* touched but a free buffer.
LEMMA WritebackTaken ==
  ASSUME MemInv, NEW line \in Lines, WritebackAccepted(line)
  PROVE  LET bufs == AfterWriteback(line)
         IN  /\ bufs \in [Ids -> Request]
             /\ \A j \in Ids : RequestOK(bufs[j])
             /\ \A j \in Ids :
                  \/ bufs[j] = req[j]
                  \/ /\ req[j].state = "INV" /\ bufs[j].state = "L1_NEW"
                     /\ bufs[j].type = "WB" /\ bufs[j].ops = {}
             /\ \E k \in Ids : /\ bufs[k].type = "WB"
                               /\ bufs[k].state # "INV"
                               /\ bufs[k].addr = line
<1>1. req \in [Ids -> Request] /\ \A j \in Ids : RequestOK(req[j])
  BY DEF MemInv, RequestsInv
<1>2. CASE WritebackQueued(line)
  <2>1. PICK k \in SearchQueue("L1", line, "WB") : TRUE
    BY <1>2 DEF WritebackQueued
  <2>2. /\ k \in Ids /\ req[k].queue = "L1" /\ req[k].addr = line
        /\ Joins("WB", req[k].type)
    BY DEF SearchQueue, In
  <2>3. req[k].type = "WB"
    BY <2>2 DEF Joins
  <2>4. req[k].state # "INV"
    <3>1. req[k].queue \in QueuesOf(req[k].state)
      BY <1>1, <2>2 DEF RequestOK
    <3>2. QED
      BY <2>2, <3>1 DEF QueuesOf
  <2>5. AfterWriteback(line) = req
    BY <1>2 DEF AfterWriteback
  <2>6. QED
    BY <1>1, <2>2, <2>3, <2>4, <2>5
<1>3. CASE ~ WritebackQueued(line)
  <2> DEFINE k == NewId
             s == NewRequest("WB", line, {}, FALSE, "NULL", FALSE)
             bufs == AfterWriteback(line)
  <2>1. k \in Ids /\ req[k].state = "INV"
    <3>1. Used < Entries
      BY <1>3 DEF WritebackAccepted, CanAllocate
    <3>2. QED
      BY <3>1, NewIdFree DEF Live
  <2>2. bufs = [req EXCEPT ![k] = s]
    BY <1>3 DEF AfterWriteback
  <2>3. RequestOK(s)
    BY NewWritebackOK
  <2>4. /\ s.state = "L1_NEW" /\ s.type = "WB" /\ s.ops = {}
        /\ s.addr = line
    BY DEF NewRequest
  <2> HIDE DEF s, k, bufs
  <2>5. bufs[k] = s /\ \A j \in Ids \ {k} : bufs[j] = req[j]
    BY <1>1, <2>1, <2>2
  <2>6. bufs \in [Ids -> Request]
    BY <1>1, <2>2, <2>3 DEF RequestOK
  <2>7. QED
    BY <1>1, <2>1, <2>3, <2>4, <2>5, <2>6 DEF bufs
<1>4. QED
  BY <1>2, <1>3

\* dcache_fill_line: the request is gone, its line is in the cache, and the
\* writeback of a dirty one that had to go has been taken.
LEMMA DcacheFillFacts ==
  ASSUME MemInv, DcacheInv, NEW i \in Ids, DcacheFill(i)
  PROVE  /\ MemInv' /\ DcacheInv'
         /\ req'[i] = FreeBuffer
         /\ \A j \in Ids \ {i} :
              \/ req'[j] = req[j]
              \/ /\ req[j].state = "INV" /\ req'[j].state = "L1_NEW"
                 /\ req'[j].type = "WB" /\ req'[j].ops = {}
         /\ \E way \in DcacheWays :
              /\ \A w \in DcacheWays \ {way} : dcache'[w] = dcache[w]
              /\ dcache'[way] = [valid |-> TRUE, line |-> req[i].addr,
                                 dirty |-> req[i].dirty_l0]
              /\ dcache[way].valid /\ dcache[way].dirty =>
                   \E k \in Ids : /\ req'[k].type = "WB"
                                  /\ req'[k].state # "INV"
                                  /\ req'[k].addr = dcache[way].line
<1>1. PICK way \in Replaceable(dcache) :
        LET dirty == dcache[way].valid /\ dcache[way].dirty
        IN  /\ dirty => WritebackAccepted(dcache[way].line)
            /\ dcache' = Insert(dcache, way,
                                [valid |-> TRUE, line |-> req[i].addr,
                                 dirty |-> req[i].dirty_l0])
            /\ req' = Freed(IF dirty THEN AfterWriteback(dcache[way].line)
                            ELSE req, i)
  BY DEF DcacheFill
<1> DEFINE dirty == dcache[way].valid /\ dcache[way].dirty
           line == dcache[way].line
           bufs == IF dirty THEN AfterWriteback(line) ELSE req
           data == [valid |-> TRUE, line |-> req[i].addr,
                    dirty |-> req[i].dirty_l0]
<1>2. way \in DcacheWays
  <2>1. DOMAIN dcache = DcacheWays /\ DOMAIN dcache \subseteq Nat
    BY CoreAssumption DEF DcacheInv
  <2>2. QED
    BY <2>1, ReplaceableWays
<1>3. /\ RequestOK(req[i]) /\ req[i].addr \in Lines /\ req[i].type # "WB"
      /\ req[i].state \in {"L1_HIT_DONE", "FILL_DONE"}
      /\ req[i].dirty_l0 \in BOOLEAN
  BY CoreFillFacts DEF DcacheFill, RequestOK, Request
<1>4. dirty => line \in Lines /\ WritebackAccepted(line)
  BY <1>1, <1>2 DEF DcacheInv
<1>5. /\ bufs \in [Ids -> Request] /\ \A j \in Ids : RequestOK(bufs[j])
      /\ \A j \in Ids :
           \/ bufs[j] = req[j]
           \/ /\ req[j].state = "INV" /\ bufs[j].state = "L1_NEW"
              /\ bufs[j].type = "WB" /\ bufs[j].ops = {}
      /\ dirty => \E k \in Ids : /\ bufs[k].type = "WB"
                                 /\ bufs[k].state # "INV"
                                 /\ bufs[k].addr = line
  <2> HIDE DEF line
  <2>1. CASE dirty
    BY <1>4, <2>1, WritebackTaken
  <2>2. CASE ~ dirty
    BY <2>2 DEF MemInv, RequestsInv
  <2>3. QED
    BY <2>1, <2>2
<1>6. req' = [bufs EXCEPT ![i] = FreeBuffer]
  BY <1>1 DEF Freed
<1>7. dcache' = [dcache EXCEPT ![way] = data]
  BY <1>1 DEF Insert
<1> HIDE DEF bufs, dirty, line
<1>8. req'[i] = FreeBuffer /\ \A j \in Ids \ {i} : req'[j] = bufs[j]
  BY <1>5, <1>6
<1>9. RequestsInv'
  BY <1>5, <1>6, <1>8, FreeBufferOK DEF RequestsInv, RequestOK
<1>10. \A j \in Ids \ {i} :
         \/ req'[j] = req[j]
         \/ /\ req[j].state = "INV" /\ req'[j].state = "L1_NEW"
            /\ req'[j].type = "WB" /\ req'[j].ops = {}
  BY <1>5, <1>8
<1>11. DramInv'
  <2>1. \A j \in Ids :
          req[j].state = "MEM_NEW" \/ req'[j].state = "MEM_NEW" =>
            req'[j].state = req[j].state /\ req'[j].addr = req[j].addr
    BY <1>3, <1>8, <1>10 DEF FreeBuffer
  <2>2. QED
    BY <2>1, DramKept DEF MemInv, DcacheFill
<1>12. L1Inv'
  BY DEF MemInv, L1Inv, DcacheFill
<1>13. data \in Line /\ data.valid /\ data.line \in Lines
  BY <1>3 DEF Line
<1>14. /\ \A w \in DcacheWays \ {way} : dcache'[w] = dcache[w]
       /\ dcache'[way] = data
       /\ dcache' \in [DcacheWays -> Line]
  <2> HIDE DEF data
  <2> QED  BY <1>2, <1>7, <1>13 DEF DcacheInv
<1>15. DcacheInv'
  <2> HIDE DEF data
  <2> QED  BY <1>13, <1>14 DEF DcacheInv
<1>16. dirty => \E k \in Ids : /\ req'[k].type = "WB" /\ req'[k].state # "INV"
                               /\ req'[k].addr = line
  <2> SUFFICES ASSUME dirty
               PROVE  \E k \in Ids : /\ req'[k].type = "WB"
                                     /\ req'[k].state # "INV"
                                     /\ req'[k].addr = line
    OBVIOUS
  <2>1. PICK k \in Ids : /\ bufs[k].type = "WB" /\ bufs[k].state # "INV"
                         /\ bufs[k].addr = line
    BY <1>5
  <2>2. k # i
    BY <1>3, <1>5, <2>1
  <2>3. QED
    BY <1>8, <2>1, <2>2
<1>17. QED
  BY <1>2, <1>8, <1>9, <1>10, <1>11, <1>12, <1>14, <1>15, <1>16
  DEF MemInv, dirty, line

LEMMA DcacheFillIInv ==
  ASSUME IInv, NEW i \in Ids, DcacheFill(i)
  PROVE  IInv'
<1>1. /\ MemInv' /\ DcacheInv'
      /\ req'[i] = FreeBuffer
      /\ \A j \in Ids \ {i} :
           \/ req'[j] = req[j]
           \/ /\ req[j].state = "INV" /\ req'[j].state = "L1_NEW"
              /\ req'[j].type = "WB" /\ req'[j].ops = {}
  BY DcacheFillFacts DEF IInv
<1>2. /\ op' = [o \in Ops |-> IF o \in Woken(i) THEN NoOp ELSE op[o]]
      /\ ic' = ic /\ req[i].done_func = "dcache"
  BY DEF DcacheFill
<1>3. CoreInv'
  BY <1>2 DEF IInv, CoreInv
<1>4. OneRead'
  <2>1. ASSUME NEW j \in Ids, NEW line \in Lines, Joinable(j, line)'
        PROVE  Joinable(j, line) /\ req'[j] = req[j]
    BY <1>1, <2>1 DEF Joinable, FreeBuffer
  <2>2. QED
    BY <2>1 DEF IInv, OneRead
<1>5. ASSUME NEW j \in Ids
      PROVE  /\ RequestOK(req[j])
             /\ req[j].state = "INV" => req[j].ops = {}
  BY DEF IInv, MemInv, RequestsInv, RequestOK, FreeBuffer
<1>6. OpsInv'
  <2> SUFFICES ASSUME NEW o \in Active'
               PROVE  Waits(o)'
    BY DEF OpsInv
  <2>1. o \in Active /\ op'[o] = op[o] /\ ~ Remembers(i, o)
    BY <1>2 DEF Active, Woken, Remembers
  <2>2. \A j \in Ids : /\ Remembers(j, o)' <=> Remembers(j, o)
                       /\ Remembers(j, o) => req'[j] = req[j]
    BY <1>1, <1>5, <2>1 DEF Remembers, FreeBuffer
  <2>3. QED
    BY <2>1, <2>2, WaitsKept DEF IInv, OpsInv
<1>7. FetchInv'
  <2>1. ASSUME NEW j \in Ids, req[j].state # "INV", req[j].type = "IFETCH"
        PROVE  req'[j] = req[j]
    BY <1>1, <1>2, <1>5, <2>1 DEF RequestOK
  <2>2. QED
    BY <1>2, <2>1 DEF IInv, FetchInv
<1>8. QED
  BY <1>1, <1>3, <1>4, <1>6, <1>7 DEF IInv

LEMMA IcacheFillIInv ==
  ASSUME IInv, NEW i \in Ids, IcacheFill(i)
  PROVE  IInv'
<1>1. /\ req[i].queue = "CORE_FILL" /\ req[i].done_func = "icache"
      /\ ic' = IF ic.line_addr = req[i].addr THEN Fetching ELSE ic
      /\ req' = [req EXCEPT ![i] = FreeBuffer]
      /\ UNCHANGED <<dcache, op, l1, dramVars>>
  BY DEF IcacheFill, Freed
<1>2. /\ RequestOK(req[i]) /\ req[i].state # "MEM_NEW" /\ req[i].ops = {}
  BY <1>1, CoreFillFacts DEF IInv, RequestOK
<1>3. RequestsInv' /\ req'[i] = FreeBuffer
      /\ \A j \in Ids \ {i} : req'[j] = req[j]
  BY <1>1, FreeBufferOK, RequestChange DEF IInv, MemInv
<1>4. MemInv' /\ DcacheInv' /\ CoreInv'
  <2>1. \A j \in Ids :
          req[j].state = "MEM_NEW" \/ req'[j].state = "MEM_NEW" =>
            req'[j].state = req[j].state /\ req'[j].addr = req[j].addr
    BY <1>2, <1>3 DEF FreeBuffer
  <2>2. DramInv'
    BY <1>1, <2>1, DramKept DEF IInv, MemInv
  <2>3. L1Inv' /\ DcacheInv' /\ CoreInv'
    BY <1>1 DEF IInv, MemInv, L1Inv, DcacheInv, CoreInv
  <2>4. QED
    BY <1>3, <2>2, <2>3 DEF MemInv
<1>5. OneRead'
  <2>1. ASSUME NEW j \in Ids, NEW line \in Lines, Joinable(j, line)'
        PROVE  Joinable(j, line) /\ req'[j] = req[j]
    BY <1>3, <2>1 DEF Joinable, FreeBuffer
  <2>2. QED
    BY <2>1 DEF IInv, OneRead
<1>6. OpsInv'
  <2>1. Active' = Active /\ op' = op
    BY <1>1 DEF Active
  <2>2. ASSUME NEW o \in Active
        PROVE  Waits(o)'
    <3>1. \A j \in Ids : /\ Remembers(j, o)' <=> Remembers(j, o)
                         /\ Remembers(j, o) => req'[j] = req[j]
      BY <1>2, <1>3, <2>1 DEF Remembers, FreeBuffer
    <3>2. QED
      BY <2>1, <3>1, WaitsKept DEF IInv, OpsInv
  <2>3. QED
    BY <2>1, <2>2 DEF OpsInv
<1>7. FetchInv'
  <2>1. CASE ic.line_addr = req[i].addr
    BY <1>1, <2>1 DEF FetchInv, Fetching
  <2>2. CASE ic.line_addr # req[i].addr
    BY <1>1, <1>3, <2>2 DEF IInv, FetchInv
  <2>3. QED
    BY <2>1, <2>2
<1>8. QED
  BY <1>4, <1>5, <1>6, <1>7 DEF IInv

LEMMA NextIInv ==
  ASSUME IInv, [Next]_vars
  PROVE  IInv'
<1>1. CASE \E o \in Ops : Issue(o) \/ Retry(o)
  BY <1>1, IssueIInv, RetryIInv
<1>2. CASE \E line \in Fetches : IcacheFetch(line)
  BY <1>2, IcacheFetchIInv
<1>3. CASE \E line \in Prefetches : Prefetch(line)
  BY <1>3, PrefetchIInv
<1>4. CASE \E flushed \in SUBSET Ops : Recover(flushed)
  BY <1>4, FlushIInv DEF Recover
<1>5. CASE \E i \in Ids : DcacheFill(i) \/ IcacheFill(i)
  BY <1>5, DcacheFillIInv, IcacheFillIInv
<1>6. CASE MemStep /\ UNCHANGED <<dcache, op, ic>>
  BY <1>6, MemStepIInv
<1>7. CASE UNCHANGED vars
  <2> DEFINE none == {}
  <2>1. /\ UNCHANGED <<dcache, memVars>>
        /\ op' = [o \in Ops |-> IF o \in none THEN NoOp ELSE op[o]]
        /\ ic' \in {ic, Fetching}
    BY <1>7 DEF vars, memVars, IInv, CoreInv
  <2> HIDE DEF none
  <2>2. QED
    BY <2>1, FlushIInv
<1>8. QED
  BY <1>1, <1>2, <1>3, <1>4, <1>5, <1>6, <1>7 DEF Next, CoreStep

LEMMA Invariance == Spec => []IInv
<1>1. Init => IInv
  BY InitIInv
<1>2. IInv /\ [Next]_vars => IInv'
  BY NextIInv
<1>3. QED
  BY <1>1, <1>2, PTL DEF Spec

-----------------------------------------------------------------------------
(***************************************************************************)
(* The theorems                                                            *)
(***************************************************************************)

\* Every variable keeps its type, a request is in the queue its state says,
\* and a freed buffer has forgotten everything (mem_free_reqbuf).
THEOREM MemoryTypeCorrect == Spec => []TypeOK
<1>1. IInv => TypeOK
  BY DEF IInv, MemInv, RequestsInv, RequestOK, L1Inv, DramInv, ListsInv,
         PlacesInv, DcacheInv, CoreInv, TypeOK, MemTypeOK, DramTypeOK
<1>2. QED
  BY <1>1, Invariance, PTL

\* No lost wakeup: whatever matches, flushes, retries and fills in between,
\* the op that waits for a miss is in op_ptrs and op_uniques of exactly the
\* request that brings its line, and the icache's line is on its way.
THEOREM NoOpForgotten == Spec => []NobodyForgotten
<1>1. IInv => NobodyForgotten
  BY NobodyForgottenIs DEF IInv, MemInv
<1>2. QED
  BY <1>1, Invariance, PTL

\* mem_search_reqbuf finds what there is to join: a line is on its way once
\* for data and once for instructions, as ramulator_send asserts of its list.
THEOREM OneReadOut == Spec => []OneReadPerClass
<1>1. IInv => OneReadPerClass
  BY OneReadIs DEF IInv, MemInv
<1>2. QED
  BY <1>1, Invariance, PTL

LEMMA AgreesIs ==
  ASSUME MemInv
  PROVE  RamulatorAgrees
<1>1. ListsInv /\ PlacesInv
  BY DEF MemInv, DramInv
<1>2. In("RAM") = {i \in Ids : req[i].state = "MEM_NEW"}
  <2>1. ASSUME NEW i \in Ids
        PROVE  req[i].queue = "RAM" <=> req[i].state = "MEM_NEW"
    <3>1. /\ req[i].state \in States
          /\ req[i].queue \in QueuesOf(req[i].state)
      BY DEF MemInv, RequestsInv, RequestOK, Request
    <3>2. QED
      BY <3>1 DEF QueuesOf, States
  <2>2. QED
    BY <2>1 DEF In
<1>3. ASSUME NEW line \in Lines
      PROVE  IsInjective(inflight[line] \o resp)
  <2> DEFINE first == inflight[line]
             both == first \o resp
  <2>1. first \in Seq(Ids) /\ resp \in Seq(Ids)
    BY <1>1 DEF ListsInv
  <2>2. /\ \A k, m \in DOMAIN first : first[k] = first[m] => k = m
        /\ \A k, m \in DOMAIN resp : resp[k] = resp[m] => k = m
        /\ \A k \in DOMAIN first, m \in DOMAIN resp : first[k] # resp[m]
    BY <1>1 DEF ListsInv
  <2> HIDE DEF first
  <2>3. ASSUME NEW k \in DOMAIN both, NEW m \in DOMAIN both, both[k] = both[m]
        PROVE  k = m
    BY <2>1, <2>2, <2>3
  <2>4. QED
    BY <2>3 DEF IsInjective, first
<1>4. ASSUME NEW line \in Lines
      PROVE  Range(inflight[line]) \cup {i \in Range(resp) : req[i].addr = line}
               = {i \in In("RAM") : req[i].addr = line}
  <2>1. \A i \in Ids : req[i].state = "MEM_NEW" /\ req[i].addr = line
          <=> \/ \E k \in DOMAIN inflight[line] : inflight[line][k] = i
              \/ /\ \E k \in DOMAIN resp : resp[k] = i
                 /\ req[i].addr = line
    BY <1>1 DEF ListsInv
  <2>2. Range(inflight[line]) \subseteq Ids /\ Range(resp) \subseteq Ids
    BY <1>1 DEF ListsInv, Range
  <2>3. QED
    BY <1>2, <2>1, <2>2 DEF Range
<1>5. QED
  BY <1>1, <1>3, <1>4 DEF PlacesInv, RamulatorAgrees

\* inflight_read_reqs, resp_queue and the controller's queues are in step
\* with Scarab's requests: enqueue_response finds whom to answer, once.
THEOREM RamulatorInStep == Spec => []RamulatorAgrees
<1>1. IInv => RamulatorAgrees
  BY AgreesIs DEF IInv
<1>2. QED
  BY <1>1, Invariance, PTL

\* mem_complete_l1_access tells the prefetcher of every prefetch of its that
\* goes to memory, also of one a demand has taken over (demand_match_prefetch).
THEOREM SentCounted == Spec => []SentIsCounted
<1>1. IInv => SentIsCounted
  BY DEF IInv, MemInv, RequestsInv, RequestOK, SentIsCounted, Live
<1>2. QED
  BY <1>1, Invariance, PTL

\* A prefetch is useful once, by the demand that met it on its way
\* (mem_adjust_matching_request) or the first that hits its line
\* (mem_process_l1_hit_access): seen_prefetch of the fill keeps them apart.
THEOREM UsefulCountedOnce == Spec => []UsefulOnce
<1>1. IInv => UsefulOnce
  BY DEF IInv, MemInv, RequestsInv, RequestOK, L1Inv, DataOK, UsefulOnce
<1>2. QED
  BY <1>1, Invariance, PTL

LEMMA WokenIs ==
  ASSUME IInv, [Next]_vars, NEW o \in Active, op[o].state = "OS_MISS",
         ~ op[o].off_path, op'[o] = NoOp
  PROVE  Hit(dcache', op[o].va)
<1>1. o \in Ops /\ op[o] # NoOp
  BY DEF Active
<1>2. CASE \E p \in Ops : Issue(p) \/ Retry(p)
  <2>1. PICK p \in Ops : Issue(p) \/ Retry(p)
    BY <1>2
  <2>2. p # o
    BY <2>1 DEF Issue, Retry
  <2>3. ASSUME NEW a, Access(p, a) \/ Denied(p, a)
        PROVE  op'[o] = op[o]
    BY <1>1, <2>2, <2>3
    DEF Access, Denied, DcacheHit, Forwarded, DcacheMiss, IInv, CoreInv
  <2>4. op'[o] = op[o]
    BY <2>1, <2>3 DEF Issue, Retry
  <2>5. QED
    BY <1>1, <2>4
<1>3. CASE \E flushed \in SUBSET Ops : Recover(flushed)
  BY <1>1, <1>3 DEF Recover
<1>4. CASE \E i \in Ids : DcacheFill(i)
  <2>1. PICK i \in Ids : DcacheFill(i)
    BY <1>4
  <2>2. Remembers(i, o)
    BY <1>1, <2>1 DEF DcacheFill, Woken, Remembers
  <2>3. req[i].addr = op[o].va
    BY <2>2 DEF IInv, OpsInv, Waits, Serves
  <2>4. PICK way \in DcacheWays :
          dcache'[way] = [valid |-> TRUE, line |-> req[i].addr,
                          dirty |-> req[i].dirty_l0]
    BY <2>1, DcacheFillFacts DEF IInv
  <2>5. DOMAIN dcache' = DcacheWays
    BY <2>1, DcacheFillFacts DEF IInv, DcacheInv
  <2>6. QED
    BY <2>3, <2>4, <2>5 DEF Hit, Holding
<1>5. CASE UNCHANGED op
  BY <1>1, <1>5
<1>6. QED
  BY <1>2, <1>3, <1>4, <1>5
  DEF Next, CoreStep, IcacheFetch, Prefetch, IcacheFill, vars

\* dcache_fill_line wakes whom it finds by slot and unique_num: no op on the
\* path leaves OS_MISS but with its line in the data cache.
THEOREM OpsWokenWithLine == Spec => WokenWithLine
<1>1. IInv /\ [Next]_vars =>
        [\A o \in Active : /\ op[o].state = "OS_MISS" /\ ~ op[o].off_path
                           /\ op[o]' = NoOp
                           => Hit(dcache', op[o].va)]_vars
  BY WokenIs
<1>2. QED
  BY <1>1, Invariance, PTL DEF Spec, WokenWithLine

-----------------------------------------------------------------------------

\* A line's store is in the data cache, in a request, or in the L1.
Dirty(w, line) == dcache[w].valid /\ dcache[w].line = line /\ dcache[w].dirty

Carries(i, line) ==
  req[i].state # "INV" /\ req[i].addr = line /\ req[i].dirty_l0

LEMMA ModifiedIs ==
  ASSUME DcacheInv, NEW line
  PROVE  Modified(line) <=> \/ \E w \in DcacheWays : Dirty(w, line)
                            \/ InL1(line)
                            \/ \E i \in Ids : \/ Carries(i, line)
                                              \/ WritebackOf(i, line)
<1>1. ASSUME NEW w \in DcacheWays
      PROVE  Dirty(w, line) <=> dcache[w] = [valid |-> TRUE, line |-> line,
                                             dirty |-> TRUE]
  BY DEF DcacheInv, Line, Dirty
<1>2. QED
  BY <1>1 DEF Modified, InL1, Carries, WritebackOf, Live

\* What a step must do to a store, part by part.
StoresKept(line) ==
  /\ \A w \in DcacheWays : Dirty(w, line) =>
       Dirty(w, line)' \/ \E i \in Ids : WritebackOf(i, line)'
  /\ InL1(line) => InL1(line)' \/ writeq' = Append(writeq, line)
  /\ \A i \in Ids : Carries(i, line) =>
       Carries(i, line)' \/ \E w \in DcacheWays : Dirty(w, line)'
  /\ \A i \in Ids : WritebackOf(i, line) =>
       WritebackOf(i, line)' \/ InL1(line)'

LEMMA StoresKeptMean ==
  ASSUME IInv, IInv', NEW line \in Lines, StoresKept(line), Modified(line)
  PROVE  Modified(line)' \/ writeq' = Append(writeq, line)
<1>1. \/ \E w \in DcacheWays : Dirty(w, line)
      \/ InL1(line)
      \/ \E i \in Ids : Carries(i, line) \/ WritebackOf(i, line)
  BY ModifiedIs DEF IInv
<1>2. Modified(line)' <=> \/ \E w \in DcacheWays : Dirty(w, line)'
                          \/ InL1(line)'
                          \/ \E i \in Ids : \/ Carries(i, line)'
                                            \/ WritebackOf(i, line)'
  <2>1. \A w \in DcacheWays :
          Dirty(w, line)' <=> dcache'[w] = [valid |-> TRUE, line |-> line,
                                            dirty |-> TRUE]
    BY DEF IInv, DcacheInv, Line, Dirty
  <2>2. QED
    BY <2>1 DEF Modified, InL1, Carries, WritebackOf, Live
<1>3. QED
  BY <1>1, <1>2 DEF StoresKept

\* Request i, and no other, was joined or made for someone.
Taken(i) ==
  /\ \A j \in Ids \ {i} : req'[j] = req[j]
  /\ \/ req[i].state = "INV"
     \/ /\ req'[i].state = req[i].state /\ req'[i].addr = req[i].addr
        /\ req[i].type # "WB"
        /\ req[i].dirty_l0 => req'[i].dirty_l0

\* Steps that leave the caches alone and take a request for someone.
LEMMA StoresTakes ==
  ASSUME NEW line \in Lines, UNCHANGED l1,
         \A w \in DcacheWays : Dirty(w, line) => Dirty(w, line)',
         \/ UNCHANGED req
         \/ \E i \in Ids : Taken(i)
  PROVE  StoresKept(line)
<1>1. InL1(line) => InL1(line)'
  BY DEF InL1
<1>2. CASE UNCHANGED req
  BY <1>1, <1>2 DEF StoresKept, Carries, WritebackOf
<1>3. CASE \E i \in Ids : Taken(i)
  <2>1. PICK i \in Ids : Taken(i)
    BY <1>3
  <2>2. ASSUME NEW j \in Ids, Carries(j, line)
        PROVE  Carries(j, line)'
    BY <2>1, <2>2 DEF Carries, Taken
  <2>3. ASSUME NEW j \in Ids, WritebackOf(j, line)
        PROVE  WritebackOf(j, line)'
    BY <2>1, <2>3 DEF WritebackOf, Taken
  <2>4. QED
    BY <1>1, <2>2, <2>3 DEF StoresKept
<1>4. QED
  BY <1>2, <1>3

LEMMA StoresMemStep ==
  ASSUME IInv, MemStep, UNCHANGED <<dcache, op, ic>>, NEW line \in Lines
  PROVE  StoresKept(line)
<1>1. MemKeeps
  BY MemStepKeeps DEF IInv
<1>2. ASSUME NEW i \in Ids, Carries(i, line)
      PROVE  Carries(i, line)'
  <2>1. req[i].ops # {}
    BY <1>2 DEF Carries, IInv, MemInv, RequestsInv, RequestOK
  <2>2. Advances(req[i], req'[i])
    BY <1>1 DEF MemKeeps
  <2>3. QED
    BY <1>2, <2>1, <2>2 DEF Carries, Advances
<1>3. QED
  BY <1>1, <1>2 DEF StoresKept, MemKeeps, L1Keeps, WritebacksKept, Dirty

LEMMA StoresAsked ==
  ASSUME IInv, NEW type, NEW at, NEW ops, NEW store, NEW done,
         NEW prefetcher, Asked(type, at, ops, store, done, prefetcher),
         NewMemReq(type, at, ops, store, done, prefetcher),
         UNCHANGED dcache, NEW line \in Lines
  PROVE  StoresKept(line)
<1>1. PICK i \in Ids : Takes(i, type, at, ops, store)
  BY NewMemReqTakes DEF IInv
<1>2. Taken(i)
  BY <1>1 DEF Takes, Taken
<1>3. \A w \in DcacheWays : Dirty(w, line) => Dirty(w, line)'
  BY DEF Dirty
<1>4. QED
  BY <1>2, <1>3, StoresTakes DEF NewMemReq

LEMMA StoresAccess ==
  ASSUME IInv, NEW o \in Ops, NEW a \in Op, Access(o, a) \/ Denied(o, a),
         NEW line \in Lines
  PROVE  StoresKept(line)
<1>1. CASE DcacheHit(o, a)
  <2> DEFINE way == HitWay(dcache, a.va)
  <2>1. dcache' = IF Modifies(a)
                  THEN [dcache EXCEPT ![way].dirty = TRUE] ELSE dcache
    BY <1>1 DEF DcacheHit
  <2> HIDE DEF way
  <2>2. \A w \in DcacheWays : Dirty(w, line) => Dirty(w, line)'
    BY <2>1 DEF IInv, DcacheInv, Line, Dirty
  <2>3. QED
    BY <1>1, <2>2, StoresTakes DEF DcacheHit, memVars
<1>2. CASE DcacheMiss(o, a)
  <2>1. Asked(MissType(a.mem_type), a.va, {<<o, a.unique_num>>}, Modifies(a),
              "dcache", FALSE)
    <3>1. /\ a.mem_type \in OpTypes /\ a.va \in Lines
          /\ a.unique_num \in 1 .. MaxUnique /\ a.off_path \in BOOLEAN
      BY DEF Op
    <3>2. QED
      BY <3>1, CoreAssumption DEF Asked, MissType, Modifies, Demands
  <2>2. QED
    BY <1>2, <2>1, StoresAsked DEF DcacheMiss
<1>3. CASE UNCHANGED <<dcache, memVars>>
  BY <1>3, StoresTakes DEF memVars, Dirty
<1>4. QED
  BY <1>1, <1>2, <1>3 DEF Access, Denied, Forwarded

LEMMA StoresFill ==
  ASSUME IInv, NEW i \in Ids, DcacheFill(i), NEW line \in Lines
  PROVE  StoresKept(line)
<1>1. /\ req'[i] = FreeBuffer
      /\ \A j \in Ids \ {i} :
           \/ req'[j] = req[j]
           \/ /\ req[j].state = "INV" /\ req'[j].state = "L1_NEW"
              /\ req'[j].type = "WB" /\ req'[j].ops = {}
  BY DcacheFillFacts DEF IInv
<1>2. PICK way \in DcacheWays :
        /\ \A w \in DcacheWays \ {way} : dcache'[w] = dcache[w]
        /\ dcache'[way] = [valid |-> TRUE, line |-> req[i].addr,
                           dirty |-> req[i].dirty_l0]
        /\ dcache[way].valid /\ dcache[way].dirty =>
             \E k \in Ids : /\ req'[k].type = "WB" /\ req'[k].state # "INV"
                            /\ req'[k].addr = dcache[way].line
  BY DcacheFillFacts DEF IInv
<1>3. req[i].type # "WB"
  BY CoreFillFacts DEF IInv, DcacheFill
<1>4. ASSUME NEW w \in DcacheWays, Dirty(w, line)
      PROVE  Dirty(w, line)' \/ \E k \in Ids : WritebackOf(k, line)'
  BY <1>2, <1>4 DEF Dirty, WritebackOf
<1>5. InL1(line) => InL1(line)'
  BY DEF InL1, DcacheFill
<1>6. ASSUME NEW j \in Ids, Carries(j, line)
      PROVE  Carries(j, line)' \/ \E w \in DcacheWays : Dirty(w, line)'
  BY <1>1, <1>2, <1>6 DEF Carries, Dirty
<1>7. ASSUME NEW j \in Ids, WritebackOf(j, line)
      PROVE  WritebackOf(j, line)'
  BY <1>1, <1>3, <1>7 DEF WritebackOf
<1>8. QED
  BY <1>4, <1>5, <1>6, <1>7 DEF StoresKept

LEMMA StoresNext ==
  ASSUME IInv, [Next]_vars, NEW line \in Lines
  PROVE  StoresKept(line)
<1>1. CASE \E o \in Ops : Issue(o)
  <2>1. PICK o \in Ops : Issue(o)
    BY <1>1
  <2>2. PICK t \in OpTypes, at \in Lines, off \in {FALSE, OffPathOps},
             u \in Unused(o) :
          LET a == [state |-> "OS_WAIT_MEM", mem_type |-> t, va |-> at,
                    off_path |-> off, unique_num |-> u]
          IN  Access(o, a) \/ Denied(o, a)
    BY <2>1 DEF Issue
  <2> DEFINE a == [state |-> "OS_WAIT_MEM", mem_type |-> t, va |-> at,
                   off_path |-> off, unique_num |-> u]
  <2>3. a \in Op
    BY CoreAssumption DEF Op, Unused
  <2>4. Access(o, a) \/ Denied(o, a)
    BY <2>2
  <2> HIDE DEF a
  <2>5. QED
    BY <2>3, <2>4, StoresAccess
<1>2. CASE \E o \in Ops : Retry(o)
  BY <1>2, StoresAccess, ActiveOps DEF Retry, IInv
<1>3. CASE \E at \in Fetches : IcacheFetch(at)
  <2>1. PICK at \in Fetches : IcacheFetch(at)
    BY <1>3
  <2>2. Asked("IFETCH", at, {}, FALSE, "icache", FALSE)
    BY CoreAssumption DEF Asked, Demands
  <2>3. QED
    BY <2>1, <2>2, StoresAsked DEF IcacheFetch
<1>4. CASE \E at \in Prefetches : Prefetch(at)
  <2>1. PICK at \in Prefetches : Prefetch(at)
    BY <1>4
  <2>2. Asked("DPRF", at, {}, FALSE, "NULL", TRUE)
    BY CoreAssumption DEF Asked
  <2>3. QED
    BY <2>1, <2>2, StoresAsked DEF Prefetch
<1>5. CASE UNCHANGED <<dcache, req, l1>>
  BY <1>5, StoresTakes DEF Dirty
<1>6. CASE \E i \in Ids : DcacheFill(i)
  BY <1>6, StoresFill
<1>7. CASE \E i \in Ids : IcacheFill(i)
  <2>1. PICK i \in Ids : IcacheFill(i)
    BY <1>7
  <2>2. /\ RequestOK(req[i]) /\ req[i].type # "WB"
        /\ req[i].done_func = "icache"
    BY <2>1, CoreFillFacts DEF IcacheFill, IInv
  <2>3. ~ req[i].dirty_l0
    BY <2>2 DEF RequestOK
  <2>4. \A j \in Ids \ {i} : req'[j] = req[j]
    BY <2>1 DEF IcacheFill, Freed, IInv, MemInv, RequestsInv
  <2>5. ASSUME NEW j \in Ids
        PROVE  /\ Carries(j, line) => Carries(j, line)'
               /\ WritebackOf(j, line) => WritebackOf(j, line)'
    BY <2>2, <2>3, <2>4 DEF Carries, WritebackOf
  <2>6. UNCHANGED <<dcache, l1>>
    BY <2>1 DEF IcacheFill
  <2>7. QED
    BY <2>5, <2>6 DEF StoresKept, Dirty, InL1
<1>8. CASE MemStep /\ UNCHANGED <<dcache, op, ic>>
  BY <1>8, StoresMemStep
<1>9. QED
  BY <1>1, <1>2, <1>3, <1>4, <1>5, <1>6, <1>7, <1>8
  DEF Next, CoreStep, Recover, vars, memVars

\* No store is lost: dirty_l0 of the request, the dirty bits of both caches
\* and the writebacks between them hand each store on, up to ramulator_send.
THEOREM StoresAreKept == Spec => StoresReachMemory
<1>1. ASSUME IInv, [Next]_vars, NEW line \in Lines, Modified(line)
      PROVE  Modified(line)' \/ writeq' = Append(writeq, line)
  BY <1>1, NextIInv, StoresNext, StoresKeptMean
<1>2. IInv /\ [Next]_vars =>
        [\A line \in Lines :
           Modified(line) =>
             Modified(line)' \/ writeq' = Append(writeq, line)]_vars
  BY <1>1
<1>3. QED
  BY <1>2, Invariance, PTL DEF Spec, StoresReachMemory

-----------------------------------------------------------------------------
(***************************************************************************)
(* The memory keeps the service's promises, but for the one that a wait    *)
(* ends                                                                    *)
(***************************************************************************)
ServiceUnchanged == UNCHANGED <<waitsBar, revocableBar, presentBar>>

LEMMA PresentIs ==
  ASSUME DcacheInv
  PROVE  presentBar = {line \in Lines :
           \E w \in DcacheWays : dcache[w].valid /\ dcache[w].line = line}
BY DEF presentBar, Hit, Holding, DcacheInv

\* An op that is not waiting for a miss, and is not after the step.
LEMMA ServiceOther ==
  ASSUME CoreInv, NEW o \in Ops, o \notin Missing,
         op'[o] = NoOp \/ op'[o].state # "OS_MISS",
         \A p \in Ops \ {o} : op'[p] = op[p],
         presentBar' = presentBar
  PROVE  ServiceUnchanged
<1>1. Missing' = Missing /\ \A p \in Missing : op'[p] = op[p]
  BY DEF Missing, Active
<1>2. QED
  BY <1>1 DEF ServiceUnchanged, waitsBar, revocableBar

LEMMA ServiceAccess ==
  ASSUME IInv, IInv', NEW o \in Ops, o \notin Missing,
         NEW a \in Op, a.state = "OS_WAIT_MEM",
         Access(o, a) \/ Denied(o, a)
  PROVE  Abstract!ServiceNext \/ ServiceUnchanged
<1>1. op \in [Ops -> Op \cup {NoOp}] /\ a.va \in Lines
  BY DEF IInv, CoreInv, Op
<1>2. \A p \in Ops \ {o} : op'[p] = op[p]
  BY <1>1 DEF Access, Denied, DcacheHit, Forwarded, DcacheMiss
<1>3. presentBar' = presentBar
  <2>1. CASE DcacheHit(o, a)
    <3> DEFINE way == HitWay(dcache, a.va)
    <3>1. dcache' = IF Modifies(a)
                    THEN [dcache EXCEPT ![way].dirty = TRUE] ELSE dcache
      BY <2>1 DEF DcacheHit
    <3> HIDE DEF way
    <3>2. \A w \in DcacheWays : /\ dcache'[w].valid = dcache[w].valid
                                /\ dcache'[w].line = dcache[w].line
      BY <3>1 DEF IInv, DcacheInv, Line
    <3>3. presentBar' = {line \in Lines :
            \E w \in DcacheWays : dcache'[w].valid /\ dcache'[w].line = line}
      BY DEF presentBar, Hit, Holding, DcacheInv, IInv
    <3>4. QED
      BY <3>2, <3>3, PresentIs DEF IInv
  <2>2. CASE UNCHANGED dcache
    BY <2>2 DEF presentBar
  <2>3. QED
    BY <2>1, <2>2 DEF Access, Denied, Forwarded, DcacheMiss
<1>4. CASE DcacheMiss(o, a) /\ Blocks(a)
  <2>1. /\ op'[o] = [a EXCEPT !.state = "OS_MISS"] /\ op'[o] # NoOp
        /\ op'[o].state = "OS_MISS" /\ op'[o].va = a.va
    BY <1>1, <1>4 DEF DcacheMiss, Op, NoOp
  <2>2. /\ Missing' = Missing \cup {o}
        /\ \A p \in Missing : op'[p] = op[p]
    <3>1. /\ Missing' \subseteq Ops /\ Missing \subseteq Ops
          /\ \A p \in Ops :
               /\ p \in Missing' <=> op'[p] # NoOp /\ op'[p].state = "OS_MISS"
               /\ p \in Missing <=> op[p] # NoOp /\ op[p].state = "OS_MISS"
      BY DEF Missing, Active
    <3> HIDE DEF Missing
    <3>2. \A p \in Missing : p # o /\ op'[p] = op[p]
      BY <1>2, <3>1
    <3>3. o \in Missing' /\ \A p \in Ops : p # o => (p \in Missing' <=> p \in Missing)
      BY <1>2, <2>1, <3>1
    <3>4. QED
      BY <3>1, <3>2, <3>3
  <2>3. waitsBar' = [waitsBar EXCEPT ![o] = a.va]
    BY <1>2, <2>1, <2>2 DEF waitsBar
  <2>4. revocableBar' \in {revocableBar, revocableBar \cup {o}}
    BY <2>2 DEF revocableBar
  <2>5. o \notin Abstract!Waiting
    BY DEF Abstract!Waiting, waitsBar
  <2>6. Abstract!Ask(o, a.va)
    BY <1>3, <2>3, <2>4, <2>5 DEF Abstract!Ask
  <2>7. QED
    BY <1>1, <2>6 DEF Abstract!ServiceNext
<1>5. CASE ~ (DcacheMiss(o, a) /\ Blocks(a))
  <2>1. op'[o] = NoOp \/ op'[o].state # "OS_MISS"
    BY <1>1, <1>5 DEF Access, Denied, DcacheHit, Forwarded, DcacheMiss
  <2>2. QED
    BY <1>2, <1>3, <2>1, ServiceOther DEF IInv
<1>6. QED
  BY <1>4, <1>5

\* Every op a fill wakes waits for its line.
LEMMA WokenWait ==
  ASSUME IInv, NEW i \in Ids, NEW o \in Woken(i)
  PROVE  o \in Missing /\ op[o].va = req[i].addr
<1>1. o \in Active /\ Remembers(i, o)
  BY DEF Woken, Remembers
<1>2. op[o].state \in {"OS_MISS", "OS_WAIT_MEM"}
  BY <1>1, ActiveOps DEF IInv, Op
<1>3. Waits(o)
  BY <1>1 DEF IInv, OpsInv
<1>4. op[o].state = "OS_MISS"
  BY <1>1, <1>2, <1>3 DEF Waits
<1>5. QED
  BY <1>1, <1>3, <1>4 DEF Missing, Waits, Serves

LEMMA ServiceFill ==
  ASSUME IInv, IInv', NEW i \in Ids, DcacheFill(i)
  PROVE  Abstract!ServiceNext
<1> DEFINE line == req[i].addr
           served == Woken(i)
<1>1. line \in Lines
  BY CoreFillFacts DEF DcacheFill, IInv
<1>2. op' = [o \in Ops |-> IF o \in served THEN NoOp ELSE op[o]]
  BY DEF DcacheFill
<1>3. served \subseteq Missing /\ \A o \in served : op[o].va = line
  BY WokenWait
<1>4. served \subseteq Ops
  BY <1>3 DEF Missing, Active
<1> HIDE DEF served
<1>5. Missing' = Missing \ served /\ \A o \in Missing' : op'[o] = op[o]
  BY <1>2, <1>3 DEF Missing, Active, NoOp
<1>6. \A o \in served : waitsBar[o] = line
  BY <1>3, <1>4 DEF waitsBar
<1>7. waitsBar' = Abstract!Released(served)
  <2>1. Abstract!Released(served) =
          [o \in Ops |-> IF o \in served THEN NoLine ELSE waitsBar[o]]
    BY DEF Abstract!Released
  <2>2. waitsBar' = [o \in Ops |-> IF o \in Missing' THEN op'[o].va
                                   ELSE NoLine]
    BY DEF waitsBar
  <2>3. ASSUME NEW o \in Ops
        PROVE  (IF o \in Missing' THEN op'[o].va ELSE NoLine)
                 = IF o \in served THEN NoLine ELSE waitsBar[o]
    BY <1>5 DEF waitsBar
  <2>4. QED
    BY <2>1, <2>2, <2>3
<1>8. revocableBar' = revocableBar \ served
  BY <1>5 DEF revocableBar
<1>9. line \in presentBar' /\ presentBar' \subseteq presentBar \cup {line}
  <2>1. PICK way \in DcacheWays :
          /\ \A w \in DcacheWays \ {way} : dcache'[w] = dcache[w]
          /\ dcache'[way] = [valid |-> TRUE, line |-> line,
                             dirty |-> req[i].dirty_l0]
    BY DcacheFillFacts DEF IInv
  <2>2. presentBar' = {x \in Lines :
          \E w \in DcacheWays : dcache'[w].valid /\ dcache'[w].line = x}
    BY DEF presentBar, Hit, Holding, DcacheInv, IInv
  <2>3. QED
    BY <1>1, <2>1, <2>2, PresentIs DEF IInv
<1> HIDE DEF line
<1>10. Abstract!Arrive(line, served)
  BY <1>6, <1>7, <1>8, <1>9 DEF Abstract!Arrive
<1>11. QED
  BY <1>1, <1>4, <1>10 DEF Abstract!ServiceNext

LEMMA ServiceRecover ==
  ASSUME IInv, NEW flushed \in SUBSET Ops, Recover(flushed)
  PROVE  Abstract!ServiceNext
<1> DEFINE sent == flushed \cap Missing
<1>1. /\ op' = [o \in Ops |-> IF o \in flushed THEN NoOp ELSE op[o]]
      /\ \A o \in flushed : op[o].off_path
      /\ dcache' = dcache
  BY DEF Recover
<1>2. Missing' = Missing \ sent /\ \A o \in Missing' : op'[o] = op[o]
  BY <1>1 DEF Missing, Active, NoOp
<1>3. sent \subseteq revocableBar /\ sent \subseteq Ops
  BY <1>1 DEF revocableBar
<1>4. waitsBar' = Abstract!Released(sent)
  <2> HIDE DEF sent
  <2>1. Abstract!Released(sent) =
          [o \in Ops |-> IF o \in sent THEN NoLine ELSE waitsBar[o]]
    BY DEF Abstract!Released
  <2>2. waitsBar' = [o \in Ops |-> IF o \in Missing' THEN op'[o].va
                                   ELSE NoLine]
    BY DEF waitsBar
  <2>3. ASSUME NEW o \in Ops
        PROVE  (IF o \in Missing' THEN op'[o].va ELSE NoLine)
                 = IF o \in sent THEN NoLine ELSE waitsBar[o]
    BY <1>2 DEF waitsBar
  <2>4. QED
    BY <2>1, <2>2, <2>3
<1>5. revocableBar' = revocableBar \ sent
  BY <1>2 DEF revocableBar
<1>6. presentBar' = presentBar
  BY <1>1 DEF presentBar
<1> HIDE DEF sent
<1>7. Abstract!Revoke(sent)
  BY <1>3, <1>4, <1>5, <1>6 DEF Abstract!Revoke
<1>8. QED
  BY <1>3, <1>7 DEF Abstract!ServiceNext

LEMMA ServiceStep ==
  ASSUME IInv, IInv', [Next]_vars
  PROVE  Abstract!ServiceNext \/ ServiceUnchanged
<1>1. CASE \E o \in Ops : Issue(o)
  <2>1. PICK o \in Ops : Issue(o)
    BY <1>1
  <2>2. PICK t \in OpTypes, at \in Lines, off \in {FALSE, OffPathOps},
             u \in Unused(o) :
          LET a == [state |-> "OS_WAIT_MEM", mem_type |-> t, va |-> at,
                    off_path |-> off, unique_num |-> u]
          IN  Access(o, a) \/ Denied(o, a)
    BY <2>1 DEF Issue
  <2> DEFINE a == [state |-> "OS_WAIT_MEM", mem_type |-> t, va |-> at,
                   off_path |-> off, unique_num |-> u]
  <2>3. a \in Op /\ a.state = "OS_WAIT_MEM"
    BY CoreAssumption DEF Op, Unused
  <2>4. Access(o, a) \/ Denied(o, a)
    BY <2>2
  <2>5. o \notin Missing
    BY <2>1 DEF Issue, Missing
  <2> HIDE DEF a
  <2>6. QED
    BY <2>3, <2>4, <2>5, ServiceAccess
<1>2. CASE \E o \in Ops : Retry(o)
  <2>1. PICK o \in Ops : Retry(o)
    BY <1>2
  <2>2. /\ o \in Active /\ op[o].state = "OS_WAIT_MEM" /\ op[o] \in Op
        /\ Access(o, op[o]) /\ o \notin Missing
    BY <2>1, ActiveOps DEF Retry, IInv, Missing
  <2>3. QED
    BY <2>2, ServiceAccess
<1>3. CASE \E flushed \in SUBSET Ops : Recover(flushed)
  BY <1>3, ServiceRecover
<1>4. CASE \E i \in Ids : DcacheFill(i)
  BY <1>4, ServiceFill
<1>5. CASE UNCHANGED <<dcache, op>>
  BY <1>5
  DEF ServiceUnchanged, waitsBar, revocableBar, presentBar, Missing, Active
<1>6. QED
  BY <1>1, <1>2, <1>3, <1>4, <1>5
  DEF Next, CoreStep, IcacheFetch, Prefetch, IcacheFill, vars

\* Whatever a miss goes through, the core sees a service: it asks, the line
\* arrives and ends waits for it and no others, or a recovery sends an op
\* off the path away.
THEOREM MemoryImplementsService == Spec => Abstract!ServiceSafety
<1>1. Init => Abstract!ServiceInit
  <2> SUFFICES ASSUME Init
               PROVE  Abstract!ServiceInit
    OBVIOUS
  <2>1. Active = {} /\ Missing = {}
    BY DEF Init, Active, Missing
  <2>2. presentBar = {}
    BY InitIInv, PresentIs DEF IInv, Init
  <2>3. QED
    BY <2>1, <2>2 DEF Abstract!ServiceInit, waitsBar, revocableBar
<1>2. IInv /\ [Next]_vars => [Abstract!ServiceNext]_(Abstract!svars)
  BY NextIInv, ServiceStep DEF ServiceUnchanged, Abstract!svars
<1>3. QED
  BY <1>1, <1>2, Invariance, PTL DEF Spec, Abstract!ServiceSafety

-----------------------------------------------------------------------------
(***************************************************************************)
(* The valve of mem_can_allocate_req_buffer: some request can always go on *)
(***************************************************************************)
NoWriteback == {i \in Live : req[i].type # "WB"}

\* A buffer is left for a writeback of the L1, and WBValve of them for
\* writebacks of both caches.
Valve ==
  /\ Used < Entries
  /\ NoWriteback # {} => Cardinality(NoWriteback) + WBValve =< Entries

\* Buffer j is not taken in this step, and no writeback becomes another request.
NotTaken(j) ==
  req'[j].state # "INV" =>
    /\ req[j].state # "INV"
    /\ req'[j].type # "WB" => req[j].type # "WB"

\* At most one buffer is taken, through mem_can_allocate_req_buffer.
OneTaken ==
  \/ \A j \in Ids : NotTaken(j)
  \/ \E i \in Ids, type \in Types :
       /\ CanAllocate(type, FALSE)
       /\ type = "WB" => req'[i].type = "WB"
       /\ \A j \in Ids \ {i} : NotTaken(j)

LEMMA BuffersFinite ==
  /\ IsFiniteSet(Live) /\ Used \in Nat /\ Entries \in Nat \ {0} /\ WBValve \in Nat
  /\ IsFiniteSet(NoWriteback) /\ Cardinality(NoWriteback) \in Nat
  /\ Cardinality(NoWriteback) =< Used
<1>1. IsFiniteSet(Ids) /\ Entries \in Nat \ {0} /\ WBValve \in Nat
  BY MemoryAssumption, FS_Interval
<1>2. Live \in SUBSET Ids /\ NoWriteback \in SUBSET Live
  BY DEF Live, NoWriteback
<1>3. IsFiniteSet(Live)
  BY <1>1, <1>2, FS_Subset
<1>4. IsFiniteSet(NoWriteback) /\ Cardinality(NoWriteback) =< Cardinality(Live)
  BY <1>2, <1>3, FS_Subset
<1>5. QED
  BY <1>1, <1>3, <1>4, FS_CardinalityType DEF Used

\* The valve holds whichever buffers are given back and whoever takes one.
LEMMA ValveHolds ==
  ASSUME Valve, OneTaken
  PROVE  Valve'
<1>1. /\ IsFiniteSet(Live) /\ IsFiniteSet(NoWriteback)
      /\ Used \in Nat /\ Entries \in Nat \ {0} /\ WBValve \in Nat
      /\ Cardinality(NoWriteback) \in Nat /\ Cardinality(NoWriteback) =< Used
      /\ Used = Cardinality(Live)
  BY BuffersFinite DEF Used
<1>2. Used' = Cardinality(Live')
  BY DEF Used
<1>3. CASE \A j \in Ids : NotTaken(j)
  <2>1. Live' \in SUBSET Live /\ NoWriteback' \in SUBSET NoWriteback
    BY <1>3 DEF NotTaken, Live, NoWriteback
  <2>2. /\ IsFiniteSet(Live') /\ Cardinality(Live') =< Cardinality(Live)
        /\ IsFiniteSet(NoWriteback')
        /\ Cardinality(NoWriteback') =< Cardinality(NoWriteback)
    BY <1>1, <2>1, FS_Subset
  <2>3. Cardinality(Live') \in Nat /\ Cardinality(NoWriteback') \in Nat
    BY <2>2, FS_CardinalityType
  <2>4. NoWriteback' # {} => NoWriteback # {}
    BY <2>1
  <2>5. QED
    BY <1>1, <1>2, <2>2, <2>3, <2>4 DEF Valve
<1>4. CASE ~ \A j \in Ids : NotTaken(j)
  <2>1. PICK i \in Ids, type \in Types :
          /\ CanAllocate(type, FALSE)
          /\ type = "WB" => req'[i].type = "WB"
          /\ \A j \in Ids \ {i} : NotTaken(j)
    BY <1>4 DEF OneTaken
  <2>2. Live' \in SUBSET (Live \cup {i})
    BY <2>1 DEF NotTaken, Live
  <2>3. /\ IsFiniteSet(Live \cup {i}) /\ Cardinality(Live \cup {i}) =< Used + 1
        /\ Cardinality(Live \cup {i}) \in Nat
    <3>1. /\ IsFiniteSet(Live \cup {i})
          /\ Cardinality(Live \cup {i}) = IF i \in Live THEN Cardinality(Live)
                                         ELSE Cardinality(Live) + 1
      BY <1>1, FS_AddElement
    <3>2. Used = Cardinality(Live)
      BY DEF Used
    <3>3. QED
      BY <1>1, <3>1, <3>2
  <2>4. /\ IsFiniteSet(Live') /\ Cardinality(Live') =< Cardinality(Live \cup {i})
        /\ Cardinality(Live') \in Nat
    BY <2>2, <2>3, FS_Subset, FS_CardinalityType
  <2>5. Used' \in Nat /\ Used' =< Used + 1
    BY <1>1, <1>2, <2>3, <2>4
  <2>6. Used' < Entries
    BY <1>1, <2>1, <2>5 DEF CanAllocate
  <2>7. NoWriteback' \in SUBSET Live'
    BY DEF NoWriteback
  <2>8. /\ Cardinality(NoWriteback') =< Used' /\ IsFiniteSet(NoWriteback')
        /\ Cardinality(NoWriteback') \in Nat
    BY <1>2, <2>4, <2>7, FS_Subset, FS_CardinalityType
  <2>9. CASE type # "WB"
    <3>1. Used + WBValve < Entries
      BY <2>1, <2>9 DEF CanAllocate
    <3>2. QED
      BY <1>1, <2>5, <2>6, <2>8, <3>1 DEF Valve
  <2>10. CASE type = "WB"
    <3>1. NoWriteback' \in SUBSET NoWriteback
      BY <2>1, <2>10 DEF NotTaken, Live, NoWriteback
    <3>2. Cardinality(NoWriteback') =< Cardinality(NoWriteback)
      BY <1>1, <3>1, FS_Subset
    <3>3. NoWriteback' # {} => NoWriteback # {}
      BY <3>1
    <3>4. QED
      BY <1>1, <2>6, <2>8, <3>2, <3>3 DEF Valve
  <2>11. QED
    BY <2>9, <2>10
<1>5. QED
  BY <1>3, <1>4

LEMMA AskedTakes ==
  ASSUME IInv, NEW type, NEW at, NEW ops, NEW store, NEW done,
         NEW prefetcher, Asked(type, at, ops, store, done, prefetcher),
         NewMemReq(type, at, ops, store, done, prefetcher)
  PROVE  OneTaken
<1>1. PICK i \in Ids : Takes(i, type, at, ops, store)
  BY NewMemReqTakes DEF IInv
<1>2. type \in Types /\ type # "WB"
  BY DEF Asked, Types, Demands
<1>3. \A j \in Ids \ {i} : NotTaken(j)
  BY <1>1 DEF Takes, NotTaken
<1>4. CASE req[i].state = "INV"
  <2>1. Matching(at, type) = {}
    BY <1>1, <1>4 DEF Takes
  <2>2. CanAllocate(type, FALSE)
    BY <2>1 DEF NewMemReq, Accepts
  <2>3. QED
    BY <1>2, <1>3, <2>2 DEF OneTaken
<1>5. CASE req[i].state # "INV"
  <2>1. NotTaken(i)
    BY <1>1, <1>5 DEF Takes, NotTaken
  <2>2. QED
    BY <1>3, <2>1 DEF OneTaken
<1>6. QED
  BY <1>4, <1>5

LEMMA AccessTakes ==
  ASSUME IInv, NEW o \in Ops, NEW a \in Op, Access(o, a) \/ Denied(o, a)
  PROVE  OneTaken
<1>1. CASE DcacheMiss(o, a)
  <2>1. Asked(MissType(a.mem_type), a.va, {<<o, a.unique_num>>}, Modifies(a),
              "dcache", FALSE)
    <3>1. /\ a.mem_type \in OpTypes /\ a.va \in Lines
          /\ a.unique_num \in 1 .. MaxUnique /\ a.off_path \in BOOLEAN
      BY DEF Op
    <3>2. QED
      BY <3>1, CoreAssumption DEF Asked, MissType, Modifies, Demands
  <2>2. QED
    BY <1>1, <2>1, AskedTakes DEF DcacheMiss
<1>2. CASE UNCHANGED req
  BY <1>2 DEF OneTaken, NotTaken
<1>3. QED
  BY <1>1, <1>2 DEF Access, DcacheHit, Forwarded, Denied, memVars

\* The writeback of a fill takes a buffer before the fill gives its own back.
LEMMA FillTakes ==
  ASSUME IInv, NEW i \in Ids, DcacheFill(i)
  PROVE  OneTaken
<1>1. PICK way \in Replaceable(dcache) :
        LET dirty == dcache[way].valid /\ dcache[way].dirty
        IN  /\ dirty => WritebackAccepted(dcache[way].line)
            /\ req' = Freed(IF dirty THEN AfterWriteback(dcache[way].line)
                            ELSE req, i)
  BY DEF DcacheFill
<1>2. PICK line : line = dcache[way].line
  OBVIOUS
<1>3. req \in [Ids -> Request] /\ FreeBuffer.state = "INV"
  BY DEF IInv, MemInv, RequestsInv, FreeBuffer
<1>4. CASE req' = Freed(req, i)
  BY <1>3, <1>4 DEF Freed, OneTaken, NotTaken
<1>5. CASE /\ WritebackAccepted(line) /\ ~ WritebackQueued(line)
           /\ req' = Freed(AfterWriteback(line), i)
  <2>1. PICK s : s = NewRequest("WB", line, {}, FALSE, "NULL", FALSE)
    OBVIOUS
  <2>2. s.type = "WB"
    BY <2>1 DEF NewRequest
  <2>3. CanAllocate("WB", FALSE)
    BY <1>5 DEF WritebackAccepted
  <2>4. PICK k : k = NewId
    OBVIOUS
  <2>5. k \in Ids
    BY <2>3, <2>4, NewIdFree DEF CanAllocate
  <2>6. req' = [[req EXCEPT ![k] = s] EXCEPT ![i] = FreeBuffer]
    BY <1>5, <2>1, <2>4 DEF AfterWriteback, Freed
  <2>7. CASE k = i
    BY <1>3, <2>6, <2>7 DEF OneTaken, NotTaken
  <2>8. CASE k # i
    <3>1. req'[k].type = "WB" /\ \A j \in Ids \ {k} : NotTaken(j)
      BY <1>3, <2>2, <2>5, <2>6, <2>8 DEF NotTaken
    <3>2. "WB" \in Types
      BY DEF Types
    <3>3. QED
      BY <2>3, <2>5, <3>1, <3>2 DEF OneTaken
  <2>9. QED
    BY <2>7, <2>8
<1>6. QED
  BY <1>1, <1>2, <1>4, <1>5 DEF AfterWriteback

LEMMA NextTakes ==
  ASSUME IInv, [Next]_vars
  PROVE  OneTaken
<1>1. CASE \E o \in Ops : Issue(o)
  <2>1. PICK o \in Ops : Issue(o)
    BY <1>1
  <2>2. PICK t \in OpTypes, at \in Lines, off \in {FALSE, OffPathOps},
             u \in Unused(o) :
          LET a == [state |-> "OS_WAIT_MEM", mem_type |-> t, va |-> at,
                    off_path |-> off, unique_num |-> u]
          IN  Access(o, a) \/ Denied(o, a)
    BY <2>1 DEF Issue
  <2> DEFINE a == [state |-> "OS_WAIT_MEM", mem_type |-> t, va |-> at,
                   off_path |-> off, unique_num |-> u]
  <2>3. a \in Op
    BY CoreAssumption DEF Op, Unused
  <2>4. Access(o, a) \/ Denied(o, a)
    BY <2>2
  <2> HIDE DEF a
  <2>5. QED
    BY <2>3, <2>4, AccessTakes
<1>2. CASE \E o \in Ops : Retry(o)
  BY <1>2, AccessTakes, ActiveOps DEF Retry, IInv
<1>3. CASE \E at \in Fetches : IcacheFetch(at)
  <2>1. PICK at \in Fetches : IcacheFetch(at)
    BY <1>3
  <2>2. Asked("IFETCH", at, {}, FALSE, "icache", FALSE)
    BY CoreAssumption DEF Asked, Demands
  <2>3. QED
    BY <2>1, <2>2, AskedTakes DEF IcacheFetch
<1>4. CASE \E at \in Prefetches : Prefetch(at)
  <2>1. PICK at \in Prefetches : Prefetch(at)
    BY <1>4
  <2>2. Asked("DPRF", at, {}, FALSE, "NULL", TRUE)
    BY CoreAssumption DEF Asked
  <2>3. QED
    BY <2>1, <2>2, AskedTakes DEF Prefetch
<1>5. CASE UNCHANGED req
  BY <1>5 DEF OneTaken, NotTaken
<1>6. CASE \E i \in Ids : DcacheFill(i)
  BY <1>6, FillTakes
<1>7. CASE \E i \in Ids : IcacheFill(i)
  <2>1. PICK i \in Ids : req' = [req EXCEPT ![i] = FreeBuffer]
    BY <1>7 DEF IcacheFill, Freed
  <2>2. req \in [Ids -> Request] /\ FreeBuffer.state = "INV"
    BY DEF IInv, MemInv, RequestsInv, FreeBuffer
  <2>3. QED
    BY <2>1, <2>2 DEF OneTaken, NotTaken
<1>8. CASE MemStep /\ UNCHANGED <<dcache, op, ic>>
  <2>1. \A j \in Ids : Advances(req[j], req'[j])
    BY <1>8, MemStepKeeps DEF IInv, MemKeeps
  <2>2. \A j \in Ids : NotTaken(j)
    BY <2>1 DEF Advances, NotTaken, FreeBuffer
  <2>3. QED
    BY <2>2 DEF OneTaken
<1>9. QED
  BY <1>1, <1>2, <1>3, <1>4, <1>5, <1>6, <1>7, <1>8
  DEF Next, CoreStep, Recover, vars, memVars

LEMMA InitValve ==
  ASSUME Init
  PROVE  Valve
<1>1. Live = {} /\ NoWriteback = {}
  BY DEF Init, MemInit, Live, NoWriteback, FreeBuffer
<1>2. Used = 0
  BY <1>1, FS_EmptySet DEF Used
<1>3. QED
  BY <1>1, <1>2, MemoryAssumption DEF Valve

\* A controller with nothing to do has room for a write, and no reads.
LEMMA IdleController ==
  ASSUME DramInv, ~ CanServe, LowMark >= 1
  PROVE  WriteAccepted /\ readq = {} /\ pending = {}
<1>1. /\ Len(writeq) \in Nat /\ (writeq = <<>> => Len(writeq) = 0)
      /\ write_mode \in BOOLEAN /\ NextMode \in BOOLEAN
  BY DEF DramInv, NextMode
<1>2. /\ WriteMax \in Nat \ {0} /\ HighMark \in 0 .. WriteMax - 1
      /\ LowMark \in Nat
  BY QueuesAssumption
<1>3. pending = {} /\ (NextMode <=> write_mode)
  BY <1>1 DEF CanServe
<1>4. CASE write_mode
  <2>1. writeq = <<>>
    BY <1>3, <1>4 DEF CanServe
  <2>2. ~ (Len(writeq) < LowMark /\ readq # {})
    BY <1>3, <1>4 DEF NextMode
  <2>3. QED
    BY <1>1, <1>2, <1>3, <2>1, <2>2 DEF WriteAccepted
<1>5. CASE ~ write_mode
  <2>1. readq = {}
    BY <1>3, <1>5 DEF CanServe
  <2>2. ~ (Len(writeq) > HighMark)
    BY <1>3, <1>5 DEF NextMode
  <2>3. QED
    BY <1>1, <1>2, <1>3, <2>1, <2>2 DEF WriteAccepted
<1>6. QED
  BY <1>4, <1>5

\* Replaceable names a way of every set.
LEMMA SomeWay ==
  ASSUME NEW set, DOMAIN set \subseteq Nat, DOMAIN set # {}
  PROVE  Replaceable(set) # {}
BY DEF Replaceable

\* Who would have to wait for whom: every request that is left waits in the core's
\* fill queue for a buffer, and the valve has kept one for it.
LEMMA SomeoneMoves ==
  ASSUME MemInv, DcacheInv, Valve, WBValve >= 2, LowMark >= 1
  PROVE  NeverWedged
<1> SUFFICES ASSUME Live # {}, \A i \in Ids : ~ CanMove(i), ~ CanAnswer,
                    ~ CanServe
             PROVE  FALSE
  BY DEF NeverWedged
<1>1. WriteAccepted /\ readq = {} /\ pending = {}
  BY IdleController DEF MemInv
<1>2. RoomInL1
  <2>1. DOMAIN l1 \subseteq Nat /\ DOMAIN l1 # {}
    BY MemoryAssumption DEF MemInv, L1Inv
  <2>2. PICK way : way \in Replaceable(l1)
    BY <2>1, SomeWay
  <2>3. CanAllocate("WB", TRUE)
    BY DEF CanAllocate, Valve
  <2>4. QED
    BY <1>1, <2>2, <2>3 DEF RoomInL1
<1>3. \A line : ReadAccepted(line)
  BY <1>1, FS_EmptySet, QueuesAssumption DEF ReadAccepted
<1>4. ASSUME NEW i \in Ids
      PROVE  /\ req[i].state \in States /\ req[i].queue \in QueuesOf(req[i].state)
             /\ RequestOK(req[i]) /\ req[i] \in Request
  BY DEF MemInv, RequestsInv, RequestOK, Request
<1>5. ASSUME NEW i \in Ids
      PROVE  req[i].queue # "L1FILL"
  <2> SUFFICES ASSUME req[i].queue = "L1FILL"
               PROVE  FALSE
    OBVIOUS
  <2>1. req[i].state \in {"FILL_L1", "FILL_DONE"}
    BY <1>4 DEF QueuesOf, States
  <2>2. QED
    BY <1>2, <2>1 DEF CanMove
<1>6. resp = <<>>
  <2>1. In("L1FILL") = {}
    BY <1>5 DEF In
  <2>2. Cardinality(In("L1FILL")) = 0
    BY <2>1, FS_EmptySet
  <2>3. Cardinality(In("L1FILL")) < L1FillEntries
    BY <2>2, MemoryAssumption
  <2>4. QED
    BY <2>3 DEF CanAnswer
<1>7. ASSUME NEW i \in Ids
      PROVE  req[i].state # "MEM_NEW"
  <2> SUFFICES ASSUME req[i].state = "MEM_NEW"
               PROVE  FALSE
    OBVIOUS
  <2>1. /\ req[i].addr \in Lines
        /\ inflight \in [Lines -> Seq(Ids)] /\ resp = <<>>
        /\ \/ \E k \in DOMAIN inflight[req[i].addr] :
                inflight[req[i].addr][k] = i
           \/ \E m \in DOMAIN resp : resp[m] = i
    BY <1>6 DEF MemInv, DramInv, ListsInv
  <2>2. inflight[req[i].addr] = <<>>
    BY <1>1, <2>1 DEF MemInv, DramInv, PlacesInv
  <2>3. QED
    BY <2>1, <2>2
<1>8. ASSUME NEW i \in Live
      PROVE  req[i].queue = "CORE_FILL" /\ req[i].type # "WB"
  <2>1. i \in Ids /\ req[i].state # "INV"
    BY DEF Live
  <2>2. req[i].state \notin {"L1_NEW", "L1_WAIT", "FILL_L1"}
    BY <1>2, <1>3, <2>1 DEF CanMove
  <2>3. req[i].state \in {"L1_HIT_DONE", "FILL_DONE"}
    BY <1>4, <1>7, <2>1, <2>2 DEF States
  <2>4. req[i].queue = "CORE_FILL"
    BY <1>4, <1>5, <2>1, <2>3 DEF QueuesOf
  <2>5. req[i].type # "WB"
    BY <1>4, <2>1, <2>3 DEF RequestOK
  <2>6. QED
    BY <2>4, <2>5
<1>9. NoWriteback = Live
  BY <1>8 DEF NoWriteback
<1>10. CanAllocate("WB", FALSE)
  <2>1. Used + WBValve =< Entries
    BY <1>9 DEF Valve, Used
  <2>2. Used \in Nat /\ Entries \in Nat /\ WBValve \in Nat
    BY BuffersFinite
  <2>3. QED
    BY <2>1, <2>2 DEF CanAllocate
<1>11. RoomInDcache
  <2>1. DOMAIN dcache \subseteq Nat /\ DOMAIN dcache # {}
    BY CoreAssumption DEF DcacheInv
  <2>2. PICK way : way \in Replaceable(dcache)
    BY <2>1, SomeWay
  <2>3. QED
    BY <1>10, <2>2 DEF RoomInDcache, WritebackAccepted
<1>12. PICK i \in Live : TRUE
  OBVIOUS
<1>13. i \in Ids /\ req[i].queue = "CORE_FILL"
  BY <1>8 DEF Live
<1>14. req[i].done_func \in {"dcache", "icache"}
  BY <1>4, <1>13 DEF RequestOK, Request
<1>15. QED
  BY <1>11, <1>13, <1>14 DEF CanMove

\* mem_can_allocate_req_buffer keeps the memory free of deadlock, whatever the
\* sizes of the caches, buffers and queues, if MEM_REQ_BUFFER_WB_VALVE is at least 2
\* (its default) and the low watermark of the write queue does not truncate to 0.
THEOREM DeadlockFree ==
  ASSUME WBValve >= 2, LowMark >= 1
  PROVE  Spec => []NeverWedged
<1>1. Init => Valve
  BY InitValve
<1>2. IInv /\ Valve /\ [Next]_vars => Valve'
  BY NextTakes, ValveHolds
<1>3. IInv /\ Valve => NeverWedged
  BY SomeoneMoves DEF IInv
<1>4. QED
  BY <1>1, <1>2, <1>3, Invariance, PTL DEF Spec
=============================================================================

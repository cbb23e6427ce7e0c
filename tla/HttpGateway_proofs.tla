-------------------------- MODULE HttpGateway_proofs --------------------------
(***************************************************************************)
(* Proofs about HttpGateway, for any threads, hosts and servers, and any   *)
(* number of calls and of requests per call: the types and the exchange of *)
(* the redirect tables, that a connection has one user, that nobody reads  *)
(* the answer to the request of another, and that no socket is forgotten.  *)
(***************************************************************************)
EXTENDS HttpGateway, SequenceTheorems, FiniteSetTheorems, TLAPS

-----------------------------------------------------------------------------
(* The invariant *)

Someone == Thread \cup {Nobody}
Connection ==
  [queue : Nat, open : BOOLEAN, resp : {"none", "live", "finished"}, by : Someone]
Pool == [host : Host, idle : Seq(Nat), all : SUBSET Nat, cleared : BOOLEAN]
ThreadState ==
  [pc : Pcs, url : Url \cup {NoUrl}, host : Host \cup {NoUrl}, at : Nat, conn : Nat,
   hops : 0..MaxHops, reply : Reply \cup {NoUrl}, got : Someone]

\* Whom the pools and connections belong to exists.
PoolInv ==
  /\ conn \in Seq(Connection) /\ queue \in Seq(Pool)
  /\ \A q \in Queues : queue[q].all \subseteq Conns
  /\ \A q \in Queues : \A i \in DOMAIN queue[q].idle : queue[q].idle[i] \in Conns
  /\ \A c \in Conns : conn[c].queue \in Queues
  /\ connections \in [Host -> 0..Len(queue)]

\* What a thread knows in each phase of open.
Routed == {"pull", "check", "send", "receive", "follow", "learn", "answer", "read"}
Busy == {"check", "send", "receive", "follow", "answer", "read"}
Knows(s) ==
  /\ s.pc # "idle" => s.url \in Url
  /\ s.pc \notin {"answer", "read"} => s.hops < MaxHops
  /\ s.pc = "pull" => s.at \in Queues
  /\ s.pc \in Routed \ {"answer", "read"} => s.host \in Host
  /\ s.pc \in Busy \cup {"learn"} => s.conn \in Conns
  /\ s.pc \in {"follow", "learn"} => s.reply \in Reply
  /\ s.pc = "learn" => s.reply.to \in Url
ThreadInv == th \in [Thread -> ThreadState] /\ \A t \in Thread : Knows(th[t])

\* A redirect leads from a url to a url, or from a host to a host.
Redirects(d) ==
  /\ DOMAIN d \subseteq Host \cup Url
  /\ \A x \in DOMAIN d : (x \in Url => d[x] \in Url) /\ (x \in Host => d[x] \in Host)

\* One thread at a time sweeps the redirects, and what it is about to swap in are
\* redirects of the right kind.
Sweeping == {"swapHosts", "fillUrls", "swapUrls", "cleaned"}
TableInv ==
  /\ urlTable \in 1..3 /\ hostTable \in 1..3 /\ swapTable \in 1..3
  /\ urlTable # hostTable /\ urlTable # swapTable /\ hostTable # swapTable
  /\ DOMAIN table = 1..3 /\ table = [i \in 1..3 |-> table[i]]
  /\ \A i \in 1..3 : Redirects(table[i])
  /\ DOMAIN table[urlTable] \subseteq Url /\ DOMAIN table[hostTable] \subseteq Host
  /\ cleaner \in Someone
  /\ \A t \in Thread :
       /\ th[t].pc \in Sweeping => cleaner = t
       /\ th[t].pc = "swapHosts" => DOMAIN table[swapTable] \subseteq Host
       /\ th[t].pc = "swapUrls" => DOMAIN table[swapTable] \subseteq Url

TypeInv ==
  /\ PoolInv /\ ThreadInv /\ TableInv
  /\ outOfService \in BOOLEAN /\ exhausted \in BOOLEAN
  /\ main = "serving" => ~outOfService

\* A connection that is used has one user and is in no pool; one that is not used
\* is in the pools once.
OneUser ==
  \A s, t \in Thread :
    th[s].pc \in Busy /\ th[t].pc \in Busy /\ th[s].conn = th[t].conn => s = t
UsedNotIdle ==
  \A t \in Thread, q \in Queues : th[t].pc \in Busy =>
    \A i \in DOMAIN queue[q].idle : queue[q].idle[i] # th[t].conn
IdleOnce ==
  \A q, r \in Queues : \A i \in DOMAIN queue[q].idle, j \in DOMAIN queue[r].idle :
    queue[q].idle[i] = queue[r].idle[j] => q = r /\ i = j

\* A response that can be read is the one to the last request of its user.
Answering == {"follow", "answer", "read"}
Answered ==
  \A t \in Thread :
    /\ th[t].pc \in Answering /\ conn[th[t].conn].resp = "live" => conn[th[t].conn].by = t
    /\ th[t].pc = "read" => th[t].got = t

OwnInv == OneUser /\ UsedNotIdle /\ IdleOnce /\ Answered

\* Until a cleanup only the user of a connection closes its response.
InUse(c) == \E t \in Thread : th[t].pc \in Busy /\ th[t].conn = c
InPool(c) == \E q \in Queues : \E i \in DOMAIN queue[q].idle : queue[q].idle[i] = c
StillLive == \A t \in Thread : th[t].pc \in Answering => conn[th[t].conn].resp = "live"
OpenIsKnown ==
  \A c \in Conns : conn[c].open => InUse(c) \/ InPool(c) \/ conn[c].resp = "live"
OpenInv == StillLive /\ OpenIsKnown

GatewayInv ==
  /\ TypeInv
  /\ ~exhausted => OwnInv
  /\ ~exhausted /\ main = "serving" => OpenInv

-----------------------------------------------------------------------------
(* What the operators of the gateway do *)

\* Sequences of connections and of pools.
LEMMA Entries ==
  ASSUME PoolInv
  PROVE  /\ Len(conn) \in Nat /\ Conns = 1..Len(conn) /\ \A c \in Conns : conn[c] \in Connection
         /\ Len(queue) \in Nat /\ Queues = 1..Len(queue) /\ \A q \in Queues : queue[q] \in Pool
  BY DEF PoolInv, Conns, Queues

\* A pool is a sequence: its positions are numbers.
LEMMA Idle ==
  ASSUME PoolInv, NEW q \in Queues
  PROVE  /\ queue[q].idle \in Seq(Nat) /\ Len(queue[q].idle) \in Nat
         /\ DOMAIN queue[q].idle = 1..Len(queue[q].idle)
<1>1. queue[q].idle \in Seq(Nat)
  BY Entries DEF Pool
<1> QED
  BY <1>1, LenProperties

\* Killing connections closes them and leaves the others alone.
LEMMA KilledOK ==
  ASSUME PoolInv, NEW S, conn' = Killed(S)
  PROVE  /\ conn' \in Seq(Connection) /\ Conns' = Conns
         /\ \A c \in Conns :
              /\ conn'[c].queue = conn[c].queue /\ conn'[c].by = conn[c].by
              /\ conn'[c].resp = IF c \in S THEN "finished" ELSE conn[c].resp
              /\ conn'[c].open = IF c \in S THEN FALSE ELSE conn[c].open
<1> DEFINE k(c) == IF c \in S THEN [conn[c] EXCEPT !.resp = "finished", !.open = FALSE] ELSE conn[c]
<1>1. \A c \in Conns : k(c) \in Connection
  BY Entries DEF Connection
<1>2. Conns = 1..Len(conn) /\ Len(conn) \in Nat /\ conn' = [c \in 1..Len(conn) |-> k(c)]
  BY Entries DEF Killed
<1>3. [c \in 1..Len(conn) |-> k(c)] \in Seq(Connection)
  <2> HIDE DEF k
  <2> QED
    BY <1>1, <1>2, IsASeq
<1>4. \A c \in Conns : conn'[c] = k(c)
  BY <1>2
<1>5. \A c \in Conns : /\ k(c).queue = conn[c].queue /\ k(c).by = conn[c].by
                       /\ k(c).resp = IF c \in S THEN "finished" ELSE conn[c].resp
                       /\ k(c).open = IF c \in S THEN FALSE ELSE conn[c].open
  BY Entries DEF Connection
<1>6. Conns' = Conns
  BY <1>2 DEF Conns
<1> HIDE DEF k
<1> QED
  BY <1>2, <1>3, <1>4, <1>5, <1>6

\* What changes the entry of one connection.
LEMMA ConnChanged ==
  ASSUME PoolInv, NEW c \in Conns, NEW r \in Connection, conn' = [conn EXCEPT ![c] = r]
  PROVE  /\ conn' \in Seq(Connection) /\ Conns' = Conns
         /\ conn'[c] = r /\ \A d \in Conns : d # c => conn'[d] = conn[d]
<1>1. conn \in Seq(Connection) /\ c \in 1..Len(conn)
  BY Entries DEF PoolInv
<1>2. /\ conn' \in Seq(Connection) /\ Len(conn') = Len(conn)
      /\ \A d \in 1..Len(conn) : conn'[d] = IF d = c THEN r ELSE conn[d]
  BY <1>1, ExceptSeq
<1>3. Conns' = Conns
  BY <1>1, <1>2, LenProperties DEF Conns
<1> QED
  BY <1>1, <1>2, <1>3, Entries

\* What changes the entry of one pool.
LEMMA PoolChanged ==
  ASSUME PoolInv, NEW q \in Queues, NEW r \in Pool, queue' = [queue EXCEPT ![q] = r]
  PROVE  /\ queue' \in Seq(Pool) /\ Queues' = Queues /\ Len(queue') = Len(queue)
         /\ queue'[q] = r /\ \A p \in Queues : p # q => queue'[p] = queue[p]
<1>1. queue \in Seq(Pool) /\ q \in 1..Len(queue)
  BY Entries DEF PoolInv
<1>2. /\ queue' \in Seq(Pool) /\ Len(queue') = Len(queue)
      /\ \A p \in 1..Len(queue) : queue'[p] = IF p = q THEN r ELSE queue[p]
  BY <1>1, ExceptSeq
<1>3. Queues' = Queues
  BY <1>1, <1>2, LenProperties DEF Queues
<1> QED
  BY <1>1, <1>2, <1>3, Entries

\* What is pushed lies at the end of its pool.
LEMMA Pushed ==
  ASSUME PoolInv, NEW q \in Queues, NEW c \in Conns,
         queue' = [queue EXCEPT ![q].idle = Append(@, c)]
  PROVE  /\ queue' \in Seq(Pool) /\ Queues' = Queues /\ Len(queue') = Len(queue)
         /\ \A p \in Queues : queue'[p].all = queue[p].all
         /\ \A p \in Queues : p # q => queue'[p] = queue[p]
         /\ DOMAIN queue'[q].idle = 1..(Len(queue[q].idle) + 1)
         /\ \A i \in DOMAIN queue[q].idle : queue'[q].idle[i] = queue[q].idle[i]
         /\ queue'[q].idle[Len(queue[q].idle) + 1] = c
<1> DEFINE s == Append(queue[q].idle, c)
           r == [queue[q] EXCEPT !.idle = s]
<1>1. c \in Nat
  BY Entries
<1>2. /\ s \in Seq(Nat) /\ Len(s) = Len(queue[q].idle) + 1
      /\ \A i \in DOMAIN queue[q].idle : s[i] = queue[q].idle[i]
      /\ s[Len(queue[q].idle) + 1] = c /\ DOMAIN s = 1..Len(s)
  BY <1>1, Idle, AppendProperties
<1> HIDE DEF s
<1>3. r \in Pool /\ r.idle = s /\ r.all = queue[q].all
  BY <1>2, Entries DEF Pool
<1>4. queue' = [queue EXCEPT ![q] = r]
  BY DEF s
<1> HIDE DEF r
<1>5. /\ queue' \in Seq(Pool) /\ Queues' = Queues /\ Len(queue') = Len(queue)
      /\ queue'[q] = r /\ \A p \in Queues : p # q => queue'[p] = queue[p]
  BY <1>3, <1>4, PoolChanged
<1> QED
  BY <1>2, <1>3, <1>5

\* A response is finished in one of three ways.
LEMMA FinishResponseOK ==
  ASSUME PoolInv, NEW c \in Conns, FinishResponse(c)
  PROVE  /\ conn' \in Seq(Connection) /\ Conns' = Conns
         /\ \A d \in Conns : conn'[d].queue = conn[d].queue /\ conn'[d].by = conn[d].by
         /\ \A d \in Conns : d # c => conn'[d].resp = conn[d].resp /\ conn'[d].open = conn[d].open
         /\ \/ conn[c].resp = "finished" /\ UNCHANGED <<conn, queue>>
            \/ queue' = [queue EXCEPT ![conn[c].queue].idle = Append(@, c)]
            \/ ~conn'[c].open /\ UNCHANGED queue
<1>1. CASE conn[c].resp = "finished"
  BY <1>1 DEF FinishResponse, PoolInv, Conns
<1>2. CASE conn' = Killed({c}) /\ UNCHANGED queue
  BY <1>2, KilledOK
<1>3. CASE /\ conn' = [conn EXCEPT ![c].resp = "finished"]
           /\ queue' = [queue EXCEPT ![conn[c].queue].idle = Append(@, c)]
  <2> DEFINE r == [conn[c] EXCEPT !.resp = "finished"]
  <2>1. r \in Connection /\ r.queue = conn[c].queue /\ r.by = conn[c].by
    BY Entries DEF Connection
  <2>2. conn' = [conn EXCEPT ![c] = r]
    BY <1>3
  <2> HIDE DEF r
  <2>3. /\ conn' \in Seq(Connection) /\ Conns' = Conns
        /\ conn'[c] = r /\ \A d \in Conns : d # c => conn'[d] = conn[d]
    BY <2>1, <2>2, ConnChanged
  <2> HIDE <2>2
  <2> QED
    BY <1>3, <2>1, <2>3, Zenon
<1> QED
  BY <1>1, <1>2, <1>3 DEF FinishResponse

-----------------------------------------------------------------------------
(* Types *)

\* What the steps of a thread may do to the pools and connections there are.
Grows ==
  PoolInv' /\ Conns \subseteq Conns' /\ Queues \subseteq Queues'

\* Pools and connections, when no pool is new.
LEMMA PoolsKept ==
  ASSUME PoolInv, conn' \in Seq(Connection), Conns' = Conns,
         \A c \in Conns : conn'[c].queue = conn[c].queue,
         UNCHANGED <<queue, connections>>
  PROVE  Grows
  BY DEF Grows, PoolInv, Queues

\* finish_response keeps pools and connections well formed,
LEMMA FinishKeeps ==
  ASSUME PoolInv, NEW c \in Conns, FinishResponse(c), UNCHANGED connections
  PROVE  Grows
<1>1. /\ conn' \in Seq(Connection) /\ Conns' = Conns
      /\ \A d \in Conns : conn'[d].queue = conn[d].queue
  BY FinishResponseOK
<1>2. CASE UNCHANGED queue
  BY <1>1, <1>2, PoolsKept
<1>3. CASE queue' = [queue EXCEPT ![conn[c].queue].idle = Append(@, c)]
  <2> DEFINE q == conn[c].queue
  <2>1. q \in Queues
    BY DEF PoolInv
  <2> HIDE DEF q
  <2>2. queue' = [queue EXCEPT ![q].idle = Append(@, c)]
    BY <1>3 DEF q
  <2>3. /\ queue' \in Seq(Pool) /\ Queues' = Queues /\ Len(queue') = Len(queue)
        /\ \A p \in Queues : queue'[p].all = queue[p].all
        /\ \A p \in Queues : p # q => queue'[p] = queue[p]
        /\ DOMAIN queue'[q].idle = 1..(Len(queue[q].idle) + 1)
        /\ \A i \in DOMAIN queue[q].idle : queue'[q].idle[i] = queue[q].idle[i]
        /\ queue'[q].idle[Len(queue[q].idle) + 1] = c
    BY <2>1, <2>2, Pushed
  <2>4. \A p \in Queues : \A i \in DOMAIN queue'[p].idle : queue'[p].idle[i] \in Conns
    <3>1. ASSUME NEW i \in DOMAIN queue'[q].idle PROVE queue'[q].idle[i] \in Conns
      <4>1. i \in DOMAIN queue[q].idle \/ i = Len(queue[q].idle) + 1
        BY <2>1, <2>3, Idle
      <4> QED
        BY <2>1, <2>3, <4>1 DEF PoolInv
    <3> QED
      BY <2>3, <3>1 DEF PoolInv
  <2> QED
    BY <1>1, <2>3, <2>4 DEF Grows, PoolInv
<1> QED
  BY <1>2, <1>3, FinishResponseOK

\* A sweep kills some idle connections of one pool and keeps the others in order.
Dropped(q, n, kept) ==
  {queue[q].idle[i] : i \in {k \in DOMAIN queue[q].idle : \A j \in 1..n : kept[j] # k}}
Sweep(q, n, kept) ==
  /\ n \in 0..(Len(queue[q].idle) - 1) /\ kept \in [1..n -> DOMAIN queue[q].idle]
  /\ \A i, j \in 1..n : i < j => kept[i] < kept[j]
  /\ conn' = Killed(Dropped(q, n, kept))
  /\ queue' = [queue EXCEPT ![q].idle = [i \in 1..n |-> queue[q].idle[kept[i]]]]

\* Every step that clears expired connections is such a sweep.
LEMMA Swept ==
  ASSUME NEW t \in Thread, ExpireIdle(t)
  PROVE  \E q \in Queues : \E n, kept : Sweep(q, n, kept)
<1> DEFINE Body(q, n, kept) ==
       /\ \A i, j \in 1..n : i < j => kept[i] < kept[j]
       /\ conn' = Killed({queue[q].idle[i] : i \in {k \in DOMAIN queue[q].idle :
                                                  \A j \in 1..n : kept[j] # k}})
       /\ queue' = [queue EXCEPT ![q].idle = [i \in 1..n |-> queue[q].idle[kept[i]]]]
<1>1. \E q \in Queues : \E n \in 0..(Len(queue[q].idle) - 1) :
        \E kept \in [1..n -> DOMAIN queue[q].idle] : Body(q, n, kept)
  BY DEF ExpireIdle
<1>2. \A q : \A n \in 0..(Len(queue[q].idle) - 1) : \A kept \in [1..n -> DOMAIN queue[q].idle] :
        Body(q, n, kept) => Sweep(q, n, kept)
  BY DEF Sweep, Dropped
<1> HIDE DEF Body
<1> QED
  BY <1>1, <1>2

\* A sweep keeps pools and connections well formed,
LEMMA ExpireKeeps ==
  ASSUME PoolInv, NEW t \in Thread, ExpireIdle(t)
  PROVE  Grows
<1>1. PICK q \in Queues : \E n, kept : Sweep(q, n, kept)
  BY Swept
<1>2. PICK n, kept : Sweep(q, n, kept)
  BY <1>1
<1> DEFINE s == [i \in 1..n |-> queue[q].idle[kept[i]]]
           r == [queue[q] EXCEPT !.idle = s]
<1>3. n \in Nat /\ kept \in [1..n -> DOMAIN queue[q].idle]
  BY <1>2, Idle DEF Sweep
<1>4. \A i \in 1..n : queue[q].idle[kept[i]] \in Nat /\ queue[q].idle[kept[i]] \in Conns
  BY <1>3, Entries DEF PoolInv
<1>5. s \in Seq(Nat) /\ DOMAIN s = 1..n /\ \A i \in 1..n : s[i] \in Conns
  BY <1>3, <1>4, IsASeq
<1> HIDE DEF s
<1>6. r \in Pool /\ r.idle = s /\ r.all = queue[q].all
  BY <1>5, Entries DEF Pool
<1>7. queue' = [queue EXCEPT ![q] = r]
  BY <1>2 DEF s, Sweep
<1> HIDE DEF r
<1>8. /\ queue' \in Seq(Pool) /\ Queues' = Queues /\ Len(queue') = Len(queue)
      /\ queue'[q] = r /\ \A p \in Queues : p # q => queue'[p] = queue[p]
  BY <1>6, <1>7, PoolChanged
<1>9. conn' \in Seq(Connection) /\ Conns' = Conns /\ \A c \in Conns : conn'[c].queue = conn[c].queue
  BY <1>2, KilledOK DEF Sweep
<1>10. UNCHANGED connections
  BY DEF ExpireIdle
<1> QED
  BY <1>5, <1>6, <1>8, <1>9, <1>10 DEF Grows, PoolInv

\* so does pull, with or without a new connection,
LEMMA PullKeeps ==
  ASSUME PoolInv, NEW t \in Thread, th[t].at \in Queues, Pull(t)
  PROVE  Grows
<1> DEFINE q == th[t].at
           idle == queue[q].idle
           new == Len(conn) + 1
<1>1. UNCHANGED connections
  BY DEF Pull, tableVars
<1>2. CASE UNCHANGED <<queue, conn>>
  BY <1>1, <1>2 DEF Grows, PoolInv, Queues, Conns
<1>3. CASE /\ idle # <<>> /\ UNCHANGED conn
           /\ queue' = [queue EXCEPT ![q].idle = SubSeq(idle, 1, Len(idle) - 1)]
  <2> DEFINE s == SubSeq(idle, 1, Len(idle) - 1)
             r == [queue[q] EXCEPT !.idle = s]
  <2>1. s \in Seq(Nat) /\ DOMAIN s \subseteq DOMAIN idle /\ \A i \in DOMAIN s : s[i] = idle[i]
    <3>1. idle \in Seq(Nat) /\ Len(idle) \in Nat /\ DOMAIN idle = 1..Len(idle)
      BY Idle
    <3> HIDE DEF idle
    <3>2. \A i \in 1..(Len(idle) - 1) : idle[i] \in Nat
      BY <3>1
    <3>3. /\ s \in Seq(Nat) /\ Len(s) = IF 1 <= Len(idle) - 1 THEN Len(idle) - 1 ELSE 0
          /\ \A i \in 1..(Len(idle) - 1) : s[i] = idle[i]
      BY <3>1, <3>2, SubSeqProperties
    <3> QED
      BY <3>1, <3>3, LenProperties
  <2> HIDE DEF s
  <2>2. r \in Pool /\ r.idle = s /\ r.all = queue[q].all
    BY <2>1, Entries DEF Pool
  <2>3. queue' = [queue EXCEPT ![q] = r]
    BY <1>3 DEF s
  <2> HIDE DEF r
  <2>4. /\ queue' \in Seq(Pool) /\ Queues' = Queues /\ Len(queue') = Len(queue)
        /\ queue'[q] = r /\ \A p \in Queues : p # q => queue'[p] = queue[p]
    BY <2>2, <2>3, PoolChanged
  <2>5. Conns' = Conns /\ conn' = conn
    BY <1>3 DEF Conns
  <2> HIDE <1>3
  <2>6. \A p \in Queues : \A i \in DOMAIN queue'[p].idle : queue'[p].idle[i] \in Conns
    BY <2>1, <2>2, <2>4 DEF PoolInv
  <2>7. \A p \in Queues : queue'[p].all \subseteq Conns
    BY <2>2, <2>4 DEF PoolInv
  <2> QED
    BY <1>1, <2>4, <2>5, <2>6, <2>7 DEF Grows, PoolInv
<1>4. CASE /\ conn' = Append(conn, [queue |-> q, open |-> FALSE, resp |-> "none", by |-> Nobody])
           /\ queue' = [queue EXCEPT ![q].all = @ \cup {new}]
  <2> DEFINE e == [queue |-> q, open |-> FALSE, resp |-> "none", by |-> Nobody]
             r == [queue[q] EXCEPT !.all = queue[q].all \cup {new}]
  <2>1. e \in Connection /\ e.queue = q
    BY Entries DEF Connection, Someone
  <2> HIDE DEF e
  <2>2. /\ conn' \in Seq(Connection) /\ Len(conn') = new
        /\ \A c \in Conns : conn'[c] = conn[c]
        /\ conn'[new] = e
    BY <1>4, <2>1, Entries, AppendProperties DEF e, PoolInv
  <2>3. Conns' = Conns \cup {new} /\ new \in Nat
    BY <2>2, LenProperties, Entries DEF Conns
  <2>4. r \in Pool /\ r.idle = idle /\ r.all = queue[q].all \cup {new}
    BY <2>3, Entries DEF Pool
  <2>5. queue' = [queue EXCEPT ![q] = r]
    BY <1>4
  <2> HIDE DEF r
  <2>6. /\ queue' \in Seq(Pool) /\ Queues' = Queues /\ Len(queue') = Len(queue)
        /\ queue'[q] = r /\ \A p \in Queues : p # q => queue'[p] = queue[p]
    BY <2>4, <2>5, PoolChanged
  <2> QED
    BY <1>1, <2>1, <2>2, <2>3, <2>4, <2>6 DEF Grows, PoolInv
<1> QED
  BY <1>2, <1>3, <1>4, Zenon DEF Pull

\* and so does a host that gets a pool.
LEMMA RouteKeeps ==
  ASSUME PoolInv, NEW t \in Thread, Route(t), NEW h \in Host, th'[t].host = h,
         connections' = [connections EXCEPT ![h] = th'[t].at],
         th'[t].at = IF connections[h] # 0 THEN connections[h] ELSE Len(queue) + 1,
         queue' = IF th'[t].at \in Queues THEN queue
                  ELSE Append(queue, [host |-> h, idle |-> <<>>, all |-> {}, cleared |-> FALSE])
  PROVE  Grows /\ th'[t].at \in Queues'
<1> DEFINE q == th'[t].at
<1>1. UNCHANGED conn
  BY DEF Route
<1>2. q \in 1..(Len(queue) + 1) /\ (q \notin Queues => q = Len(queue) + 1)
  BY Entries DEF PoolInv
<1> HIDE DEF q
<1>3. CASE q \in Queues
  <2>1. queue' = queue /\ connections' \in [Host -> 0..Len(queue)]
    BY <1>2, <1>3, Entries DEF PoolInv, q
  <2> QED
    BY <1>1, <1>3, <2>1 DEF Grows, PoolInv, Conns, Queues, q
<1>4. CASE q \notin Queues
  <2> DEFINE e == [host |-> h, idle |-> <<>>, all |-> {}, cleared |-> FALSE]
  <2>1. e \in Pool /\ e.idle = <<>> /\ e.all = {}
    BY DEF Pool
  <2> HIDE DEF e
  <2>2. queue' = Append(queue, e)
    BY <1>4 DEF q, e
  <2>3. /\ queue' \in Seq(Pool) /\ Len(queue') = Len(queue) + 1
        /\ \A p \in Queues : queue'[p] = queue[p]
        /\ queue'[Len(queue) + 1] = e
    BY <2>1, <2>2, Entries, AppendProperties DEF PoolInv
  <2>4. Queues' = Queues \cup {Len(queue) + 1} /\ Len(queue) \in Nat
    BY <2>3, LenProperties, Entries DEF Queues
  <2>5. connections' \in [Host -> 0..Len(queue')]
    <3>1. connections \in [Host -> 0..Len(queue)] /\ connections' = [connections EXCEPT ![h] = q]
      BY DEF PoolInv, q
    <3> QED
      BY <1>2, <2>3, <2>4, <3>1
  <2>6. ASSUME NEW p \in Queues'
        PROVE  /\ queue'[p].all \subseteq Conns
               /\ \A i \in DOMAIN queue'[p].idle : queue'[p].idle[i] \in Conns
    <3>1. CASE p \in Queues
      BY <2>3, <3>1 DEF PoolInv
    <3>2. CASE p \notin Queues
      <4>1. queue'[p] = e /\ DOMAIN e.idle = {}
        BY <2>1, <2>3, <2>4, <3>2
      <4> QED
        BY <2>1, <4>1
    <3> QED
      BY <3>1, <3>2
  <2>7. conn' = conn /\ Conns' = Conns
    BY <1>1 DEF Conns
  <2>8. q \in Queues'
    BY <1>2, <1>4, <2>4
  <2> QED
    BY <2>3, <2>4, <2>5, <2>6, <2>7, <2>8 DEF Grows, PoolInv, q
<1> QED
  BY <1>3, <1>4, Zenon

-----------------------------------------------------------------------------
(* What the steps of a thread do to its state *)

Others(t) == \A s \in Thread : s # t => th'[s] = th[s]

\* The state of one thread changes.
LEMMA ThreadMoved ==
  ASSUME ThreadInv, NEW t \in Thread, NEW r \in ThreadState, th' = [th EXCEPT ![t] = r]
  PROVE  th' \in [Thread -> ThreadState] /\ th'[t] = r /\ Others(t)
  BY DEF ThreadInv, Others

\* A thread goes on.
LEMMA GotoOK ==
  ASSUME ThreadInv, NEW t \in Thread, NEW pc \in Pcs, Goto(t, pc)
  PROVE  /\ th' \in [Thread -> ThreadState] /\ Others(t)
         /\ th'[t].pc = pc /\ th'[t].url = th[t].url /\ th'[t].host = th[t].host
         /\ th'[t].at = th[t].at /\ th'[t].conn = th[t].conn /\ th'[t].hops = th[t].hops
         /\ th'[t].reply = th[t].reply /\ th'[t].got = th[t].got
<1> DEFINE r == [th[t] EXCEPT !.pc = pc]
<1>1. th[t] \in ThreadState
  BY DEF ThreadInv
<1>2. /\ r \in ThreadState
      /\ r.pc = pc /\ r.url = th[t].url /\ r.host = th[t].host
      /\ r.at = th[t].at /\ r.conn = th[t].conn /\ r.hops = th[t].hops
      /\ r.reply = th[t].reply /\ r.got = th[t].got
  BY <1>1 DEF ThreadState
<1>3. th' = [th EXCEPT ![t] = r]
  BY DEF Goto
<1> HIDE DEF r
<1> QED
  BY <1>2, <1>3, ThreadMoved

\* A thread outside open has a state.
LEMMA NewThreadOK == NewThread \in ThreadState
  BY GatewayAssumption DEF NewThread, ThreadState, Pcs, Someone

\* A thread leaves open.
LEMMA ReturnOK ==
  ASSUME ThreadInv, NEW t \in Thread, Return(t)
  PROVE  th' \in [Thread -> ThreadState] /\ Others(t) /\ th'[t] = NewThread
  BY NewThreadOK, ThreadMoved DEF Return

\* A thread asks again, or has asked as often as it may.
LEMMA NextHopOK ==
  ASSUME ThreadInv, NEW t \in Thread, NEW url \in Url, th[t].hops < MaxHops, NextHop(t, url)
  PROVE  /\ th' \in [Thread -> ThreadState] /\ Others(t)
         /\ th'[t].hops = th[t].hops + 1 /\ th'[t].url = url /\ th'[t].conn = th[t].conn
         /\ IF th[t].hops + 1 < MaxHops THEN th'[t].pc = "route"
            ELSE th[t].hops + 1 = MaxHops /\ th'[t].pc = "answer"
<1> DEFINE r == [th[t] EXCEPT !.hops = @ + 1, !.url = url,
                              !.pc = IF th[t].hops + 1 < MaxHops THEN "route" ELSE "answer"]
<1>1. th[t] \in ThreadState
  BY DEF ThreadInv
<1>2. th[t].hops + 1 \in 0..MaxHops /\ (th[t].hops + 1 < MaxHops \/ th[t].hops + 1 = MaxHops)
  BY <1>1, GatewayAssumption DEF ThreadState
<1>3. /\ r \in ThreadState
      /\ r.hops = th[t].hops + 1 /\ r.url = url /\ r.conn = th[t].conn
      /\ r.pc = IF th[t].hops + 1 < MaxHops THEN "route" ELSE "answer"
  BY <1>1, <1>2 DEF ThreadState, Pcs
<1>4. th' = [th EXCEPT ![t] = r]
  BY DEF NextHop
<1> HIDE DEF r
<1>5. th' \in [Thread -> ThreadState] /\ Others(t) /\ th'[t] = r
  BY <1>3, <1>4, ThreadMoved
<1> QED
  BY <1>2, <1>3, <1>5

\* A thread calls open.
LEMMA OpenOK ==
  ASSUME ThreadInv, NEW t \in Thread, Open(t)
  PROVE  /\ th' \in [Thread -> ThreadState] /\ Others(t)
         /\ th'[t].pc = "clean" /\ th'[t].url \in Url /\ th'[t].hops = 0
<1>1. PICK u \in Asked : th' = [th EXCEPT ![t] = [NewThread EXCEPT !.pc = "clean", !.url = u]]
  BY DEF Open
<1> DEFINE r == [NewThread EXCEPT !.pc = "clean", !.url = u]
<1>2. u \in Url
  BY GatewayAssumption
<1>3. NewThread.hops = 0
  BY DEF NewThread
<1>4. r \in ThreadState /\ r.pc = "clean" /\ r.url = u /\ r.hops = 0
  BY <1>2, <1>3, NewThreadOK DEF ThreadState, Pcs
<1>5. th' = [th EXCEPT ![t] = r]
  BY <1>1
<1> HIDE DEF r
<1> QED
  BY <1>2, <1>4, <1>5, ThreadMoved

\* A redirect table leads a url to a url and a host to a host.
LEMMA TargetIn ==
  ASSUME NEW d, Redirects(d)
  PROVE  /\ \A k \in Url : Target(d, k) \in Url
         /\ \A k \in Host : Target(d, k) \in Host
<1> DEFINE hop == [x \in Host \cup Url |-> IF x \in DOMAIN d THEN d[x] ELSE x]
           five == [x \in Host \cup Url |-> hop[hop[hop[hop[hop[x]]]]]]
<1>1. \A x \in Host \cup Url : (x \in Url => hop[x] \in Url) /\ (x \in Host => hop[x] \in Host)
  BY DEF Redirects
<1> HIDE DEF hop
<1>2. \A x \in Host \cup Url : (x \in Url => five[x] \in Url) /\ (x \in Host => five[x] \in Host)
  BY <1>1
<1> HIDE DEF five
<1>3. \A k : Target(d, k) = five[five[k]]
  BY DEF Target, five, hop
<1> QED
  BY <1>2, <1>3

\* The url that open was given is replaced by where it has moved.
LEMMA ResolveOK ==
  ASSUME ThreadInv, TableInv, NEW t \in Thread, ResolveUrl(t)
  PROVE  /\ th' \in [Thread -> ThreadState] /\ Others(t)
         /\ th'[t].pc = "route" /\ th'[t].url \in Url /\ th'[t].hops = th[t].hops
         /\ \E k \in Url : \E v \in Url : table' = Shortened(k, v)
<1>1. PICK d \in Seen(urlTable) :
        /\ table' = Shortened(th[t].url, Target(table[d], th[t].url))
        /\ th' = [th EXCEPT ![t].pc = "route", ![t].url = Target(table[d], th[t].url)]
  BY DEF ResolveUrl
<1>2. d \in 1..3 /\ Redirects(table[d])
  BY DEF Seen, TableInv
<1>3. th[t] \in ThreadState /\ th[t].url \in Url
  BY DEF ThreadInv, Knows, ResolveUrl, At
<1> DEFINE u == Target(table[d], th[t].url)
           r == [th[t] EXCEPT !.pc = "route", !.url = u]
<1>4. u \in Url
  BY <1>2, <1>3, TargetIn
<1>5. th' = [th EXCEPT ![t] = r] /\ table' = Shortened(th[t].url, u)
  BY <1>1
<1> HIDE DEF u
<1>6. r \in ThreadState /\ r.pc = "route" /\ r.url = u /\ r.hops = th[t].hops
  BY <1>3, <1>4 DEF ThreadState, Pcs
<1> HIDE DEF r
<1> QED
  BY <1>2, <1>3, <1>4, <1>5, <1>6, ThreadMoved

\* The pool of the host is the one in _connections, or a new one.
LEMMA RouteOK ==
  ASSUME TypeInv, NEW t \in Thread, Route(t)
  PROVE  /\ th' \in [Thread -> ThreadState] /\ Others(t)
         /\ th'[t].pc = "pull" /\ th'[t].url = th[t].url /\ th'[t].hops = th[t].hops
         /\ th'[t].host \in Host /\ th'[t].at \in Queues'
         /\ Grows
         /\ queue' = queue \/ queue' = Append(queue, [host |-> th'[t].host, idle |-> <<>>,
                                                      all |-> {}, cleared |-> FALSE])
         /\ \E k \in Host : \E v \in Host : table' = Shortened(k, v)
<1> USE DEF TypeInv
<1>1. PICK d \in Seen(hostTable) :
        LET h == Target(table[d], th[t].url[1])
            q == IF connections[h] # 0 THEN connections[h] ELSE Len(queue) + 1
        IN /\ table' = Shortened(th[t].url[1], h)
           /\ connections' = [connections EXCEPT ![h] = q]
           /\ queue' = IF q \in Queues THEN queue
                       ELSE Append(queue, [host |-> h, idle |-> <<>>, all |-> {}, cleared |-> FALSE])
           /\ th' = [th EXCEPT ![t].pc = "pull", ![t].host = h, ![t].at = q]
  BY DEF Route
<1> DEFINE h == Target(table[d], th[t].url[1])
           q == IF connections[h] # 0 THEN connections[h] ELSE Len(queue) + 1
           r == [th[t] EXCEPT !.pc = "pull", !.host = h, !.at = q]
<1>2. d \in 1..3 /\ Redirects(table[d])
  BY DEF Seen, TableInv
<1>3. th[t] \in ThreadState /\ th[t].url \in Url /\ th[t].url[1] \in Host
  BY DEF ThreadInv, Knows, Route, At, Url
<1>4. h \in Host
  BY <1>2, <1>3, TargetIn
<1>5. /\ th' = [th EXCEPT ![t] = r] /\ table' = Shortened(th[t].url[1], h)
      /\ connections' = [connections EXCEPT ![h] = q]
      /\ queue' = IF q \in Queues THEN queue
                  ELSE Append(queue, [host |-> h, idle |-> <<>>, all |-> {}, cleared |-> FALSE])
  BY <1>1
<1> HIDE DEF h
<1>6. q \in Nat
  BY <1>4, Entries DEF PoolInv
<1>7. q = IF connections[h] # 0 THEN connections[h] ELSE Len(queue) + 1
  OBVIOUS
<1> HIDE DEF q
<1>8. r \in ThreadState /\ r.pc = "pull" /\ r.url = th[t].url /\ r.hops = th[t].hops
      /\ r.host = h /\ r.at = q
  BY <1>3, <1>4, <1>6 DEF ThreadState, Pcs
<1> HIDE DEF r
<1>9. th' \in [Thread -> ThreadState] /\ Others(t) /\ th'[t] = r
  BY <1>5, <1>8, ThreadMoved
<1>10. Grows /\ th'[t].at \in Queues'
  BY <1>4, <1>5, <1>7, <1>8, <1>9, RouteKeeps
<1> HIDE DEF TypeInv
<1> QED
  BY <1>3, <1>4, <1>5, <1>8, <1>9, <1>10

\* A thread gets an idle connection, a new one, or none when the pool was cleared.
LEMMA PullOK ==
  ASSUME PoolInv, ThreadInv, NEW t \in Thread, Pull(t)
  PROVE  /\ th' \in [Thread -> ThreadState] /\ Others(t)
         /\ \/ th'[t] = NewThread /\ UNCHANGED <<queue, conn>>
            \/ /\ th'[t].pc = "check" /\ th'[t].url = th[t].url /\ th'[t].hops = th[t].hops
               /\ th'[t].host = th[t].host /\ th'[t].conn \in Conns'
<1> DEFINE q == th[t].at
           idle == queue[q].idle
           new == Len(conn) + 1
<1>1. th[t] \in ThreadState /\ q \in Queues
  BY DEF ThreadInv, Knows, Pull, At
<1>2. CASE Return(t) /\ UNCHANGED <<queue, conn>>
  BY <1>2, ReturnOK
<1>3. ASSUME NEW c \in Nat, c \in Conns', th' = [th EXCEPT ![t].pc = "check", ![t].conn = c]
      PROVE  /\ th' \in [Thread -> ThreadState] /\ Others(t)
             /\ th'[t].pc = "check" /\ th'[t].url = th[t].url /\ th'[t].hops = th[t].hops
             /\ th'[t].host = th[t].host /\ th'[t].conn \in Conns'
  <2> DEFINE r == [th[t] EXCEPT !.pc = "check", !.conn = c]
  <2>1. r \in ThreadState /\ r.pc = "check" /\ r.url = th[t].url /\ r.hops = th[t].hops
        /\ r.host = th[t].host /\ r.conn = c
    BY <1>1 DEF ThreadState, Pcs
  <2>2. th' = [th EXCEPT ![t] = r]
    BY <1>3
  <2> HIDE DEF r
  <2> QED
    BY <1>3, <2>1, <2>2, ThreadMoved
<1>4. CASE /\ idle # <<>> /\ UNCHANGED conn
           /\ th' = [th EXCEPT ![t].pc = "check", ![t].conn = idle[Len(idle)]]
  <2>1. Len(idle) \in DOMAIN idle
    <3>1. idle \in Seq(Nat) /\ Len(idle) \in Nat /\ DOMAIN idle = 1..Len(idle)
      BY <1>1, Idle
    <3> QED
      BY <1>4, <3>1, EmptySeq
  <2>2. idle[Len(idle)] \in Conns /\ Conns' = Conns
    BY <1>1, <1>4, <2>1 DEF PoolInv, Conns
  <2>3. idle[Len(idle)] \in Nat /\ idle[Len(idle)] \in Conns'
    BY <2>2, Entries
  <2> HIDE DEF idle
  <2> QED
    BY <1>3, <1>4, <2>3, Zenon
<1>5. CASE /\ conn' = Append(conn, [queue |-> q, open |-> FALSE, resp |-> "none", by |-> Nobody])
           /\ th' = [th EXCEPT ![t].pc = "check", ![t].conn = new]
  <2>1. new \in Conns' /\ new \in Nat
    BY <1>5, Entries, AppendProperties DEF PoolInv, Conns
  <2> QED
    BY <1>3, <1>5, <2>1
<1>6. \/ Return(t) /\ UNCHANGED <<queue, conn>>
      \/ /\ idle # <<>> /\ UNCHANGED conn
         /\ th' = [th EXCEPT ![t].pc = "check", ![t].conn = idle[Len(idle)]]
      \/ /\ conn' = Append(conn, [queue |-> q, open |-> FALSE, resp |-> "none", by |-> Nobody])
         /\ th' = [th EXCEPT ![t].pc = "check", ![t].conn = new]
  BY Zenon DEF Pull
<1> HIDE DEF q, idle, new
<1> QED
  BY <1>2, <1>4, <1>5, <1>6, Zenon

\* An exchange ends with an answer, or kills the connection.
LEMMA ReceiveOK ==
  ASSUME PoolInv, ThreadInv, NEW t \in Thread, Receive(t)
  PROVE  /\ th' \in [Thread -> ThreadState] /\ Others(t)
         /\ conn' \in Seq(Connection) /\ Conns' = Conns
         /\ \A c \in Conns : conn'[c].queue = conn[c].queue
         /\ \A c \in Conns : c # th[t].conn => conn'[c] = conn[c]
         /\ \/ /\ ~conn'[th[t].conn].open
               /\ \/ th'[t] = NewThread
                  \/ /\ th'[t].pc = "route" /\ th'[t].url = th[t].url
                     /\ th'[t].hops < MaxHops
            \/ /\ conn'[th[t].conn].resp = "live" /\ conn'[th[t].conn].by = t
               /\ th'[t].pc \in {"follow", "answer"} /\ th'[t].url = th[t].url
               /\ th'[t].hops = th[t].hops /\ th'[t].host = th[t].host
               /\ th'[t].conn = th[t].conn /\ th'[t].reply \in Reply
<1> DEFINE c == th[t].conn
<1>1. /\ th[t] \in ThreadState /\ c \in Conns /\ th[t].url \in Url /\ th[t].host \in Host
      /\ th[t].hops < MaxHops
  BY DEF ThreadInv, Knows, Receive, At, Busy, Routed
<1>2. Replies[<<th[t].host, th[t].url[2]>>] \subseteq Reply
  <2>1. <<th[t].host, th[t].url[2]>> \in Url
    BY <1>1 DEF Url
  <2> QED
    BY <2>1, GatewayAssumption
<1>3. ASSUME conn' = Killed({c})
      PROVE  /\ conn' \in Seq(Connection) /\ Conns' = Conns
             /\ \A d \in Conns : conn'[d].queue = conn[d].queue
             /\ \A d \in Conns : d # c => conn'[d] = conn[d]
             /\ ~conn'[c].open
  BY <1>1, <1>3, KilledOK DEF Killed
<1>4. ASSUME Failed(t)
      PROVE  /\ th' \in [Thread -> ThreadState] /\ Others(t)
             /\ \/ th'[t] = NewThread
                \/ th'[t].pc = "route" /\ th'[t].url = th[t].url /\ th'[t].hops < MaxHops
  <2>1. CASE th[t].hops + 1 < MaxHops
    BY <1>1, <1>4, <2>1, NextHopOK DEF Failed
  <2>2. CASE ~(th[t].hops + 1 < MaxHops)
    BY <1>4, <2>2, ReturnOK DEF Failed
  <2> QED
    BY <2>1, <2>2
<1>5. CASE Failed(t)
  BY <1>3, <1>4, <1>5 DEF Failed
<1>6. CASE conn' = Killed({c}) /\ Return(t)
  BY <1>3, <1>6, ReturnOK
<1>7. ASSUME NEW r \in Reply,
             conn' = [conn EXCEPT ![c].resp = "live", ![c].by = t],
             th' = [th EXCEPT ![t].reply = r, ![t].pc = IF r.kind = "moved" THEN "follow" ELSE "answer"]
      PROVE  /\ th' \in [Thread -> ThreadState] /\ Others(t)
             /\ conn' \in Seq(Connection) /\ Conns' = Conns
             /\ \A d \in Conns : conn'[d].queue = conn[d].queue
             /\ \A d \in Conns : d # c => conn'[d] = conn[d]
             /\ conn'[c].resp = "live" /\ conn'[c].by = t
             /\ th'[t].pc \in {"follow", "answer"} /\ th'[t].url = th[t].url
             /\ th'[t].hops = th[t].hops /\ th'[t].host = th[t].host
             /\ th'[t].conn = c /\ th'[t].reply \in Reply
  <2> DEFINE e == [conn[c] EXCEPT !.resp = "live", !.by = t]
             n == [th[t] EXCEPT !.reply = r, !.pc = IF r.kind = "moved" THEN "follow" ELSE "answer"]
  <2>1. e \in Connection /\ e.queue = conn[c].queue /\ e.resp = "live" /\ e.by = t
    BY <1>1, Entries DEF Connection, Someone
  <2>2. /\ n \in ThreadState /\ n.pc \in {"follow", "answer"} /\ n.url = th[t].url
        /\ n.hops = th[t].hops /\ n.host = th[t].host /\ n.conn = c /\ n.reply \in Reply
    BY <1>1 DEF ThreadState, Pcs
  <2>3. conn' = [conn EXCEPT ![c] = e] /\ th' = [th EXCEPT ![t] = n]
    BY <1>7
  <2> HIDE DEF e, n
  <2>4. /\ conn' \in Seq(Connection) /\ Conns' = Conns
        /\ conn'[c] = e /\ \A d \in Conns : d # c => conn'[d] = conn[d]
    BY <1>1, <2>1, <2>3, ConnChanged
  <2>5. th' \in [Thread -> ThreadState] /\ Others(t) /\ th'[t] = n
    BY <2>2, <2>3, ThreadMoved
  <2> HIDE <2>3
  <2> QED
    BY <2>1, <2>2, <2>4, <2>5, Zenon
<1>8. CASE \E r \in Reply :
             /\ conn' = [conn EXCEPT ![c].resp = "live", ![c].by = t]
             /\ th' = [th EXCEPT ![t].reply = r,
                                 ![t].pc = IF r.kind = "moved" THEN "follow" ELSE "answer"]
  BY <1>7, <1>8, Zenon
<1>9. \/ Failed(t)
      \/ conn' = Killed({c}) /\ Return(t)
      \/ \E r \in Reply :
             /\ conn' = [conn EXCEPT ![c].resp = "live", ![c].by = t]
             /\ th' = [th EXCEPT ![t].reply = r,
                                 ![t].pc = IF r.kind = "moved" THEN "follow" ELSE "answer"]
  BY <1>2, Zenon DEF Receive
<1> QED
  BY <1>5, <1>6, <1>8, <1>9

\* A request opens the socket of its connection and changes nothing else.
LEMMA SendOK ==
  ASSUME PoolInv, NEW t \in Thread, th[t].conn \in Conns, Send(t)
  PROVE  /\ conn' \in Seq(Connection) /\ Conns' = Conns
         /\ \A c \in Conns : /\ conn'[c].queue = conn[c].queue /\ conn'[c].resp = conn[c].resp
                             /\ conn'[c].by = conn[c].by
         /\ \A c \in Conns : c # th[t].conn => conn'[c] = conn[c]
<1> DEFINE c == th[t].conn
           e == [conn[c] EXCEPT !.open = TRUE]
<1>1. /\ e \in Connection /\ e.queue = conn[c].queue /\ e.resp = conn[c].resp
      /\ e.by = conn[c].by
  BY Entries DEF Connection
<1>2. conn' = [conn EXCEPT ![c] = e]
  BY DEF Send
<1> HIDE DEF e
<1>3. /\ conn' \in Seq(Connection) /\ Conns' = Conns
      /\ conn'[c] = e /\ \A d \in Conns : d # c => conn'[d] = conn[d]
  BY <1>1, <1>2, ConnChanged
<1> HIDE DEF c
<1> HIDE <1>2
<1>4. c = th[t].conn
  BY DEF c
<1> QED
  BY <1>1, <1>3, <1>4

\* Every step of a thread leaves the pools and connections well formed.
LEMMA PoolStep ==
  ASSUME TypeInv, NEW t \in Thread, Open(t) \/ Step(t)
  PROVE  Grows
<1> USE DEF TypeInv
<1>1. th[t] \in ThreadState /\ Knows(th[t])
  BY DEF ThreadInv
<1>2. CASE UNCHANGED <<conn, queue, connections>>
  BY <1>2 DEF Grows, PoolInv, Conns, Queues
<1>3. CASE ExpireIdle(t)
  BY <1>3, ExpireKeeps
<1>4. CASE Route(t)
  BY <1>4, RouteOK
<1>5. CASE Pull(t)
  BY <1>1, <1>5, PullKeeps DEF Knows, Pull, At
<1>6. CASE Send(t)
  <2>1. th[t].conn \in Conns
    BY <1>1, <1>6 DEF Knows, Send, At, Busy
  <2>2. UNCHANGED <<queue, connections>>
    BY <1>6 DEF Send, poolVars
  <2> QED
    BY <1>6, <2>1, <2>2, SendOK, PoolsKept
<1>7. CASE Receive(t)
  <2>1. UNCHANGED <<queue, connections>>
    BY <1>7 DEF Receive, poolVars
  <2> QED
    BY <1>7, <2>1, ReceiveOK, PoolsKept
<1>8. CASE Follow(t)
  <2>1. CASE UNCHANGED <<conn, queue>>
    BY <1>2, <1>8, <2>1 DEF Follow
  <2>2. CASE FinishResponse(th[t].conn)
    <3>1. th[t].conn \in Conns /\ UNCHANGED connections
      BY <1>1, <1>8 DEF Knows, Follow, At, Busy
    <3> QED
      BY <2>2, <3>1, FinishKeeps
  <2> QED
    BY <1>8, <2>1, <2>2 DEF Follow
<1>9. CASE Finish(t)
  <2>1. th[t].conn \in Conns /\ UNCHANGED connections /\ FinishResponse(th[t].conn)
    BY <1>1, <1>9 DEF Knows, Finish, At, Busy
  <2> QED
    BY <2>1, FinishKeeps
<1> HIDE DEF TypeInv
<1>10. CASE \/ Open(t) \/ SkipCleaning(t) \/ FillHosts(t) \/ SwapHosts(t) \/ FillUrls(t)
            \/ SwapUrls(t) \/ Cleaned(t) \/ ResolveUrl(t) \/ CheckService(t) \/ Learn(t)
            \/ Answer(t)
  BY <1>2, <1>10 DEF poolVars, Open, SkipCleaning, FillHosts, SwapHosts, FillUrls, SwapUrls,
     Cleaned, ResolveUrl, CheckService, Learn, Answer
<1> QED
  BY <1>3, <1>4, <1>5, <1>6, <1>7, <1>8, <1>9, <1>10 DEF Step

\* What a thread knows stays true when pools and connections only become more.
LEMMA ThreadsKept ==
  ASSUME ThreadInv, Grows, NEW t \in Thread, th' \in [Thread -> ThreadState], Others(t),
         Knows(th[t])'
  PROVE  ThreadInv'
<1>1. \A s \in Thread : s # t => Knows(th[s])'
  BY DEF ThreadInv, Others, Knows, Grows
<1> QED
  BY <1>1 DEF ThreadInv

\* Every step of a thread keeps what the threads know.
LEMMA ThreadStep ==
  ASSUME TypeInv, NEW t \in Thread, Open(t) \/ Step(t)
  PROVE  ThreadInv'
<1>1. PoolInv /\ ThreadInv /\ TableInv /\ Grows
  BY PoolStep DEF TypeInv
<1>2. th[t] \in ThreadState /\ Knows(th[t]) /\ Conns \subseteq Conns' /\ Queues \subseteq Queues'
  BY <1>1 DEF ThreadInv, Grows
<1>3. CASE th' = th
  BY <1>1, <1>3 DEF ThreadInv, Knows, Grows
<1>4. ASSUME th'[t] = NewThread PROVE Knows(th[t])'
  BY <1>4, GatewayAssumption DEF NewThread, Knows, Routed, Busy
<1>5. CASE ExpireIdle(t)
  BY <1>3, <1>5 DEF ExpireIdle
<1>6. CASE Open(t)
  <2>1. /\ th' \in [Thread -> ThreadState] /\ Others(t)
        /\ th'[t].pc = "clean" /\ th'[t].url \in Url /\ th'[t].hops = 0
    BY <1>1, <1>6, OpenOK
  <2>2. Knows(th[t])'
    BY <2>1, GatewayAssumption DEF Knows, Routed, Busy
  <2> QED
    BY <1>1, <2>1, <2>2, ThreadsKept
<1>7. ASSUME NEW pc \in Pcs, Goto(t, pc), th[t].pc \notin {"idle", "answer", "read"},
             pc \notin {"pull", "learn", "idle", "follow"},
             pc \in Busy => th[t].pc \in Busy,
             pc \in Routed \ {"answer", "read"} => th[t].pc \in Routed \ {"answer", "read"}
      PROVE  ThreadInv'
  <2>1. /\ th' \in [Thread -> ThreadState] /\ Others(t)
        /\ th'[t].pc = pc /\ th'[t].url = th[t].url /\ th'[t].host = th[t].host
        /\ th'[t].at = th[t].at /\ th'[t].conn = th[t].conn /\ th'[t].hops = th[t].hops
        /\ th'[t].reply = th[t].reply /\ th'[t].got = th[t].got
    BY <1>1, <1>7, GotoOK
  <2>2. Knows(th[t])'
    BY <1>2, <1>7, <2>1 DEF Knows
  <2> QED
    BY <1>1, <2>1, <2>2, ThreadsKept
<1>8. CASE SkipCleaning(t) \/ Cleaned(t)
  BY <1>7, <1>8 DEF SkipCleaning, Cleaned, At, Pcs, Busy, Routed
<1>9. CASE FillHosts(t) \/ FillUrls(t)
  <2>1. \E pc \in {"swapHosts", "fillUrls", "swapUrls", "cleaned"} : Goto(t, pc)
    BY <1>9 DEF FillHosts, FillUrls, Fill
  <2>2. th[t].pc \in {"clean", "fillUrls"}
    BY <1>9 DEF FillHosts, FillUrls, At
  <2> QED
    BY <1>7, <2>1, <2>2 DEF Pcs, Busy, Routed
<1>10. CASE SwapHosts(t) \/ SwapUrls(t)
  BY <1>7, <1>10 DEF SwapHosts, SwapUrls, At, Pcs, Busy, Routed
<1>11. CASE ResolveUrl(t)
  <2>1. /\ th' \in [Thread -> ThreadState] /\ Others(t)
        /\ th'[t].pc = "route" /\ th'[t].url \in Url /\ th'[t].hops = th[t].hops
    BY <1>1, <1>11, ResolveOK
  <2>2. Knows(th[t])'
    BY <1>2, <1>11, <2>1 DEF Knows, Routed, Busy, ResolveUrl, At
  <2> QED
    BY <1>1, <2>1, <2>2, ThreadsKept
<1>12. CASE Route(t)
  <2>1. /\ th' \in [Thread -> ThreadState] /\ Others(t)
        /\ th'[t].pc = "pull" /\ th'[t].url = th[t].url /\ th'[t].hops = th[t].hops
        /\ th'[t].host \in Host /\ th'[t].at \in Queues'
    BY <1>12, RouteOK
  <2>2. Knows(th[t])'
    BY <1>2, <1>12, <2>1 DEF Knows, Routed, Busy, Route, At
  <2> QED
    BY <1>1, <2>1, <2>2, ThreadsKept
<1>13. CASE Pull(t)
  <2>1. /\ th' \in [Thread -> ThreadState] /\ Others(t)
        /\ \/ th'[t] = NewThread
           \/ /\ th'[t].pc = "check" /\ th'[t].url = th[t].url /\ th'[t].hops = th[t].hops
              /\ th'[t].host = th[t].host /\ th'[t].conn \in Conns'
    BY <1>1, <1>13, PullOK
  <2>2. CASE th'[t].pc = "check" /\ th'[t].url = th[t].url /\ th'[t].hops = th[t].hops
              /\ th'[t].host = th[t].host /\ th'[t].conn \in Conns'
    <3>1. Knows(th[t])'
      BY <1>2, <1>13, <2>2 DEF Knows, Routed, Busy, Pull, At
    <3> QED
      BY <1>1, <2>1, <3>1, ThreadsKept
  <2> QED
    BY <1>1, <1>4, <2>1, <2>2, ThreadsKept
<1>14. CASE CheckService(t)
  <2>1. CASE Return(t)
    BY <1>1, <1>4, <2>1, ReturnOK, ThreadsKept
  <2>2. CASE Goto(t, "send")
    BY <1>7, <1>14, <2>2 DEF CheckService, At, Pcs, Busy, Routed
  <2> QED
    BY <1>14, <2>1, <2>2 DEF CheckService
<1>15. CASE Send(t)
  BY <1>7, <1>15 DEF Send, At, Pcs, Busy, Routed
<1>16. CASE Receive(t)
  <2>1. /\ th' \in [Thread -> ThreadState] /\ Others(t)
        /\ \/ th'[t] = NewThread
           \/ th'[t].pc = "route" /\ th'[t].url = th[t].url /\ th'[t].hops < MaxHops
           \/ /\ th'[t].pc \in {"follow", "answer"} /\ th'[t].url = th[t].url
              /\ th'[t].hops = th[t].hops /\ th'[t].host = th[t].host
              /\ th'[t].conn = th[t].conn /\ th'[t].reply \in Reply
    BY <1>1, <1>16, ReceiveOK
  <2>2. th[t].pc = "receive"
    BY <1>16 DEF Receive, At
  <2>3. CASE th'[t].pc = "route" /\ th'[t].url = th[t].url /\ th'[t].hops < MaxHops
    <3>1. Knows(th[t])'
      BY <1>2, <2>2, <2>3 DEF Knows, Routed, Busy
    <3> QED
      BY <1>1, <2>1, <3>1, ThreadsKept
  <2>4. CASE /\ th'[t].pc \in {"follow", "answer"} /\ th'[t].url = th[t].url
             /\ th'[t].hops = th[t].hops /\ th'[t].host = th[t].host
             /\ th'[t].conn = th[t].conn /\ th'[t].reply \in Reply
    <3>1. Knows(th[t])'
      BY <1>2, <2>2, <2>4 DEF Knows, Routed, Busy
    <3> QED
      BY <1>1, <2>1, <3>1, ThreadsKept
  <2> QED
    BY <1>1, <1>4, <2>1, <2>3, <2>4, ThreadsKept
<1>17. ASSUME NEW url \in Url, NextHop(t, url), th[t].pc \in {"follow", "learn"}
       PROVE  ThreadInv'
  <2>1. th[t].hops < MaxHops /\ th[t].conn \in Conns
    BY <1>2, <1>17 DEF Knows, Busy
  <2>2. /\ th' \in [Thread -> ThreadState] /\ Others(t)
        /\ th'[t].hops = th[t].hops + 1 /\ th'[t].url = url /\ th'[t].conn = th[t].conn
        /\ IF th[t].hops + 1 < MaxHops THEN th'[t].pc = "route"
           ELSE th[t].hops + 1 = MaxHops /\ th'[t].pc = "answer"
    BY <1>1, <1>17, <2>1, NextHopOK
  <2>3. Knows(th[t])'
    BY <1>2, <2>1, <2>2 DEF Knows, Routed, Busy
  <2> QED
    BY <1>1, <2>2, <2>3, ThreadsKept
<1>18. CASE Follow(t)
  <2>1. th[t].pc = "follow" /\ th[t].url \in Url /\ th[t].reply \in Reply
    BY <1>2, <1>18 DEF Follow, At, Knows
  <2>2. CASE NextHop(t, th[t].url)
    BY <1>17, <2>1, <2>2
  <2>3. CASE Return(t)
    BY <1>1, <1>4, <2>3, ReturnOK, ThreadsKept
  <2>4. CASE th[t].reply.to # NoUrl /\ Goto(t, "learn")
    <3>1. /\ th' \in [Thread -> ThreadState] /\ Others(t)
          /\ th'[t].pc = "learn" /\ th'[t].url = th[t].url /\ th'[t].host = th[t].host
          /\ th'[t].conn = th[t].conn /\ th'[t].hops = th[t].hops
          /\ th'[t].reply = th[t].reply
      BY <1>1, <2>4, GotoOK DEF Pcs
    <3>2. th[t].reply.to \in Url
      BY <2>1, <2>4 DEF Reply
    <3>3. Knows(th[t])'
      BY <1>2, <2>1, <3>1, <3>2 DEF Knows, Routed, Busy
    <3> QED
      BY <1>1, <3>1, <3>3, ThreadsKept
  <2> QED
    BY <1>18, <2>2, <2>3, <2>4 DEF Follow
<1>19. CASE Learn(t)
  <2>1. th[t].pc = "learn" /\ th[t].reply.to \in Url
    BY <1>2, <1>19 DEF Learn, At, Knows
  <2>2. NextHop(t, Target(table[urlTable], th[t].reply.to))
    BY <1>19 DEF Learn
  <2>3. Target(table[urlTable], th[t].reply.to) \in Url
    BY <1>1, <2>1, TargetIn DEF TableInv
  <2> QED
    BY <1>17, <2>1, <2>2, <2>3
<1>20. CASE Answer(t)
  <2>1. CASE Return(t)
    BY <1>1, <1>4, <2>1, ReturnOK, ThreadsKept
  <2>2. CASE th' = [th EXCEPT ![t].pc = "read", ![t].got = conn[th[t].conn].by]
    <3> DEFINE r == [th[t] EXCEPT !.pc = "read", !.got = conn[th[t].conn].by]
    <3>1. th[t].pc = "answer" /\ conn[th[t].conn].by \in Someone
      BY <1>1, <1>2, <1>20, Entries DEF Answer, At, Knows, Busy, Connection
    <3>2. /\ r \in ThreadState /\ r.pc = "read" /\ r.url = th[t].url /\ r.conn = th[t].conn
      BY <1>2, <3>1 DEF ThreadState, Pcs
    <3>3. th' = [th EXCEPT ![t] = r]
      BY <2>2
    <3> HIDE DEF r
    <3>4. th' \in [Thread -> ThreadState] /\ Others(t) /\ th'[t] = r
      BY <1>1, <3>2, <3>3, ThreadMoved
    <3>5. Knows(th[t])'
      BY <1>2, <3>1, <3>2, <3>4 DEF Knows, Routed, Busy
    <3> QED
      BY <1>1, <3>4, <3>5, ThreadsKept
  <2> QED
    BY <1>20, <2>1, <2>2 DEF Answer
<1>21. CASE Finish(t)
  BY <1>1, <1>4, <1>21, ReturnOK, ThreadsKept DEF Finish
<1> QED
  BY <1>5, <1>6, <1>8, <1>9, <1>10, <1>11, <1>12, <1>13, <1>14, <1>15, <1>16, <1>18,
     <1>19, <1>20, <1>21 DEF Step

-----------------------------------------------------------------------------
(* The redirect tables *)

\* From a url to a url, or from a host to a host.
Leads(k, v) == (k \in Url /\ v \in Url) \/ (k \in Host /\ v \in Host)
AreTables(m) ==
  DOMAIN m = 1..3 /\ m = [i \in 1..3 |-> m[i]] /\ \A i \in 1..3 : Redirects(m[i])

\* An entry that leads from a url to a url, or from a host to a host, can be added.
LEMMA WithOK ==
  ASSUME NEW d, Redirects(d), NEW k, NEW v, Leads(k, v)
  PROVE  Redirects(With(d, k, v)) /\ DOMAIN With(d, k, v) = DOMAIN d \cup {k}
<1>1. /\ DOMAIN With(d, k, v) = DOMAIN d \cup {k}
      /\ \A x \in DOMAIN d \cup {k} : With(d, k, v)[x] = IF x = k THEN v ELSE d[x]
  BY DEF With
<1> QED
  BY <1>1, GatewayAssumption DEF Redirects, Leads

\* Shortening a path changes no domain.
LEMMA ShortenedOK ==
  ASSUME TableInv, NEW k, NEW v, Leads(k, v)
  PROVE  /\ AreTables(Shortened(k, v))
         /\ \A i \in 1..3 : DOMAIN Shortened(k, v)[i] = DOMAIN table[i]
<1>1. ASSUME NEW i \in 1..3
      PROVE  Redirects(Shortened(k, v)[i]) /\ DOMAIN Shortened(k, v)[i] = DOMAIN table[i]
  <2>1. Shortened(k, v)[i] = IF k \in DOMAIN table[i] /\ table[i][k] \in DOMAIN table[i]
                             THEN With(table[i], k, v) ELSE table[i]
    BY DEF Shortened, TableInv
  <2>2. Redirects(table[i])
    BY DEF TableInv
  <2>3. Redirects(With(table[i], k, v)) /\ DOMAIN With(table[i], k, v) = DOMAIN table[i] \cup {k}
    BY <2>2, WithOK
  <2> QED
    BY <2>1, <2>2, <2>3
<1>2. DOMAIN Shortened(k, v) = 1..3 /\ Shortened(k, v) = [i \in 1..3 |-> Shortened(k, v)[i]]
  BY DEF Shortened, TableInv
<1> QED
  BY <1>1, <1>2 DEF AreTables

\* Every step of a thread keeps the redirect tables, swept or not.
LEMMA TablesStep ==
  ASSUME TypeInv, NEW t \in Thread, Open(t) \/ Step(t)
  PROVE  TableInv'
<1>1. TableInv /\ ThreadInv /\ th[t] \in ThreadState /\ Knows(th[t]) /\ AreTables(table)
  BY DEF TypeInv, ThreadInv, TableInv, AreTables
\* Steps that do not take part in a sweep.
<1>2. ASSUME Others(t), th'[t].pc \notin Sweeping, AreTables(table'),
             UNCHANGED <<urlTable, hostTable, swapTable, cleaner>>,
             DOMAIN table'[swapTable] \subseteq DOMAIN table[swapTable],
             DOMAIN table'[urlTable] \subseteq Url, DOMAIN table'[hostTable] \subseteq Host
      PROVE  TableInv'
  <2>1. /\ DOMAIN table' = 1..3 /\ table' = [i \in 1..3 |-> table'[i]]
        /\ \A i \in 1..3 : Redirects(table'[i])
    BY <1>2 DEF AreTables
  <2>2. \A s \in Thread : th'[s].pc \in Sweeping => s # t /\ th'[s] = th[s]
    BY <1>2 DEF Others
  <2> QED
    BY <1>1, <1>2, <2>1, <2>2 DEF TableInv, Sweeping
<1>3. ASSUME Others(t), th'[t].pc \notin Sweeping, UNCHANGED tableVars
      PROVE  TableInv'
  BY <1>1, <1>2, <1>3 DEF TableInv, tableVars
<1>4. ASSUME Others(t), th'[t].pc \notin Sweeping, UNCHANGED <<urlTable, hostTable, swapTable, cleaner>>,
             NEW k, NEW v, Leads(k, v),
             table' = Shortened(k, v)
      PROVE  TableInv'
  <2>1. AreTables(table') /\ \A i \in 1..3 : DOMAIN table'[i] = DOMAIN table[i]
    BY <1>1, <1>4, ShortenedOK
  <2> QED
    BY <1>1, <1>2, <1>4, <2>1 DEF TableInv
<1>5. NewThread.pc \notin Sweeping
  BY DEF NewThread, Sweeping
<1>6. CASE ExpireIdle(t)
  BY <1>1, <1>6 DEF ExpireIdle, TableInv, tableVars
<1>7. CASE Open(t)
  <2>1. Others(t) /\ th'[t].pc = "clean"
    BY <1>1, <1>7, OpenOK
  <2> QED
    BY <1>3, <1>7, <2>1 DEF Open, Sweeping
<1>8. CASE SkipCleaning(t)
  <2>1. Others(t) /\ th'[t].pc = "resolve"
    BY <1>1, <1>8, GotoOK DEF SkipCleaning, Pcs
  <2> QED
    BY <1>3, <1>8, <2>1 DEF SkipCleaning, Sweeping
\* A sweep: nobody else takes part in it.
<1>9. ASSUME cleaner = Nobody \/ cleaner = t
      PROVE  \A s \in Thread : s # t => th[s].pc \notin Sweeping
  BY <1>1, <1>9, GatewayAssumption DEF TableInv
<1>10. ASSUME NEW current \in {urlTable, hostTable}, NEW changed \in Pcs, NEW same \in Pcs,
              Fill(t, current, changed, same)
       PROVE  /\ AreTables(table') /\ Others(t) /\ th'[t].pc \in {changed, same}
              /\ DOMAIN table'[swapTable] \subseteq DOMAIN table[current]
              /\ \A i \in 1..3 : i # swapTable => table'[i] = table[i]
  <2>1. PICK S \in SUBSET DOMAIN table[current] :
          /\ table' = [table EXCEPT ![swapTable] = Without(table[current], S)]
          /\ Goto(t, IF S = {} THEN same ELSE changed)
    BY <1>10 DEF Fill
  <2> DEFINE d == Without(table[current], S)
  <2>2. swapTable \in 1..3 /\ Redirects(table[current])
    BY <1>1 DEF TableInv
  <2>3. Redirects(d) /\ DOMAIN d \subseteq DOMAIN table[current]
    BY <2>2 DEF Without, Redirects
  <2>4. table' = [table EXCEPT ![swapTable] = d]
    BY <2>1
  <2> HIDE DEF d
  <2>5. Others(t) /\ th'[t].pc \in {changed, same}
    <3>1. CASE S = {}
      BY <1>1, <2>1, <3>1, GotoOK
    <3>2. CASE S # {}
      BY <1>1, <2>1, <3>2, GotoOK
    <3> QED
      BY <3>1, <3>2
  <2>6. /\ AreTables(table') /\ table'[swapTable] = d
        /\ \A j \in 1..3 : j # swapTable => table'[j] = table[j]
    BY <1>1, <2>2, <2>3, <2>4 DEF AreTables
  <2> QED
    BY <2>3, <2>5, <2>6
<1>11. CASE FillHosts(t)
  <2>1. /\ AreTables(table') /\ Others(t) /\ th'[t].pc \in {"swapHosts", "fillUrls"}
        /\ DOMAIN table'[swapTable] \subseteq DOMAIN table[hostTable]
        /\ \A i \in 1..3 : i # swapTable => table'[i] = table[i]
    BY <1>10, <1>11 DEF FillHosts, Pcs
  <2>2. cleaner = Nobody /\ cleaner' = t /\ UNCHANGED <<urlTable, hostTable, swapTable>>
    BY <1>11 DEF FillHosts
  <2>3. \A s \in Thread : th'[s].pc \in Sweeping => s = t
    BY <1>9, <2>1, <2>2 DEF Others
  <2> QED
    BY <1>1, <2>1, <2>2, <2>3 DEF TableInv, AreTables, Sweeping, Someone
<1>12. CASE FillUrls(t)
  <2>1. /\ AreTables(table') /\ Others(t) /\ th'[t].pc \in {"swapUrls", "cleaned"}
        /\ DOMAIN table'[swapTable] \subseteq DOMAIN table[urlTable]
        /\ \A i \in 1..3 : i # swapTable => table'[i] = table[i]
    BY <1>10, <1>12 DEF FillUrls, Pcs
  <2>2. cleaner = t /\ UNCHANGED <<urlTable, hostTable, swapTable, cleaner>>
    BY <1>1, <1>12 DEF FillUrls, At, TableInv, Sweeping
  <2>3. \A s \in Thread : th'[s].pc \in Sweeping => s = t
    BY <1>9, <2>1, <2>2 DEF Others
  <2> QED
    BY <1>1, <2>1, <2>2, <2>3 DEF TableInv, AreTables, Sweeping, Someone
<1>13. CASE SwapHosts(t)
  <2>1. Others(t) /\ th'[t].pc = "fillUrls"
    BY <1>1, <1>13, GotoOK DEF SwapHosts, Pcs
  <2>2. /\ cleaner = t /\ DOMAIN table[swapTable] \subseteq Host
        /\ hostTable' = swapTable /\ swapTable' = hostTable
        /\ UNCHANGED <<table, urlTable, cleaner>>
    BY <1>1, <1>13 DEF SwapHosts, At, TableInv, Sweeping
  <2>3. \A s \in Thread : th'[s].pc \in Sweeping => s = t
    BY <1>9, <2>1, <2>2 DEF Others
  <2> QED
    BY <1>1, <2>1, <2>2, <2>3 DEF TableInv, Sweeping
<1>14. CASE SwapUrls(t)
  <2>1. Others(t) /\ th'[t].pc = "cleaned"
    BY <1>1, <1>14, GotoOK DEF SwapUrls, Pcs
  <2>2. /\ cleaner = t /\ DOMAIN table[swapTable] \subseteq Url
        /\ urlTable' = swapTable /\ swapTable' = urlTable
        /\ UNCHANGED <<table, hostTable, cleaner>>
    BY <1>1, <1>14 DEF SwapUrls, At, TableInv, Sweeping
  <2>3. \A s \in Thread : th'[s].pc \in Sweeping => s = t
    BY <1>9, <2>1, <2>2 DEF Others
  <2> QED
    BY <1>1, <2>1, <2>2, <2>3 DEF TableInv, Sweeping
<1>15. CASE Cleaned(t)
  <2>1. Others(t) /\ th'[t].pc = "resolve"
    BY <1>1, <1>15, GotoOK DEF Cleaned, Pcs
  <2>2. cleaner = t /\ cleaner' = Nobody /\ UNCHANGED <<table, urlTable, hostTable, swapTable>>
    BY <1>1, <1>15 DEF Cleaned, At, TableInv, Sweeping
  <2>3. \A s \in Thread : th'[s].pc \notin Sweeping
    BY <1>9, <2>1, <2>2 DEF Others, Sweeping
  <2> QED
    BY <1>1, <2>1, <2>2, <2>3 DEF TableInv, Sweeping, Someone
<1>16. CASE ResolveUrl(t)
  <2>1. /\ Others(t) /\ th'[t].pc = "route"
        /\ \E k \in Url : \E v \in Url : table' = Shortened(k, v)
    BY <1>1, <1>16, ResolveOK
  <2>2. UNCHANGED <<urlTable, hostTable, swapTable, cleaner>>
    BY <1>16 DEF ResolveUrl
  <2>3. PICK k, v : Leads(k, v) /\ table' = Shortened(k, v)
    BY <2>1 DEF Leads
  <2>4. th'[t].pc \notin Sweeping
    BY <2>1 DEF Sweeping
  <2> QED
    BY <1>4, <2>1, <2>2, <2>3, <2>4
<1>17. CASE Route(t)
  <2>1. /\ Others(t) /\ th'[t].pc = "pull"
        /\ \E k \in Host : \E v \in Host : table' = Shortened(k, v)
    BY <1>17, RouteOK
  <2>2. UNCHANGED <<urlTable, hostTable, swapTable, cleaner>>
    BY <1>17 DEF Route
  <2>3. PICK k, v : Leads(k, v) /\ table' = Shortened(k, v)
    BY <2>1 DEF Leads
  <2>4. th'[t].pc \notin Sweeping
    BY <2>1 DEF Sweeping
  <2> QED
    BY <1>4, <2>1, <2>2, <2>3, <2>4
<1>18. CASE Pull(t)
  <2>1. Others(t) /\ (th'[t] = NewThread \/ th'[t].pc = "check")
    BY <1>1, <1>18, PullOK DEF TypeInv
  <2> QED
    BY <1>3, <1>5, <1>18, <2>1 DEF Pull, Sweeping
<1>19. CASE CheckService(t)
  <2>1. Others(t) /\ (th'[t] = NewThread \/ th'[t].pc = "send")
    BY <1>1, <1>19, GotoOK, ReturnOK DEF CheckService, Pcs
  <2> QED
    BY <1>3, <1>5, <1>19, <2>1 DEF CheckService, Sweeping
<1>20. CASE Send(t)
  <2>1. Others(t) /\ th'[t].pc = "receive"
    BY <1>1, <1>20, GotoOK DEF Send, Pcs
  <2> QED
    BY <1>3, <1>20, <2>1 DEF Send, Sweeping
<1>21. CASE Receive(t)
  <2>1. Others(t) /\ (th'[t] = NewThread \/ th'[t].pc \in {"route", "follow", "answer"})
    BY <1>1, <1>21, ReceiveOK DEF TypeInv
  <2> QED
    BY <1>3, <1>5, <1>21, <2>1 DEF Receive, Sweeping
<1>22. ASSUME NEW url \in Url, NextHop(t, url), th[t].pc \in {"follow", "learn"}
       PROVE  Others(t) /\ th'[t].pc \in {"route", "answer"}
  BY <1>1, <1>22, NextHopOK DEF Knows
<1>23. CASE Follow(t)
  <2>1. th[t].url \in Url /\ th[t].pc = "follow"
    BY <1>1, <1>23 DEF Follow, At, Knows
  <2>2. Others(t) /\ (th'[t] = NewThread \/ th'[t].pc \in {"route", "answer", "learn"})
    BY <1>1, <1>22, <1>23, <2>1, GotoOK, ReturnOK DEF Follow, Pcs
  <2> QED
    BY <1>3, <1>5, <1>23, <2>2 DEF Follow, Sweeping
<1>24. CASE Learn(t)
  <2> DEFINE r == th[t].reply
             from == th[t].url
             to == Target(table[urlTable], r.to)
             moved == Shortened(r.to, to)
  <2>1. th[t].pc = "learn" /\ r.to \in Url /\ from \in Url /\ th[t].host \in Host
    BY <1>1, <1>24 DEF Learn, At, Knows, Routed
  <2>2. to \in Url /\ to[1] \in Host
    BY <1>1, <2>1, TargetIn DEF TableInv, Url
  <2>3. /\ NextHop(t, to) /\ UNCHANGED <<urlTable, hostTable, swapTable, cleaner>>
        /\ \/ table' = moved
           \/ table' = [moved EXCEPT ![hostTable] = With(moved[hostTable], th[t].host, to[1])]
           \/ table' = [moved EXCEPT ![urlTable] = With(moved[urlTable], from, to)]
    BY <1>24 DEF Learn
  <2> HIDE DEF to
  <2>4. AreTables(moved) /\ \A i \in 1..3 : DOMAIN moved[i] = DOMAIN table[i]
    <3>1. Leads(r.to, to)
      BY <2>1, <2>2 DEF Leads
    <3> QED
      BY <1>1, <3>1, ShortenedOK
  <2> HIDE DEF r, from, moved
  <2>5. Others(t) /\ th'[t].pc \notin Sweeping
    BY <1>22, <2>1, <2>2, <2>3 DEF Sweeping
  <2>6. /\ urlTable \in 1..3 /\ hostTable \in 1..3 /\ swapTable \in 1..3
        /\ urlTable # hostTable /\ urlTable # swapTable /\ hostTable # swapTable
        /\ DOMAIN table[urlTable] \subseteq Url /\ DOMAIN table[hostTable] \subseteq Host
    BY <1>1 DEF TableInv
  <2>7. CASE table' = moved
    BY <1>2, <2>3, <2>4, <2>5, <2>6, <2>7
  <2>8. CASE table' = [moved EXCEPT ![hostTable] = With(moved[hostTable], th[t].host, to[1])]
    <3> DEFINE d == With(moved[hostTable], th[t].host, to[1])
    <3>0. Leads(th[t].host, to[1]) /\ Redirects(moved[hostTable]) /\ DOMAIN moved[hostTable] = DOMAIN table[hostTable]
      BY <2>1, <2>2, <2>4, <2>6 DEF AreTables, Leads
    <3>1. Redirects(d) /\ DOMAIN d = DOMAIN table[hostTable] \cup {th[t].host}
      <4> DEFINE k == th[t].host
                 v == to[1]
      <4>1. Leads(k, v) /\ Redirects(moved[hostTable]) /\ d = With(moved[hostTable], k, v)
        BY <3>0
      <4> HIDE DEF d, k, v
      <4>2. Redirects(d) /\ DOMAIN d = DOMAIN moved[hostTable] \cup {k}
        BY <4>1, WithOK
      <4> QED
        BY <3>0, <4>2 DEF k
    <3> HIDE DEF d
    <3>2. /\ AreTables(table') /\ table'[hostTable] = d
          /\ \A j \in 1..3 : j # hostTable => table'[j] = moved[j]
      <4>1. table' = [moved EXCEPT ![hostTable] = d]
        BY <2>8 DEF d
      <4> QED
        BY <2>4, <2>6, <3>1, <4>1 DEF AreTables
    <3> QED
      BY <1>2, <2>1, <2>3, <2>4, <2>5, <2>6, <3>1, <3>2
  <2>9. CASE table' = [moved EXCEPT ![urlTable] = With(moved[urlTable], from, to)]
    <3> DEFINE d == With(moved[urlTable], from, to)
    <3>0. Leads(from, to) /\ Redirects(moved[urlTable]) /\ DOMAIN moved[urlTable] = DOMAIN table[urlTable]
      BY <2>1, <2>2, <2>4, <2>6 DEF AreTables, Leads
    <3>1. Redirects(d) /\ DOMAIN d = DOMAIN table[urlTable] \cup {from}
      BY <3>0, WithOK
    <3> HIDE DEF d
    <3>2. /\ AreTables(table') /\ table'[urlTable] = d
          /\ \A j \in 1..3 : j # urlTable => table'[j] = moved[j]
      <4>1. table' = [moved EXCEPT ![urlTable] = d]
        BY <2>9 DEF d
      <4> QED
        BY <2>4, <2>6, <3>1, <4>1 DEF AreTables
    <3> QED
      BY <1>2, <2>1, <2>3, <2>4, <2>5, <2>6, <3>1, <3>2
  <2> QED
    BY <2>3, <2>7, <2>8, <2>9
<1>25. CASE Answer(t)
  <2>1. CASE Return(t)
    BY <1>1, <1>3, <1>5, <1>25, <2>1, ReturnOK DEF Answer
  <2>2. CASE th' = [th EXCEPT ![t].pc = "read", ![t].got = conn[th[t].conn].by]
    <3>1. Others(t) /\ th'[t].pc = "read"
      BY <1>1, <2>2 DEF Others, ThreadInv, ThreadState
    <3> QED
      BY <1>3, <1>25, <3>1 DEF Answer, Sweeping
  <2> QED
    BY <1>25, <2>1, <2>2 DEF Answer
<1>26. CASE Finish(t)
  BY <1>1, <1>3, <1>5, <1>26, ReturnOK DEF Finish
<1> QED
  BY <1>6, <1>7, <1>8, <1>11, <1>12, <1>13, <1>14, <1>15, <1>16, <1>17, <1>18, <1>19,
     <1>20, <1>21, <1>23, <1>24, <1>25, <1>26 DEF Step

-----------------------------------------------------------------------------
(* Types are kept *)

\* Every step of a thread keeps the types and the progress of the cleanup.
LEMMA TypeStep ==
  ASSUME TypeInv, NEW t \in Thread, Open(t) \/ Step(t)
  PROVE  TypeInv' /\ UNCHANGED <<main, outOfService>> /\ (exhausted => exhausted')
<1>1. PoolInv' /\ ThreadInv' /\ TableInv'
  BY PoolStep, ThreadStep, TablesStep DEF Grows
<1>2. UNCHANGED <<main, outOfService>>
  BY DEF Open, Step, ExpireIdle, SkipCleaning, FillHosts, SwapHosts, FillUrls, SwapUrls,
     Cleaned, ResolveUrl, Route, Pull, CheckService, Send, Receive, Follow, Learn, Answer, Finish
<1>3. exhausted' = exhausted \/ Learn(t)
  BY DEF Open, Step, ExpireIdle, SkipCleaning, FillHosts, SwapHosts, FillUrls, SwapUrls,
     Cleaned, ResolveUrl, Route, Pull, CheckService, Send, Receive, Follow, Answer, Finish
<1>4. exhausted' \in BOOLEAN /\ (exhausted => exhausted')
  <2>1. CASE Learn(t)
    <3>1. exhausted' = (exhausted \/ th[t].hops + 1 = MaxHops)
      BY <2>1 DEF Learn
    <3> QED
      BY <3>1
  <2> QED
    BY <1>3, <2>1 DEF TypeInv
<1> QED
  BY <1>1, <1>2, <1>4 DEF TypeInv

\* cleanup empties the pools and closes their connections; none of them goes away.
LEMMA CloseAllOK ==
  ASSUME PoolInv, CloseAll
  PROVE  /\ Grows /\ Conns' = Conns /\ Queues' = Queues
         /\ \A c \in Conns : /\ conn'[c].by = conn[c].by
                             /\ conn'[c].resp = "live" => conn[c].resp = "live"
         /\ \A q \in Queues : queue'[q].idle = queue[q].idle \/ queue'[q].idle = <<>>
<1> DEFINE here == {connections[h] : h \in Host} \ {0}
           k(q) == IF q \in here THEN [queue[q] EXCEPT !.idle = <<>>, !.all = {}, !.cleared = TRUE]
                   ELSE queue[q]
<1>1. /\ conn' \in Seq(Connection) /\ Conns' = Conns
      /\ \A c \in Conns : /\ conn'[c].queue = conn[c].queue /\ conn'[c].by = conn[c].by
                          /\ conn'[c].resp = "live" => conn[c].resp = "live"
  BY KilledOK DEF CloseAll
<1>2. queue' = [q \in 1..Len(queue) |-> k(q)] /\ Len(queue) \in Nat
  BY Entries DEF CloseAll
<1>3. \A q \in Queues : /\ k(q) \in Pool /\ k(q).all \subseteq queue[q].all
                        /\ k(q).idle = queue[q].idle \/ k(q).idle = <<>>
  <2> SUFFICES ASSUME NEW q \in Queues
               PROVE  /\ k(q) \in Pool /\ k(q).all \subseteq queue[q].all
                      /\ k(q).idle = queue[q].idle \/ k(q).idle = <<>>
    OBVIOUS
  <2> DEFINE r == [queue[q] EXCEPT !.idle = <<>>, !.all = {}, !.cleared = TRUE]
  <2>1. queue[q] \in Pool
    BY Entries
  <2>2. r \in Pool /\ r.all = {} /\ r.idle = <<>>
    <3> DEFINE a == [queue[q] EXCEPT !.idle = <<>>]
               b == [a EXCEPT !.all = {}]
    <3>1. a \in Pool /\ a.idle = <<>>
      <4> DEFINE e == <<>>
      <4>1. e \in Seq(Nat)
        OBVIOUS
      <4>2. a = [queue[q] EXCEPT !.idle = e]
        OBVIOUS
      <4> HIDE DEF a, e
      <4>3. a \in Pool /\ a.idle = e
        BY <2>1, <4>1, <4>2 DEF Pool
      <4> QED
        BY <4>3 DEF e
    <3>2. b = [queue[q] EXCEPT !.idle = <<>>, !.all = {}]
      OBVIOUS
    <3> HIDE DEF a
    <3>3. b \in Pool /\ b.all = {} /\ b.idle = <<>>
      BY <3>1 DEF Pool
    <3>4. r = [b EXCEPT !.cleared = TRUE]
      BY Zenon DEF a
    <3> HIDE DEF b, r
    <3> QED
      BY <3>3, <3>4 DEF Pool
  <2>3. k(q) = r \/ k(q) = queue[q]
    OBVIOUS
  <2> HIDE DEF k, r
  <2> QED
    BY <2>1, <2>2, <2>3
<1> HIDE DEF k
<1>4. queue' \in Seq(Pool) /\ Queues' = Queues /\ \A q \in Queues : queue'[q] = k(q)
  <2>1. queue' \in Seq(Pool)
    BY <1>2, <1>3, Entries, IsASeq
  <2> QED
    BY <1>2, <2>1, Entries DEF Queues
<1>5. connections' \in [Host -> 0..Len(queue')]
  <2>1. Len(queue') \in Nat
    BY <1>4, LenProperties
  <2>2. connections' = [h \in Host |-> 0]
    BY DEF CloseAll
  <2> QED
    BY <2>1, <2>2
<1>6. \A q \in Queues : \A i \in DOMAIN queue'[q].idle : queue'[q].idle[i] \in Conns
  <2> SUFFICES ASSUME NEW q \in Queues PROVE \A i \in DOMAIN queue'[q].idle : queue'[q].idle[i] \in Conns
    OBVIOUS
  <2>1. CASE queue'[q].idle = <<>>
    BY <2>1
  <2>2. CASE queue'[q].idle = queue[q].idle
    BY <2>2 DEF PoolInv
  <2> QED
    BY <1>3, <1>4, <2>1, <2>2
<1>7. \A q \in Queues : queue'[q].all \subseteq Conns
  BY <1>3, <1>4 DEF PoolInv
<1> QED
  BY <1>1, <1>3, <1>4, <1>5, <1>6, <1>7 DEF Grows, PoolInv

\* Every step of the cleanup keeps the types.
LEMMA CleanupTypes ==
  ASSUME TypeInv, Cleanup
  PROVE  TypeInv'
<1>1. PoolInv /\ ThreadInv /\ TableInv
  BY DEF TypeInv
<1>2. CASE GoOutOfService
  BY <1>1, <1>2 DEF GoOutOfService, TypeInv, PoolInv, ThreadInv, TableInv, Knows, poolVars,
     tableVars, Conns, Queues
<1>3. CASE CloseAll
  <2>1. Grows /\ UNCHANGED <<th, tableVars, outOfService, exhausted>> /\ main' = "forgetting"
    BY <1>1, <1>3, CloseAllOK DEF CloseAll
  <2>2. ThreadInv' /\ TableInv'
    BY <1>1, <2>1 DEF ThreadInv, Knows, Grows, TableInv, tableVars
  <2> QED
    BY <2>1, <2>2 DEF TypeInv, Grows
<1>4. CASE ForgetRedirects
  <2>1. /\ UNCHANGED <<poolVars, conn, urlTable, hostTable, swapTable, cleaner, th, outOfService, exhausted>>
        /\ main' = "closed" /\ table' = [table EXCEPT ![hostTable] = Empty, ![urlTable] = Empty]
    BY <1>4 DEF ForgetRedirects
  <2>2. PoolInv' /\ ThreadInv'
    BY <1>1, <2>1 DEF PoolInv, ThreadInv, Knows, poolVars, Conns, Queues
  <2>3. Redirects(Empty) /\ DOMAIN Empty = {}
    BY DEF Empty, Redirects
  <2>4. /\ DOMAIN table' = 1..3 /\ table' = [i \in 1..3 |-> table'[i]]
        /\ \A i \in 1..3 : table'[i] = Empty \/ table'[i] = table[i]
        /\ table'[hostTable] = Empty /\ table'[urlTable] = Empty
        /\ table'[swapTable] = table[swapTable]
    BY <1>1, <2>1 DEF TableInv
  <2> HIDE <2>1
  <2>5. UNCHANGED <<urlTable, hostTable, swapTable, cleaner, th, outOfService, exhausted>> /\ main' = "closed"
    BY <2>1
  <2>6. TableInv'
    BY <1>1, <2>3, <2>4, <2>5 DEF TableInv
  <2> QED
    BY <2>2, <2>5, <2>6 DEF TypeInv
<1> QED
  BY <1>2, <1>3, <1>4 DEF Cleanup

-----------------------------------------------------------------------------
(* One user per connection, and its answer is the user's own *)

\* Steps in which the pools lose something or nothing and no thread gets a
\* connection.
LEMMA OwnHeld ==
  ASSUME TypeInv, OwnInv, NEW t \in Thread, Others(t),
         \A q \in Queues' : \A i \in DOMAIN queue'[q].idle :
           q \in Queues /\ i \in DOMAIN queue[q].idle /\ queue'[q].idle[i] = queue[q].idle[i],
         th'[t].pc \in Busy => th[t].pc \in Busy /\ th'[t].conn = th[t].conn,
         \A c \in Conns : \/ th[t].pc \in Busy /\ c = th[t].conn
                          \/ conn'[c].resp = "live" => conn[c].resp = "live" /\ conn'[c].by = conn[c].by,
         th'[t].pc \in Answering /\ conn'[th'[t].conn].resp = "live" => conn'[th'[t].conn].by = t,
         th'[t].pc = "read" => th'[t].got = t
  PROVE  OwnInv'
<1>1. ASSUME NEW s \in Thread, th'[s].pc \in Busy
      PROVE  th[s].pc \in Busy /\ th'[s].conn = th[s].conn
  BY <1>1 DEF Others
<1>2. OneUser'
  BY <1>1 DEF OwnInv, OneUser
<1>3. UsedNotIdle'
  BY <1>1 DEF OwnInv, UsedNotIdle
<1>4. IdleOnce'
  BY DEF OwnInv, IdleOnce
<1>5. ASSUME NEW s \in Thread, s # t, th[s].pc \in Answering, conn'[th[s].conn].resp = "live"
      PROVE  conn'[th[s].conn].by = s
  <2>1. th[s].pc \in Busy /\ th[s].conn \in Conns
    BY <1>5 DEF Answering, Busy, TypeInv, ThreadInv, Knows
  <2>2. ~(th[t].pc \in Busy /\ th[s].conn = th[t].conn)
    BY <1>5, <2>1 DEF OwnInv, OneUser
  <2> QED
    BY <1>5, <2>1, <2>2 DEF OwnInv, Answered
<1>6. Answered'
  BY <1>5 DEF Answered, Others, OwnInv
<1> QED
  BY <1>2, <1>3, <1>4, <1>6 DEF OwnInv

\* The user of a connection gives it back.
LEMMA OwnGivenBack ==
  ASSUME TypeInv, OwnInv, NEW t \in Thread, th[t].pc \in Busy, FinishResponse(th[t].conn),
         Others(t), th'[t].pc \notin Busy
  PROVE  OwnInv'
<1> DEFINE c == th[t].conn
<1>1. PoolInv /\ c \in Conns /\ th'[t].pc \notin Answering /\ th'[t].pc # "read"
  BY DEF TypeInv, ThreadInv, Knows, Busy, Answering
<1>2. /\ Conns' = Conns
      /\ \A d \in Conns : conn'[d].by = conn[d].by
      /\ \A d \in Conns : d # c => conn'[d].resp = conn[d].resp
      /\ \/ UNCHANGED queue
         \/ queue' = [queue EXCEPT ![conn[c].queue].idle = Append(@, c)]
  BY <1>1, FinishResponseOK
<1>3. CASE UNCHANGED queue
  BY <1>1, <1>2, <1>3, OwnHeld DEF Queues
<1>4. CASE queue' = [queue EXCEPT ![conn[c].queue].idle = Append(@, c)]
  <2> DEFINE p == conn[c].queue
             n == Len(queue[p].idle)
  <2>1. p \in Queues
    BY <1>1 DEF PoolInv
  <2>2. n \in Nat /\ DOMAIN queue[p].idle = 1..n
    BY <1>1, <2>1, Idle
  <2> HIDE DEF p
  <2>3. queue' = [queue EXCEPT ![p].idle = Append(@, c)]
    BY <1>4 DEF p
  <2> HIDE DEF c
  <2>4. /\ Queues' = Queues
        /\ \A q \in Queues : q # p => queue'[q] = queue[q]
        /\ DOMAIN queue'[p].idle = 1..(n + 1)
        /\ \A i \in DOMAIN queue[p].idle : queue'[p].idle[i] = queue[p].idle[i]
        /\ queue'[p].idle[n + 1] = c
    BY <1>1, <2>1, <2>3, Pushed
  <2> HIDE DEF n
  <2>5. \A q \in Queues : \A i \in DOMAIN queue'[q].idle :
          \/ i \in DOMAIN queue[q].idle /\ queue'[q].idle[i] = queue[q].idle[i]
          \/ q = p /\ i = n + 1 /\ queue'[q].idle[i] = c
    BY <2>1, <2>2, <2>4
  <2>6. \A q \in Queues : \A i \in DOMAIN queue[q].idle : queue[q].idle[i] # c
    BY DEF OwnInv, UsedNotIdle, c
  <2>7. \A s \in Thread : th'[s].pc \in Busy => s # t /\ th'[s] = th[s] /\ th[s].conn # c
    BY DEF Others, OwnInv, OneUser, c
  <2>8. OneUser'
    BY <2>7 DEF OwnInv, OneUser
  <2>9. UsedNotIdle'
    BY <2>4, <2>5, <2>7 DEF OwnInv, UsedNotIdle
  <2>10. IdleOnce'
    BY <2>4, <2>5, <2>6 DEF OwnInv, IdleOnce
  <2>11. Answered'
    <3>1. \A s \in Thread : th'[s].pc \in Answering => th[s].conn \in Conns /\ th[s].conn # c /\ th'[s] = th[s]
      BY <2>7 DEF Answering, Busy, TypeInv, ThreadInv, Knows
    <3>2. ASSUME NEW s \in Thread, th'[s].pc \in Answering, conn'[th'[s].conn].resp = "live"
          PROVE  conn'[th'[s].conn].by = s
      <4>1. conn'[th[s].conn].by = conn[th[s].conn].by /\ conn'[th[s].conn].resp = conn[th[s].conn].resp
        BY <1>2, <3>1, <3>2 DEF c
      <4> QED
        BY <3>1, <3>2, <4>1 DEF OwnInv, Answered
    <3>3. ASSUME NEW s \in Thread, th'[s].pc = "read" PROVE th'[s].got = s
      BY <3>1, <3>3 DEF OwnInv, Answered, Answering
    <3> QED
      BY <3>2, <3>3 DEF Answered
  <2> QED
    BY <2>8, <2>9, <2>10, <2>11 DEF OwnInv
<1> QED
  BY <1>2, <1>3, <1>4

\* A sweep of a pool leaves what it keeps where it was, but for the positions.
LEMMA SweepOK ==
  ASSUME PoolInv, NEW q \in Queues, NEW n, NEW kept, Sweep(q, n, kept)
  PROVE  /\ Queues' = Queues /\ Conns' = Conns
         /\ \A p \in Queues : p # q => queue'[p] = queue[p]
         /\ n \in Nat /\ DOMAIN queue'[q].idle = 1..n
         /\ \A i \in 1..n : kept[i] \in DOMAIN queue[q].idle /\ queue'[q].idle[i] = queue[q].idle[kept[i]]
         /\ \A i, j \in 1..n : kept[i] = kept[j] => i = j
         /\ \A c \in Conns : /\ conn'[c].by = conn[c].by
                             /\ conn'[c].resp = "live" => conn[c].resp = "live"
         /\ \A c \in Conns : c \notin Dropped(q, n, kept) => conn'[c] = conn[c]
         /\ \A c \in Conns : c \in Dropped(q, n, kept) => ~conn'[c].open
<1>1. n \in Nat /\ kept \in [1..n -> DOMAIN queue[q].idle] /\ DOMAIN queue[q].idle \subseteq Nat
  BY Idle DEF Sweep
<1>2. \A i, j \in 1..n : kept[i] = kept[j] => i = j
  BY <1>1 DEF Sweep
<1> DEFINE s == [i \in 1..n |-> queue[q].idle[kept[i]]]
           r == [queue[q] EXCEPT !.idle = s]
<1>3. \A i \in 1..n : queue[q].idle[kept[i]] \in Nat
  BY <1>1, Entries DEF PoolInv
<1>4. /\ s \in Seq(Nat) /\ DOMAIN s = 1..n
      /\ \A i \in 1..n : s[i] = queue[q].idle[kept[i]]
  BY <1>1, <1>3, IsASeq
<1> HIDE DEF s
<1>5. r \in Pool /\ r.idle = s
  BY <1>4, Entries DEF Pool
<1>6. queue' = [queue EXCEPT ![q] = r]
  BY DEF s, Sweep
<1> HIDE DEF r
<1>7. Queues' = Queues /\ queue'[q] = r /\ \A p \in Queues : p # q => queue'[p] = queue[p]
  BY <1>5, <1>6, PoolChanged
<1>8. /\ Conns' = Conns
      /\ \A c \in Conns : /\ conn'[c].by = conn[c].by
                          /\ conn'[c].resp = "live" => conn[c].resp = "live"
      /\ \A c \in Conns : c \in Dropped(q, n, kept) => ~conn'[c].open
  BY KilledOK DEF Sweep
<1>9. \A c \in Conns : c \notin Dropped(q, n, kept) => conn'[c] = conn[c]
  BY DEF Sweep, Killed
<1> QED
  BY <1>1, <1>2, <1>4, <1>5, <1>7, <1>8, <1>9

\* A sweep gives no thread a connection.
LEMMA OwnSwept ==
  ASSUME TypeInv, OwnInv, NEW t \in Thread, ExpireIdle(t)
  PROVE  OwnInv'
<1>1. PoolInv /\ th' = th
  BY DEF TypeInv, ExpireIdle
<1>2. PICK q \in Queues : \E n, kept : Sweep(q, n, kept)
  BY Swept
<1>3. PICK n, kept : Sweep(q, n, kept)
  BY <1>2
<1>4. /\ Queues' = Queues /\ Conns' = Conns
      /\ \A p \in Queues : p # q => queue'[p] = queue[p]
      /\ DOMAIN queue'[q].idle = 1..n
      /\ \A i \in 1..n : kept[i] \in DOMAIN queue[q].idle /\ queue'[q].idle[i] = queue[q].idle[kept[i]]
      /\ \A i, j \in 1..n : kept[i] = kept[j] => i = j
      /\ \A c \in Conns : /\ conn'[c].by = conn[c].by
                          /\ conn'[c].resp = "live" => conn[c].resp = "live"
  BY <1>1, <1>3, SweepOK
\* Where something that is still idle was before.
<1> DEFINE was(p, i) == IF p = q THEN kept[i] ELSE i
<1>5. /\ \A p \in Queues : \A i \in DOMAIN queue'[p].idle :
           was(p, i) \in DOMAIN queue[p].idle /\ queue'[p].idle[i] = queue[p].idle[was(p, i)]
      /\ \A p \in Queues : \A i, j \in DOMAIN queue'[p].idle : was(p, i) = was(p, j) => i = j
  BY <1>4
<1> HIDE DEF was
<1>6. OneUser'
  BY <1>1 DEF OwnInv, OneUser
<1>7. UsedNotIdle'
  BY <1>1, <1>4, <1>5 DEF OwnInv, UsedNotIdle
<1>8. IdleOnce'
  <2> SUFFICES ASSUME NEW p \in Queues, NEW r \in Queues, NEW i \in DOMAIN queue'[p].idle,
                      NEW j \in DOMAIN queue'[r].idle, queue'[p].idle[i] = queue'[r].idle[j]
               PROVE  p = r /\ i = j
    BY <1>4 DEF IdleOnce
  <2>1. queue[p].idle[was(p, i)] = queue[r].idle[was(r, j)]
    BY <1>5
  <2>2. p = r /\ was(p, i) = was(r, j)
    BY <1>5, <2>1 DEF OwnInv, IdleOnce
  <2> QED
    BY <1>5, <2>2
<1>9. Answered'
  <2>1. \A s \in Thread : th[s].pc \in Answering => th[s].conn \in Conns
    BY DEF Answering, Busy, TypeInv, ThreadInv, Knows
  <2> QED
    BY <1>1, <1>4, <2>1 DEF OwnInv, Answered
<1> QED
  BY <1>6, <1>7, <1>8, <1>9 DEF OwnInv

\* A thread gets an idle connection, which nobody uses, or a new one.
LEMMA OwnPulled ==
  ASSUME TypeInv, OwnInv, NEW t \in Thread, Pull(t), th'[t].pc = "check"
  PROVE  /\ OwnInv'
         /\ \A c \in Conns : conn'[c] = conn[c]
         /\ \A c \in Conns : c # th'[t].conn /\ InPool(c) => InPool(c)'
         /\ \A c \in Conns' : c \in Conns \/ c = th'[t].conn
<1> DEFINE q == th[t].at
           idle == queue[q].idle
           new == Len(conn) + 1
<1>1. PoolInv /\ ThreadInv /\ q \in Queues /\ Others(t)
  BY PullOK DEF TypeInv, ThreadInv, Knows, Pull, At
<1>2. \A s \in Thread : th[s].pc \in Busy => th[s].conn \in Conns
  BY <1>1 DEF ThreadInv, Knows
<1>3. ASSUME NEW c, th'[t].conn = c,
             \A s \in Thread : th[s].pc \in Busy => th[s].conn # c,
             Queues' = Queues,
             \A p \in Queues : \A i \in DOMAIN queue'[p].idle :
               /\ i \in DOMAIN queue[p].idle /\ queue'[p].idle[i] = queue[p].idle[i]
               /\ queue'[p].idle[i] # c,
             \A d \in Conns : conn'[d] = conn[d]
      PROVE  OwnInv'
  <2>1. OneUser'
    BY <1>1, <1>3 DEF OwnInv, OneUser, Others
  <2>2. UsedNotIdle'
    BY <1>1, <1>3 DEF OwnInv, UsedNotIdle, Others
  <2>3. IdleOnce'
    BY <1>3 DEF OwnInv, IdleOnce
  <2>4. Answered'
    <3>1. th'[t].pc \notin Answering /\ th'[t].pc # "read"
      BY DEF Answering
    <3>2. \A s \in Thread : th[s].pc \in Answering => th[s].conn \in Conns
      BY <1>2 DEF Answering, Busy
    <3> QED
      BY <1>1, <1>3, <3>1, <3>2 DEF OwnInv, Answered, Others
  <2> QED
    BY <2>1, <2>2, <2>3, <2>4 DEF OwnInv
<1>4. th[t] \in ThreadState /\ \A c : th' = [th EXCEPT ![t].pc = "check", ![t].conn = c] => th'[t].conn = c
  BY <1>1 DEF ThreadInv, ThreadState
<1>5. CASE /\ idle # <<>> /\ UNCHANGED conn
           /\ queue' = [queue EXCEPT ![q].idle = SubSeq(idle, 1, Len(idle) - 1)]
           /\ th' = [th EXCEPT ![t].pc = "check", ![t].conn = idle[Len(idle)]]
  <2> DEFINE n == Len(idle)
             s == SubSeq(idle, 1, n - 1)
             r == [queue[q] EXCEPT !.idle = s]
             c == idle[n]
  <2>1. idle \in Seq(Nat) /\ n \in Nat /\ DOMAIN idle = 1..n /\ n # 0
    <3>1. idle \in Seq(Nat) /\ n \in Nat /\ DOMAIN idle = 1..n
      BY <1>1, Idle
    <3> QED
      BY <1>5, <3>1, EmptySeq
  <2>2. s \in Seq(Nat) /\ DOMAIN s = 1..(n - 1) /\ \A i \in 1..(n - 1) : s[i] = idle[i]
    <3> HIDE DEF idle
    <3>2. \A i \in 1..(n - 1) : idle[i] \in Nat
      BY <2>1
    <3>3. /\ s \in Seq(Nat) /\ Len(s) = IF 1 <= n - 1 THEN n - 1 ELSE 0
          /\ \A i \in 1..(n - 1) : s[i] = idle[i]
      BY <2>1, <3>2, SubSeqProperties
    <3>4. DOMAIN s = 1..Len(s)
      BY <3>3, LenProperties
    <3> QED
      BY <2>1, <3>3, <3>4
  <2>3. queue' = [queue EXCEPT ![q] = r] /\ th'[t].conn = c /\ conn' = conn
    BY <1>4, <1>5
  <2> HIDE DEF s
  <2>4. r \in Pool /\ r.idle = s
    BY <1>1, <2>2, Entries DEF Pool
  <2> HIDE DEF r
  <2>5. Queues' = Queues /\ queue'[q] = r /\ \A p \in Queues : p # q => queue'[p] = queue[p]
    BY <1>1, <2>3, <2>4, PoolChanged
  <2>6. Conns' = Conns /\ th'[t].conn = c /\ conn' = conn
    BY <2>3 DEF Conns
  <2> HIDE <1>5, <2>3
  <2>7. \A p \in Queues : \A i \in DOMAIN queue[p].idle : queue[p].idle[i] = c => p = q /\ i = n
    BY <1>1, <2>1 DEF OwnInv, IdleOnce
  <2>8. \A u \in Thread : th[u].pc \in Busy => th[u].conn # c
    BY <1>1, <2>1 DEF OwnInv, UsedNotIdle
  <2>9. idle = queue[q].idle
    OBVIOUS
  <2> HIDE DEF c, idle, n
  <2>10. \A p \in Queues : \A i \in DOMAIN queue'[p].idle :
             /\ i \in DOMAIN queue[p].idle /\ queue'[p].idle[i] = queue[p].idle[i]
             /\ queue'[p].idle[i] # c
    <3> SUFFICES ASSUME NEW p \in Queues, NEW i \in DOMAIN queue'[p].idle
                 PROVE  /\ i \in DOMAIN queue[p].idle /\ queue'[p].idle[i] = queue[p].idle[i]
                        /\ queue'[p].idle[i] # c
      OBVIOUS
    <3>1. CASE p = q
      <4>1. i \in 1..(n - 1) /\ queue'[p].idle[i] = idle[i]
        BY <2>2, <2>4, <2>5, <3>1
      <4>2. i \in DOMAIN queue[p].idle /\ i # n
        BY <2>1, <2>9, <3>1, <4>1
      <4> QED
        BY <2>7, <2>9, <3>1, <4>1, <4>2
    <3>2. CASE p # q
      BY <2>5, <2>7, <3>2
    <3> QED
      BY <3>1, <3>2
  <2>11. OwnInv'
    BY <1>3, <2>5, <2>6, <2>8, <2>10
  <2>12. ASSUME NEW d \in Conns, d # c, InPool(d) PROVE InPool(d)'
    <3>1. PICK p \in Queues : \E i \in DOMAIN queue[p].idle : queue[p].idle[i] = d
      BY <2>12 DEF InPool
    <3>2. PICK i \in DOMAIN queue[p].idle : queue[p].idle[i] = d
      BY <3>1
    <3>3. i \in DOMAIN queue'[p].idle /\ queue'[p].idle[i] = d
      <4>1. CASE p = q
        <5>1. i # n
          BY <2>7, <2>9, <2>12, <3>2, <4>1 DEF c
        <5>2. i \in 1..(n - 1)
          BY <2>1, <2>9, <4>1, <5>1
        <5> QED
          BY <2>2, <2>4, <2>5, <2>9, <3>2, <4>1, <5>2
      <4>2. CASE p # q
        BY <2>5, <3>2, <4>2
      <4> QED
        BY <4>1, <4>2
    <3> QED
      BY <2>5, <3>3 DEF InPool
  <2> QED
    BY <2>6, <2>11, <2>12
<1>6. CASE /\ conn' = Append(conn, [queue |-> q, open |-> FALSE, resp |-> "none", by |-> Nobody])
           /\ queue' = [queue EXCEPT ![q].all = @ \cup {new}]
           /\ th' = [th EXCEPT ![t].pc = "check", ![t].conn = new]
  <2> DEFINE e == [queue |-> q, open |-> FALSE, resp |-> "none", by |-> Nobody]
             r == [queue[q] EXCEPT !.all = queue[q].all \cup {new}]
  <2>1. e \in Connection /\ new \in Nat /\ new \notin Conns
    BY <1>1, Entries DEF Connection, Someone
  <2> HIDE DEF e
  <2>2. /\ conn' \in Seq(Connection) /\ Len(conn') = new /\ \A c \in Conns : conn'[c] = conn[c]
    BY <1>1, <1>6, <2>1, Entries, AppendProperties DEF e, PoolInv
  <2>3. Conns' = Conns \cup {new}
    BY <1>1, <2>2, LenProperties, Entries DEF Conns
  <2>4. r \in Pool /\ r.idle = idle
    BY <1>1, <2>1, Entries DEF Pool
  <2>5. queue' = [queue EXCEPT ![q] = r] /\ th'[t].conn = new
    BY <1>4, <1>6
  <2> HIDE DEF r
  <2>6. Queues' = Queues /\ queue'[q] = r /\ \A p \in Queues : p # q => queue'[p] = queue[p]
    BY <1>1, <2>4, <2>5, PoolChanged
  <2>7. th'[t].conn = new
    BY <2>5
  <2> HIDE <1>6, <2>5
  <2>8. \A p \in Queues : queue'[p].idle = queue[p].idle
    BY <2>4, <2>6
  <2>9. \A p \in Queues : \A i \in DOMAIN queue[p].idle : queue[p].idle[i] # new
    BY <1>1, <2>1 DEF PoolInv
  <2> HIDE DEF new
  <2>10. OwnInv'
    BY <1>2, <1>3, <2>1, <2>2, <2>6, <2>7, <2>8, <2>9
  <2>11. \A c \in Conns : InPool(c) => InPool(c)'
    BY <2>6, <2>8 DEF InPool
  <2> QED
    BY <2>2, <2>3, <2>7, <2>10, <2>11
<1>7. \/ th'[t] = NewThread
      \/ /\ idle # <<>> /\ UNCHANGED conn
         /\ queue' = [queue EXCEPT ![q].idle = SubSeq(idle, 1, Len(idle) - 1)]
         /\ th' = [th EXCEPT ![t].pc = "check", ![t].conn = idle[Len(idle)]]
      \/ /\ conn' = Append(conn, [queue |-> q, open |-> FALSE, resp |-> "none", by |-> Nobody])
         /\ queue' = [queue EXCEPT ![q].all = @ \cup {new}]
         /\ th' = [th EXCEPT ![t].pc = "check", ![t].conn = new]
  <2>1. Return(t) => th'[t] = NewThread
    BY <1>1, ReturnOK
  <2> QED
    BY <2>1, Zenon DEF Pull
<1>8. th'[t] # NewThread
  BY DEF NewThread
<1> HIDE DEF q, idle, new
<1> QED
  BY <1>5, <1>6, <1>7, <1>8, Zenon

\* Steps of a thread that touch neither pools nor connections.
LEMMA OwnUnmoved ==
  ASSUME TypeInv, OwnInv, NEW t \in Thread, Others(t), UNCHANGED <<queue, conn>>,
         th'[t].pc \in Busy => th[t].pc \in Busy /\ th'[t].conn = th[t].conn,
         th'[t].pc \in Answering => th[t].pc \in Answering,
         th'[t].pc = "read" => th'[t].got = t
  PROVE  OwnInv'
<1>1. Answering \subseteq Busy
  BY DEF Answering, Busy
<1>2. th'[t].pc \in Answering /\ conn'[th'[t].conn].resp = "live" => conn'[th'[t].conn].by = t
  BY <1>1 DEF OwnInv, Answered
<1> QED
  BY <1>2, OwnHeld DEF Queues

\* A pool that is new has no connections; the others are as before.
LEMMA RoutedPools ==
  ASSUME TypeInv, NEW t \in Thread, Route(t)
  PROVE  /\ \A q \in Queues : q \in Queues' /\ queue'[q] = queue[q]
         /\ \A q \in Queues' : \A i \in DOMAIN queue'[q].idle :
              q \in Queues /\ i \in DOMAIN queue[q].idle /\ queue'[q].idle[i] = queue[q].idle[i]
<1> DEFINE e == [host |-> th'[t].host, idle |-> <<>>, all |-> {}, cleared |-> FALSE]
<1>1. th'[t].host \in Host /\ (queue' = queue \/ queue' = Append(queue, e))
  BY RouteOK
<1>2. CASE queue' = queue
  BY <1>2 DEF Queues
<1>3. CASE queue' = Append(queue, e)
  <2>1. e \in Pool /\ DOMAIN e.idle = {}
    BY <1>1 DEF Pool
  <2> HIDE DEF e
  <2>2. /\ queue' \in Seq(Pool) /\ Len(queue') = Len(queue) + 1
        /\ \A p \in Queues : queue'[p] = queue[p]
        /\ queue'[Len(queue) + 1] = e
    BY <1>3, <2>1, Entries, AppendProperties DEF PoolInv, TypeInv
  <2>3. Queues' = Queues \cup {Len(queue) + 1}
    BY <2>2, LenProperties, Entries DEF Queues, TypeInv
  <2> HIDE <1>3
  <2> QED
    BY <2>1, <2>2, <2>3
<1> QED
  BY <1>1, <1>2, <1>3

\* Every step of a thread leaves connections and answers with their users.
LEMMA OwnStep ==
  ASSUME TypeInv, OwnInv, NEW t \in Thread, Open(t) \/ Step(t), ~exhausted'
  PROVE  OwnInv'
<1>1. PoolInv /\ ThreadInv /\ TableInv /\ th[t] \in ThreadState /\ Knows(th[t])
  BY DEF TypeInv, ThreadInv
<1>2. NewThread.pc \notin Busy /\ NewThread.pc \notin Answering /\ NewThread.pc # "read"
  BY DEF NewThread, Busy, Answering
<1>3. ASSUME Others(t), UNCHANGED <<queue, conn>>, th'[t].pc \notin Busy
      PROVE  OwnInv'
  <2>1. th'[t].pc \notin Answering /\ th'[t].pc # "read"
    BY <1>3 DEF Busy, Answering
  <2> QED
    BY <1>3, <2>1, OwnUnmoved
<1>4. ASSUME Return(t), UNCHANGED <<queue, conn>>
      PROVE  OwnInv'
  BY <1>1, <1>2, <1>3, <1>4, ReturnOK
<1>5. ASSUME NEW pc \in Pcs \ Busy, Goto(t, pc), UNCHANGED <<queue, conn>>
      PROVE  OwnInv'
  BY <1>1, <1>3, <1>5, GotoOK
<1>6. CASE Open(t)
  <2>1. Others(t) /\ th'[t].pc = "clean" /\ UNCHANGED <<queue, conn>>
    BY <1>1, <1>6, OpenOK DEF Open, poolVars
  <2> QED
    BY <1>3, <2>1 DEF Busy
<1>7. CASE ExpireIdle(t)
  BY <1>7, OwnSwept
<1>8. CASE SkipCleaning(t) \/ Cleaned(t)
  BY <1>5, <1>8 DEF SkipCleaning, Cleaned, Pcs, Busy, poolVars
<1>9. CASE FillHosts(t) \/ FillUrls(t)
  <2>1. \E pc \in {"swapHosts", "fillUrls", "swapUrls", "cleaned"} : Goto(t, pc)
    BY <1>9 DEF FillHosts, FillUrls, Fill
  <2> QED
    BY <1>5, <1>9, <2>1 DEF FillHosts, FillUrls, Pcs, Busy, poolVars
<1>10. CASE SwapHosts(t) \/ SwapUrls(t)
  BY <1>5, <1>10 DEF SwapHosts, SwapUrls, Pcs, Busy, poolVars
<1>11. CASE ResolveUrl(t)
  <2>1. Others(t) /\ th'[t].pc = "route" /\ UNCHANGED <<queue, conn>>
    BY <1>1, <1>11, ResolveOK DEF ResolveUrl, poolVars
  <2> QED
    BY <1>3, <2>1 DEF Busy
<1>12. CASE Route(t)
  <2>1. /\ Others(t) /\ th'[t].pc = "pull" /\ UNCHANGED conn
        /\ queue' = queue \/ queue' = Append(queue, [host |-> th'[t].host, idle |-> <<>>,
                                                     all |-> {}, cleared |-> FALSE])
    BY <1>12, RouteOK DEF Route
  <2>2. th'[t].pc \notin Busy /\ th'[t].pc \notin Answering /\ th'[t].pc # "read"
    BY <2>1 DEF Busy, Answering
  <2>3. \A q \in Queues' : \A i \in DOMAIN queue'[q].idle :
           q \in Queues /\ i \in DOMAIN queue[q].idle /\ queue'[q].idle[i] = queue[q].idle[i]
    BY <1>12, RoutedPools
  <2> QED
    BY <2>1, <2>2, <2>3, OwnHeld
<1>13. CASE Pull(t)
  <2>1. CASE th'[t].pc = "check"
    BY <1>13, <2>1, OwnPulled
  <2>2. CASE th'[t] = NewThread /\ UNCHANGED <<queue, conn>>
    BY <1>1, <1>2, <1>3, <1>13, <2>2, PullOK
  <2> QED
    BY <1>1, <1>13, <2>1, <2>2, PullOK
<1>14. CASE CheckService(t)
  <2>1. UNCHANGED <<queue, conn>> /\ th[t].pc \in Busy
    BY <1>14 DEF CheckService, At, poolVars, Busy
  <2>2. CASE Goto(t, "send")
    <3>1. Others(t) /\ th'[t].pc = "send" /\ th'[t].conn = th[t].conn
      BY <1>1, <2>2, GotoOK DEF Pcs
    <3> QED
      BY <2>1, <3>1, OwnUnmoved DEF Busy, Answering
  <2> QED
    BY <1>4, <1>14, <2>1, <2>2 DEF CheckService
<1>15. CASE Send(t)
  <2>1. Others(t) /\ th'[t].pc = "receive" /\ th'[t].conn = th[t].conn /\ UNCHANGED queue
    BY <1>1, <1>15, GotoOK DEF Send, Pcs, poolVars
  <2>2. th[t].pc \in Busy /\ th[t].conn \in Conns
    BY <1>1, <1>15 DEF Send, At, Busy, Knows
  <2>3. \A c \in Conns : conn'[c].resp = "live" => conn[c].resp = "live" /\ conn'[c].by = conn[c].by
    BY <1>1, <1>15, <2>2, SendOK
  <2>4. th'[t].pc \notin Answering /\ th'[t].pc # "read"
    BY <2>1 DEF Answering
  <2> QED
    BY <2>1, <2>2, <2>3, <2>4, OwnHeld DEF Queues
<1>16. CASE Receive(t)
  <2>1. UNCHANGED queue /\ th[t].pc \in Busy
    BY <1>16 DEF Receive, At, Busy, poolVars
  <2>2. /\ Others(t)
        /\ \A c \in Conns : c # th[t].conn => conn'[c] = conn[c]
        /\ \/ th'[t] = NewThread
           \/ th'[t].pc = "route"
           \/ /\ th'[t].pc \in {"follow", "answer"} /\ th'[t].conn = th[t].conn
              /\ conn'[th[t].conn].by = t
    BY <1>1, <1>16, ReceiveOK
  <2>3. /\ th'[t].pc \in Busy => th[t].pc \in Busy /\ th'[t].conn = th[t].conn
        /\ th'[t].pc \in Answering /\ conn'[th'[t].conn].resp = "live" => conn'[th'[t].conn].by = t
        /\ th'[t].pc # "read"
    BY <1>2, <2>1, <2>2 DEF Busy, Answering
  <2> QED
    BY <2>1, <2>2, <2>3, OwnHeld DEF Queues
<1>17. CASE Follow(t)
  <2>1. th[t].pc \in Busy /\ th[t].pc \in Answering /\ th[t].url \in Url /\ th[t].hops < MaxHops
    BY <1>1, <1>17 DEF Follow, At, Busy, Answering, Knows
  <2>2. CASE NextHop(t, th[t].url) /\ UNCHANGED <<conn, queue>>
    <3>1. Others(t) /\ th'[t].conn = th[t].conn /\ th'[t].pc # "read"
      BY <1>1, <2>1, <2>2, NextHopOK
    <3> QED
      BY <2>1, <2>2, <3>1, OwnUnmoved
  <2>3. CASE FinishResponse(th[t].conn) /\ Goto(t, "learn")
    <3>1. Others(t) /\ th'[t].pc \notin Busy
      BY <1>1, <2>3, GotoOK DEF Pcs, Busy
    <3> QED
      BY <2>1, <2>3, <3>1, OwnGivenBack
  <2> QED
    BY <1>4, <1>17, <2>2, <2>3 DEF Follow
<1>18. CASE Learn(t)
  <2> DEFINE to == Target(table[urlTable], th[t].reply.to)
  <2>1. to \in Url /\ th[t].hops < MaxHops
    BY <1>1, <1>18, TargetIn DEF Learn, At, Knows, TableInv
  <2>2. NextHop(t, to) /\ th[t].hops + 1 # MaxHops /\ UNCHANGED <<queue, conn>>
    BY <1>18 DEF Learn, poolVars
  <2> HIDE DEF to
  <2>3. Others(t) /\ th'[t].pc = "route"
    BY <1>1, <2>1, <2>2, NextHopOK
  <2> QED
    BY <1>3, <2>2, <2>3 DEF Busy
<1>19. CASE Answer(t)
  <2>1. UNCHANGED <<queue, conn>> /\ th[t].pc \in Busy /\ th[t].pc \in Answering
    BY <1>19 DEF Answer, At, poolVars, Busy, Answering
  <2>2. CASE conn[th[t].conn].resp = "live" /\ th' = [th EXCEPT ![t].pc = "read", ![t].got = conn[th[t].conn].by]
    <3>1. conn[th[t].conn].by = t
      BY <2>1, <2>2 DEF OwnInv, Answered
    <3>2. Others(t) /\ th'[t].pc = "read" /\ th'[t].got = t /\ th'[t].conn = th[t].conn
      BY <1>1, <2>2, <3>1 DEF Others, ThreadInv, ThreadState
    <3> QED
      BY <2>1, <3>2, OwnUnmoved
  <2> QED
    BY <1>4, <1>19, <2>1, <2>2 DEF Answer
<1>20. CASE Finish(t)
  <2>1. FinishResponse(th[t].conn) /\ Return(t) /\ th[t].pc \in Busy
    BY <1>20 DEF Finish, At, Busy
  <2>2. Others(t) /\ th'[t].pc \notin Busy
    BY <1>1, <1>2, <2>1, ReturnOK
  <2> QED
    BY <2>1, <2>2, OwnGivenBack
<1> QED
  BY <1>6, <1>7, <1>8, <1>9, <1>10, <1>11, <1>12, <1>13, <1>14, <1>15, <1>16, <1>17,
     <1>18, <1>19, <1>20 DEF Step

-----------------------------------------------------------------------------
(* Open sockets are not forgotten *)

\* A response that is awaited stays open, when only its own user may close it.
LEMMA LiveKept ==
  ASSUME TypeInv, OwnInv, StillLive, NEW t \in Thread, Others(t),
         \A c \in Conns : \/ th[t].pc \in Busy /\ c = th[t].conn
                          \/ conn'[c].resp = conn[c].resp,
         th'[t].pc \in Answering => conn'[th'[t].conn].resp = "live"
  PROVE  StillLive'
<1>1. ASSUME NEW s \in Thread, s # t, th[s].pc \in Answering
      PROVE  conn'[th[s].conn].resp = "live"
  <2>1. th[s].pc \in Busy /\ th[s].conn \in Conns
    BY <1>1 DEF Answering, Busy, TypeInv, ThreadInv, Knows
  <2>2. ~(th[t].pc \in Busy /\ th[s].conn = th[t].conn)
    BY <1>1, <2>1 DEF OwnInv, OneUser
  <2> QED
    BY <1>1, <2>1, <2>2 DEF StillLive
<1> QED
  BY <1>1 DEF StillLive, Others

\* A socket that another thread uses, or that stays in its pool, is still known.
LEMMA KnownKept ==
  ASSUME OpenIsKnown, NEW t \in Thread, Others(t),
         \A c \in Conns' : c \in Conns \/ InUse(c)',
         \A c \in Conns : conn'[c].open =>
           \/ InUse(c)' \/ InPool(c)' \/ conn'[c].resp = "live"
           \/ /\ conn[c].open /\ conn'[c].resp = conn[c].resp
              /\ InPool(c) => InPool(c)'
              /\ ~(th[t].pc \in Busy /\ th[t].conn = c)
  PROVE  OpenIsKnown'
<1> SUFFICES ASSUME NEW c \in Conns', conn'[c].open
             PROVE  InUse(c)' \/ InPool(c)' \/ conn'[c].resp = "live"
  BY DEF OpenIsKnown
<1>1. ASSUME c \in Conns, conn[c].open, conn'[c].resp = conn[c].resp, InPool(c) => InPool(c)',
             ~(th[t].pc \in Busy /\ th[t].conn = c)
      PROVE  InUse(c)' \/ InPool(c)' \/ conn'[c].resp = "live"
  <2>1. InUse(c) \/ InPool(c) \/ conn[c].resp = "live"
    BY <1>1 DEF OpenIsKnown
  <2>2. InUse(c) => InUse(c)'
    BY <1>1 DEF InUse, Others
  <2> QED
    BY <1>1, <2>1, <2>2
<1> QED
  BY <1>1

\* Steps that touch neither pools nor connections: a thread that stops using its
\* connection leaves a response behind.
LEMMA OpenUnmoved ==
  ASSUME TypeInv, OwnInv, OpenInv, NEW t \in Thread, Others(t), UNCHANGED <<queue, conn>>,
         th[t].pc \in Busy =>
           (th'[t].pc \in Busy /\ th'[t].conn = th[t].conn) \/ conn[th[t].conn].resp = "live",
         th'[t].pc \in Answering => th[t].pc \in Answering /\ th'[t].conn = th[t].conn
  PROVE  OpenInv'
<1>1. StillLive'
  BY LiveKept DEF OpenInv, StillLive
<1>2. Conns' = Conns /\ \A c : InPool(c) => InPool(c)'
  BY DEF Conns, Queues, InPool
<1>3. ASSUME NEW c \in Conns, th[t].pc \in Busy, th[t].conn = c
      PROVE  InUse(c)' \/ conn'[c].resp = "live"
  BY <1>3 DEF InUse
<1>4. OpenIsKnown'
  BY <1>2, <1>3, KnownKept DEF OpenInv
<1> QED
  BY <1>1, <1>4 DEF OpenInv

\* The user of a connection gives it back: it is in its pool, or closed.
LEMMA OpenGivenBack ==
  ASSUME TypeInv, OwnInv, OpenInv, NEW t \in Thread, th[t].pc \in Answering,
         FinishResponse(th[t].conn), Others(t), th'[t].pc \notin Busy
  PROVE  OpenInv'
<1> DEFINE c == th[t].conn
<1>1. /\ PoolInv /\ c \in Conns /\ th[t].pc \in Busy /\ th'[t].pc \notin Answering
      /\ conn[c].resp = "live"
  BY DEF TypeInv, ThreadInv, Knows, Busy, Answering, OpenInv, StillLive
<1>2. /\ Conns' = Conns
      /\ \A d \in Conns : d # c => conn'[d].resp = conn[d].resp /\ conn'[d].open = conn[d].open
      /\ \/ queue' = [queue EXCEPT ![conn[c].queue].idle = Append(@, c)]
         \/ ~conn'[c].open /\ UNCHANGED queue
  BY <1>1, FinishResponseOK
<1>3. StillLive'
  BY <1>1, <1>2, LiveKept DEF OpenInv
<1>4. \A d \in Conns : (d = c => ~conn'[d].open \/ InPool(d)') /\ (InPool(d) => InPool(d)')
  <2>1. CASE ~conn'[c].open /\ UNCHANGED queue
    BY <2>1 DEF InPool, Queues
  <2>2. CASE queue' = [queue EXCEPT ![conn[c].queue].idle = Append(@, c)]
    <3> DEFINE p == conn[c].queue
               n == Len(queue[p].idle)
    <3>1. p \in Queues
      BY <1>1 DEF PoolInv
    <3>2. n \in Nat /\ DOMAIN queue[p].idle = 1..n
      BY <1>1, <3>1, Idle
    <3> HIDE DEF p
    <3>3. queue' = [queue EXCEPT ![p].idle = Append(@, c)]
      BY <2>2 DEF p
    <3> HIDE DEF c
    <3>4. /\ Queues' = Queues
          /\ \A q \in Queues : q # p => queue'[q] = queue[q]
          /\ DOMAIN queue'[p].idle = 1..(n + 1)
          /\ \A i \in DOMAIN queue[p].idle : queue'[p].idle[i] = queue[p].idle[i]
          /\ queue'[p].idle[n + 1] = c
      BY <1>1, <3>1, <3>3, Pushed
    <3> HIDE DEF n
    <3> HIDE <2>2, <3>3
    <3>5. \A d : d = c => InPool(d)'
      <4>1. n + 1 \in DOMAIN queue'[p].idle /\ p \in Queues'
        BY <3>1, <3>2, <3>4
      <4> QED
        BY <3>4, <4>1 DEF InPool
    <3>6. \A q \in Queues : \A i \in DOMAIN queue[q].idle :
            i \in DOMAIN queue'[q].idle /\ queue'[q].idle[i] = queue[q].idle[i]
      BY <3>2, <3>4
    <3>7. \A d : InPool(d) => InPool(d)'
      BY <3>4, <3>6 DEF InPool
    <3> QED
      BY <3>5, <3>7
  <2> QED
    BY <1>2, <2>1, <2>2
<1>5. OpenIsKnown'
  BY <1>1, <1>2, <1>4, KnownKept DEF OpenInv
<1> QED
  BY <1>3, <1>5 DEF OpenInv

\* A sweep closes what it removes from a pool, and nobody uses that.
LEMMA OpenSwept ==
  ASSUME TypeInv, OwnInv, OpenInv, NEW t \in Thread, ExpireIdle(t)
  PROVE  OpenInv'
<1>1. PoolInv /\ th' = th
  BY DEF TypeInv, ExpireIdle
<1>2. PICK q \in Queues : \E n, kept : Sweep(q, n, kept)
  BY Swept
<1>3. PICK n, kept : Sweep(q, n, kept)
  BY <1>2
<1> DEFINE gone == Dropped(q, n, kept)
<1>4. /\ Queues' = Queues /\ Conns' = Conns
      /\ \A p \in Queues : p # q => queue'[p] = queue[p]
      /\ DOMAIN queue'[q].idle = 1..n
      /\ \A i \in 1..n : queue'[q].idle[i] = queue[q].idle[kept[i]]
      /\ \A c \in Conns : c \notin gone => conn'[c] = conn[c]
      /\ \A c \in Conns : c \in gone => ~conn'[c].open
  BY <1>1, <1>3, SweepOK
<1>5. \A s \in Thread : th[s].pc \in Busy => th[s].conn \notin gone
  BY DEF OwnInv, UsedNotIdle, Dropped
<1>6. StillLive'
  <2>1. \A s \in Thread : th[s].pc \in Answering => th[s].pc \in Busy /\ th[s].conn \in Conns
    BY DEF Answering, Busy, TypeInv, ThreadInv, Knows
  <2> QED
    BY <1>1, <1>4, <1>5, <2>1 DEF OpenInv, StillLive
<1>7. ASSUME NEW c \in Conns, c \notin gone, InPool(c) PROVE InPool(c)'
  <2>1. PICK p \in Queues : \E i \in DOMAIN queue[p].idle : queue[p].idle[i] = c
    BY <1>7 DEF InPool
  <2>2. PICK i \in DOMAIN queue[p].idle : queue[p].idle[i] = c
    BY <2>1
  <2>3. CASE p = q
    <3>1. \E j \in 1..n : kept[j] = i
      BY <1>7, <2>2, <2>3 DEF Dropped
    <3>2. PICK j \in 1..n : kept[j] = i
      BY <3>1
    <3>3. q \in Queues' /\ j \in DOMAIN queue'[q].idle /\ queue'[q].idle[j] = c
      BY <1>4, <2>2, <2>3, <3>2
    <3> QED
      BY <3>3 DEF InPool
  <2>4. CASE p # q
    BY <1>4, <2>2, <2>4 DEF InPool
  <2> QED
    BY <2>3, <2>4
<1>8. OpenIsKnown'
  <2> SUFFICES ASSUME NEW c \in Conns, conn'[c].open
               PROVE  InUse(c)' \/ InPool(c)' \/ conn'[c].resp = "live"
    BY <1>4 DEF OpenIsKnown
  <2>1. c \notin gone /\ conn'[c] = conn[c]
    BY <1>4
  <2>2. InUse(c) \/ InPool(c) \/ conn[c].resp = "live"
    BY <2>1 DEF OpenInv, OpenIsKnown
  <2>3. InUse(c) => InUse(c)'
    BY <1>1 DEF InUse
  <2> QED
    BY <1>7, <2>1, <2>2, <2>3
<1> QED
  BY <1>6, <1>8 DEF OpenInv

\* Every step of a thread knows where its open sockets are.
LEMMA OpenStep ==
  ASSUME TypeInv, OwnInv, OpenInv, main = "serving", NEW t \in Thread, Open(t) \/ Step(t),
         ~exhausted'
  PROVE  OpenInv'
<1>1. PoolInv /\ ThreadInv /\ TableInv /\ th[t] \in ThreadState /\ Knows(th[t]) /\ ~outOfService
  BY DEF TypeInv, ThreadInv
<1>2. NewThread.pc \notin Busy /\ NewThread.pc \notin Answering
  BY DEF NewThread, Busy, Answering
<1>3. ASSUME Others(t), UNCHANGED <<queue, conn>>, th[t].pc \notin Busy, th'[t].pc \notin Answering
      PROVE  OpenInv'
  BY <1>3, OpenUnmoved
<1>4. ASSUME NEW pc \in Pcs \ Busy, Goto(t, pc), UNCHANGED <<queue, conn>>, th[t].pc \notin Busy
      PROVE  OpenInv'
  <2>1. Others(t) /\ th'[t].pc = pc
    BY <1>1, <1>4, GotoOK
  <2> QED
    BY <1>3, <1>4, <2>1 DEF Answering, Busy
<1>5. CASE Open(t)
  <2>1. Others(t) /\ th'[t].pc = "clean" /\ UNCHANGED <<queue, conn>> /\ th[t].pc = "idle"
    BY <1>1, <1>5, OpenOK DEF Open, poolVars, At
  <2> QED
    BY <1>3, <2>1 DEF Busy, Answering
<1>6. CASE ExpireIdle(t)
  BY <1>6, OpenSwept
<1>7. CASE SkipCleaning(t) \/ Cleaned(t)
  BY <1>4, <1>7 DEF SkipCleaning, Cleaned, Pcs, Busy, poolVars, At
<1>8. CASE FillHosts(t) \/ FillUrls(t)
  <2>1. \E pc \in {"swapHosts", "fillUrls", "swapUrls", "cleaned"} : Goto(t, pc)
    BY <1>8 DEF FillHosts, FillUrls, Fill
  <2> QED
    BY <1>4, <1>8, <2>1 DEF FillHosts, FillUrls, Pcs, Busy, poolVars, At
<1>9. CASE SwapHosts(t) \/ SwapUrls(t)
  BY <1>4, <1>9 DEF SwapHosts, SwapUrls, Pcs, Busy, poolVars, At
<1>10. CASE ResolveUrl(t)
  <2>1. Others(t) /\ th'[t].pc = "route" /\ UNCHANGED <<queue, conn>> /\ th[t].pc = "resolve"
    BY <1>1, <1>10, ResolveOK DEF ResolveUrl, poolVars, At
  <2> QED
    BY <1>3, <2>1 DEF Busy, Answering
<1>11. CASE Route(t)
  <2>1. Others(t) /\ th'[t].pc = "pull" /\ UNCHANGED conn /\ th[t].pc = "route"
    BY <1>11, RouteOK DEF Route, At
  <2>2. th[t].pc \notin Busy /\ th'[t].pc \notin Answering
    BY <2>1 DEF Busy, Answering
  <2>3. StillLive'
    BY <2>1, <2>2, LiveKept DEF OpenInv
  <2>4. \A c : InPool(c) => InPool(c)'
    BY <1>11, RoutedPools DEF InPool
  <2>5. OpenIsKnown'
    BY <2>1, <2>2, <2>4, KnownKept DEF OpenInv, Conns
  <2> QED
    BY <2>3, <2>5 DEF OpenInv
<1>12. CASE Pull(t)
  <2>1. th[t].pc = "pull" /\ th[t].pc \notin Busy
    BY <1>12 DEF Pull, At, Busy
  <2>2. CASE th'[t].pc = "check"
    <3>1. /\ \A c \in Conns : conn'[c] = conn[c]
          /\ \A c \in Conns : c # th'[t].conn /\ InPool(c) => InPool(c)'
          /\ \A c \in Conns' : c \in Conns \/ c = th'[t].conn
      BY <1>12, <2>2, OwnPulled
    <3>2. Others(t)
      BY <1>1, <1>12, PullOK
    <3>3. \A c : c = th'[t].conn => InUse(c)'
      BY <2>2 DEF InUse, Busy
    <3>4. StillLive'
      BY <2>1, <2>2, <3>1, <3>2, LiveKept DEF OpenInv, Answering
    <3>5. OpenIsKnown'
      BY <2>1, <3>1, <3>2, <3>3, KnownKept DEF OpenInv
    <3> QED
      BY <3>4, <3>5 DEF OpenInv
  <2>3. CASE th'[t] = NewThread /\ UNCHANGED <<queue, conn>>
    BY <1>1, <1>2, <1>3, <1>12, <2>1, <2>3, PullOK
  <2> QED
    BY <1>1, <1>12, <2>2, <2>3, PullOK
<1>13. CASE CheckService(t)
  <2>1. UNCHANGED <<queue, conn>> /\ th[t].pc \in Busy /\ Goto(t, "send")
    BY <1>1, <1>13 DEF CheckService, At, poolVars, Busy
  <2>2. Others(t) /\ th'[t].pc = "send" /\ th'[t].conn = th[t].conn
    BY <1>1, <2>1, GotoOK DEF Pcs
  <2> QED
    BY <2>1, <2>2, OpenUnmoved DEF Busy, Answering
<1>14. CASE Send(t)
  <2> DEFINE c == th[t].conn
  <2>1. Others(t) /\ th'[t].pc = "receive" /\ th'[t].conn = c /\ UNCHANGED queue
    BY <1>1, <1>14, GotoOK DEF Send, Pcs, poolVars
  <2>2. th[t].pc \in Busy /\ c \in Conns
    BY <1>1, <1>14 DEF Send, At, Busy, Knows
  <2>3. /\ Conns' = Conns
        /\ \A d \in Conns : conn'[d].resp = conn[d].resp
        /\ \A d \in Conns : d # c => conn'[d] = conn[d]
    BY <1>1, <1>14, <2>2, SendOK
  <2>4. \A d : (d = c => InUse(d)') /\ (InPool(d) => InPool(d)')
    BY <2>1 DEF InUse, InPool, Busy, Queues
  <2>5. StillLive'
    BY <2>1, <2>3, LiveKept DEF OpenInv, Answering
  <2> HIDE DEF c
  <2>6. OpenIsKnown'
    BY <2>1, <2>3, <2>4, KnownKept DEF OpenInv, c
  <2> QED
    BY <2>5, <2>6 DEF OpenInv
<1>15. CASE Receive(t)
  <2> DEFINE c == th[t].conn
  <2>1. UNCHANGED queue /\ th[t].pc \in Busy
    BY <1>15 DEF Receive, At, Busy, poolVars
  <2>2. /\ Others(t) /\ Conns' = Conns
        /\ \A d \in Conns : d # c => conn'[d] = conn[d]
        /\ \/ /\ ~conn'[c].open
              /\ th'[t] = NewThread \/ th'[t].pc = "route"
           \/ conn'[c].resp = "live" /\ th'[t].conn = c
    BY <1>1, <1>15, ReceiveOK
  <2>3. th'[t].pc \in Answering => conn'[th'[t].conn].resp = "live"
    BY <1>2, <2>2 DEF Answering
  <2>4. StillLive'
    BY <2>1, <2>2, <2>3, LiveKept DEF OpenInv
  <2>5. \A d : InPool(d) => InPool(d)'
    BY <2>1 DEF InPool, Queues
  <2> HIDE DEF c
  <2>6. OpenIsKnown'
    BY <2>2, <2>5, KnownKept DEF OpenInv, c
  <2> QED
    BY <2>4, <2>6 DEF OpenInv
<1>16. CASE Follow(t)
  <2>1. /\ th[t].pc \in Busy /\ th[t].pc \in Answering /\ th[t].url \in Url /\ th[t].hops < MaxHops
        /\ conn[th[t].conn].resp = "live"
    BY <1>1, <1>16 DEF Follow, At, Busy, Answering, Knows, OpenInv, StillLive
  <2>2. CASE NextHop(t, th[t].url) /\ UNCHANGED <<conn, queue>>
    <3>1. Others(t) /\ th'[t].conn = th[t].conn
      BY <1>1, <2>1, <2>2, NextHopOK
    <3> QED
      BY <2>1, <2>2, <3>1, OpenUnmoved
  <2>3. CASE FinishResponse(th[t].conn) /\ Goto(t, "learn")
    <3>1. Others(t) /\ th'[t].pc \notin Busy
      BY <1>1, <2>3, GotoOK DEF Pcs, Busy
    <3> QED
      BY <2>1, <2>3, <3>1, OpenGivenBack
  <2> QED
    BY <1>16, <2>1, <2>2, <2>3 DEF Follow
<1>17. CASE Learn(t)
  <2> DEFINE to == Target(table[urlTable], th[t].reply.to)
  <2>1. to \in Url /\ th[t].hops < MaxHops /\ th[t].pc \notin Busy
    BY <1>1, <1>17, TargetIn DEF Learn, At, Knows, TableInv, Busy
  <2>2. NextHop(t, to) /\ th[t].hops + 1 # MaxHops /\ UNCHANGED <<queue, conn>>
    BY <1>17 DEF Learn, poolVars
  <2> HIDE DEF to
  <2>3. Others(t) /\ th'[t].pc = "route"
    BY <1>1, <2>1, <2>2, NextHopOK
  <2> QED
    BY <1>3, <2>1, <2>2, <2>3 DEF Answering
<1>18. CASE Answer(t)
  <2>1. /\ UNCHANGED <<queue, conn>> /\ th[t].pc \in Busy /\ th[t].pc \in Answering
        /\ conn[th[t].conn].resp = "live"
    BY <1>18 DEF Answer, At, poolVars, Busy, Answering, OpenInv, StillLive
  <2>2. Others(t) /\ th'[t].conn = th[t].conn
    BY <1>1, <1>18, <2>1 DEF Answer, Others, ThreadInv, ThreadState
  <2> QED
    BY <2>1, <2>2, OpenUnmoved
<1>19. CASE Finish(t)
  <2>1. FinishResponse(th[t].conn) /\ Return(t) /\ th[t].pc \in Answering
    BY <1>19 DEF Finish, At, Answering
  <2>2. Others(t) /\ th'[t].pc \notin Busy
    BY <1>1, <1>2, <2>1, ReturnOK
  <2> QED
    BY <2>1, <2>2, OpenGivenBack
<1> QED
  BY <1>5, <1>6, <1>7, <1>8, <1>9, <1>10, <1>11, <1>12, <1>13, <1>14, <1>15, <1>16,
     <1>17, <1>18, <1>19 DEF Step

-----------------------------------------------------------------------------
(* The invariant holds *)

\* At the start there are no connections, and no redirects.
LEMMA GatewayInit ==
  ASSUME Init
  PROVE  GatewayInv
<1>1. PoolInv
  BY DEF Init, PoolInv, Conns, Queues
<1>2. ThreadInv
  BY NewThreadOK, GatewayAssumption DEF Init, ThreadInv, Knows, NewThread, Routed, Busy
<1>3. TableInv
  <2>1. Redirects(Empty) /\ DOMAIN Empty = {}
    BY DEF Empty, Redirects
  <2>2. /\ urlTable = 1 /\ hostTable = 2 /\ swapTable = 3 /\ cleaner = Nobody
        /\ table = [i \in 1..3 |-> Empty] /\ th = [t \in Thread |-> NewThread]
    BY DEF Init
  <2>3. NewThread.pc = "idle"
    BY DEF NewThread
  <2> QED
    BY <2>1, <2>2, <2>3 DEF TableInv, Sweeping, Someone
<1>4. TypeInv
  BY <1>1, <1>2, <1>3 DEF Init, TypeInv
<1>5. \A t \in Thread : th[t].pc = "idle"
  BY DEF Init, NewThread
<1>6. Conns = {} /\ Queues = {}
  BY DEF Init, Conns, Queues
<1>7. OwnInv
  BY <1>5, <1>6 DEF OwnInv, OneUser, UsedNotIdle, IdleOnce, Answered, Busy, Answering
<1>8. OpenInv
  BY <1>5, <1>6 DEF OpenInv, StillLive, OpenIsKnown, Answering
<1> QED
  BY <1>4, <1>7, <1>8 DEF GatewayInv

\* A cleanup gives no thread a connection.
LEMMA CleanupOwn ==
  ASSUME TypeInv, OwnInv, Cleanup
  PROVE  OwnInv'
<1>1. CASE UNCHANGED <<th, queue, conn>>
  BY <1>1 DEF OwnInv, OneUser, UsedNotIdle, IdleOnce, Answered, Queues
<1>2. CASE CloseAll
  <2>1. /\ Conns' = Conns /\ Queues' = Queues /\ th' = th
        /\ \A c \in Conns : /\ conn'[c].by = conn[c].by
                            /\ conn'[c].resp = "live" => conn[c].resp = "live"
        /\ \A q \in Queues : queue'[q].idle = queue[q].idle \/ queue'[q].idle = <<>>
    BY <1>2, CloseAllOK DEF TypeInv, CloseAll
  <2>2. \A q \in Queues : \A i \in DOMAIN queue'[q].idle : queue'[q].idle = queue[q].idle
    BY <2>1
  <2>3. OneUser'
    BY <2>1 DEF OwnInv, OneUser
  <2>4. UsedNotIdle'
    BY <2>1, <2>2 DEF OwnInv, UsedNotIdle
  <2>5. IdleOnce'
    BY <2>1, <2>2 DEF OwnInv, IdleOnce
  <2>6. \A s \in Thread : th[s].pc \in Answering => th[s].conn \in Conns
    BY DEF Answering, Busy, TypeInv, ThreadInv, Knows
  <2>7. Answered'
    BY <2>1, <2>6 DEF OwnInv, Answered
  <2> QED
    BY <2>3, <2>4, <2>5, <2>7 DEF OwnInv
<1> QED
  BY <1>1, <1>2 DEF Cleanup, GoOutOfService, ForgetRedirects, poolVars

\* Threads and cleanup keep the invariant.
LEMMA GatewayStep ==
  ASSUME GatewayInv, [Next]_vars
  PROVE  GatewayInv'
<1>1. TypeInv
  BY DEF GatewayInv
<1>2. CASE Cleanup
  <2>1. main' # "serving" /\ exhausted' = exhausted
    BY <1>2 DEF Cleanup, GoOutOfService, CloseAll, ForgetRedirects
  <2> QED
    BY <1>1, <1>2, <2>1, CleanupTypes, CleanupOwn DEF GatewayInv
<1>3. ASSUME NEW t \in Thread, Open(t) \/ Step(t)
      PROVE  GatewayInv'
  <2>1. TypeInv' /\ main' = main /\ (~exhausted' => ~exhausted)
    BY <1>1, <1>3, TypeStep
  <2>2. ~exhausted' => OwnInv'
    BY <1>1, <1>3, <2>1, OwnStep DEF GatewayInv
  <2>3. ~exhausted' /\ main' = "serving" => OpenInv'
    BY <1>1, <1>3, <2>1, OpenStep DEF GatewayInv
  <2> QED
    BY <2>1, <2>2, <2>3 DEF GatewayInv
<1>4. CASE UNCHANGED vars
  BY <1>4 DEF vars, poolVars, GatewayInv, TypeInv, PoolInv, ThreadInv, Knows, TableInv, OwnInv,
     OneUser, UsedNotIdle, IdleOnce, Answered, OpenInv, StillLive, OpenIsKnown, InUse, InPool,
     Conns, Queues
<1> QED
  BY <1>2, <1>3, <1>4 DEF Next

\* The gateway always satisfies it.
LEMMA GatewayAlways == Spec => []GatewayInv
<1>1. Init => GatewayInv
  BY GatewayInit
<1>2. GatewayInv /\ [Next]_vars => GatewayInv'
  BY GatewayStep
<1> QED
  BY <1>1, <1>2, PTL DEF Spec

\* The types, and the redirect dictionaries stay three whatever the threads do
\* during a sweep (_clean_timeout_redirects).
THEOREM GatewayTyped == Spec => []GatewayTypeOK
<1>1. GatewayInv => GatewayTypeOK
  <2> SUFFICES ASSUME GatewayInv PROVE GatewayTypeOK
    OBVIOUS
  <2>1. PoolInv /\ ThreadInv /\ TableInv /\ outOfService \in BOOLEAN
    BY DEF GatewayInv, TypeInv
  <2>2. \A q \in Queues : queue[q].all \subseteq Conns /\ queue[q].host \in Host
    BY <2>1, Entries DEF PoolInv, Pool
  <2>3. \A c \in Conns : conn[c].queue \in Queues /\ conn[c].by \in Thread \cup {Nobody}
    BY <2>1, Entries DEF PoolInv, Connection, Someone
  <2>4. {urlTable, hostTable, swapTable} = 1..3
    BY <2>1 DEF TableInv
  <2>5. \A t \in Thread : th[t].pc \in Pcs /\ th[t].hops \in 0..MaxHops
    BY <2>1 DEF ThreadInv, ThreadState
  <2> QED
    BY <2>1, <2>2, <2>3, <2>4, <2>5 DEF GatewayTypeOK, PoolInv, TableInv, Someone
<1> QED
  BY <1>1, GatewayAlways, PTL

\* The users of a connection and its places in the pools, counted.
LEMMA OwnMeans ==
  ASSUME TypeInv, OwnInv, NEW c \in Conns
  PROVE  /\ Cardinality(Users(c)) + Times(c) <= 1
         /\ InUse(c) => Users(c) # {}
         /\ InPool(c) => Times(c) > 0
<1>1. PoolInv
  BY DEF TypeInv
<1>2. Users(c) = {t \in Thread : th[t].conn = c /\ th[t].pc \in Busy}
  BY DEF Users, Busy
<1>3. /\ \A s \in Slots(c) : \E q \in Queues : \E i \in DOMAIN queue[q].idle :
           s = <<q, i>> /\ queue[q].idle[i] = c
      /\ \A q \in Queues : \A i \in DOMAIN queue[q].idle : queue[q].idle[i] = c => <<q, i>> \in Slots(c)
  BY DEF Slots
<1>4. \A s, r \in Slots(c) : s = r
  BY <1>3 DEF OwnInv, IdleOnce
<1>5. Slots(c) = {} \/ \E s : Slots(c) = {s}
  BY <1>4
<1>6. \A t, u \in Users(c) : t = u
  BY <1>2 DEF OwnInv, OneUser
<1>7. Users(c) = {} \/ \E t : Users(c) = {t}
  BY <1>6
<1>8. Users(c) # {} => Slots(c) = {}
  BY <1>2, <1>3 DEF OwnInv, UsedNotIdle
<1>9. ASSUME NEW S, S = {} \/ \E s : S = {s}
      PROVE  Cardinality(S) = IF S = {} THEN 0 ELSE 1
  BY <1>9, FS_EmptySet, FS_Singleton
<1>10. Times(c) = Cardinality(Slots(c))
  BY DEF Times
<1>11. InUse(c) => Users(c) # {}
  BY <1>2 DEF InUse
<1>12. InPool(c) => Slots(c) # {}
  BY <1>3 DEF InPool
<1>13. Cardinality(Users(c)) = IF Users(c) = {} THEN 0 ELSE 1
  BY <1>7, <1>9
<1>14. Times(c) = IF Slots(c) = {} THEN 0 ELSE 1
  BY <1>5, <1>9, <1>10
<1> QED
  BY <1>8, <1>11, <1>12, <1>13, <1>14

\* pull, push, the sweeps and the cleanup give a connection to one thread at a
\* time, although finish_response takes no lock.
THEOREM ConnectionIsOwn == Spec => []OwnConnection
<1>1. GatewayInv => OwnConnection
  BY OwnMeans DEF GatewayInv, OwnConnection
<1> QED
  BY <1>1, GatewayAlways, PTL

\* open hands out the response of a connection, read from an attribute that other
\* threads write as well: it is the response to the caller's own request.
THEOREM ResponseIsOwn == Spec => []OwnResponse
<1>1. GatewayInv => OwnResponse
  BY DEF GatewayInv, OwnInv, Answered, OwnResponse, At
<1> QED
  BY <1>1, GatewayAlways, PTL

\* While the gateway serves, no socket is open that nobody uses or will use again,
\* but for one with a response that _follow_move abandons.
THEOREM NoneIsForgotten == Spec => []NoneForgotten
<1>1. GatewayInv => NoneForgotten
  BY OwnMeans DEF GatewayInv, NoneForgotten, OpenInv, OpenIsKnown
<1> QED
  BY <1>1, GatewayAlways, PTL

=============================================================================

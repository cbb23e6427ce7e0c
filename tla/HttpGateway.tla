----------------------------- MODULE HttpGateway -----------------------------
(***************************************************************************)
(* The HTTP client of downloader/http_gateway.py, shared by the worker     *)
(* threads: keep-alive connections pooled per host, two tables of cached   *)
(* redirects that are rebuilt in a third dictionary and swapped in, and    *)
(* the cleanup that a cancellation runs (interruptions.py).                *)
(*                                                                         *)
(* A host stands for a scheme and a network location.  What a request gets *)
(* is chosen from Replies.  Ages are not counted: what a sweep finds       *)
(* expired is a free choice.                                               *)
(***************************************************************************)
EXTENDS Naturals, Sequences, FiniteSets

CONSTANTS
  Thread,
  Nobody,     \* no thread
  Host, Path,
  NoUrl,      \* the Location header is missing
  Asked,      \* the urls that are opened
  Replies,    \* per url, the replies its server may give
  MaxHops,    \* requests per open: 11 in the code
  MaxOpens    \* bound: calls of open

Url == Host \X Path
Reply == [kind : {"ok", "moved", "error", "timeout"},
          to : Url \cup {NoUrl}, cached : BOOLEAN]

ASSUME GatewayAssumption ==
  /\ Nobody \notin Thread /\ NoUrl \notin Url \cup Host
  /\ Host \cap Url = {}
  /\ Asked \subseteq Url
  /\ Replies \in [Url -> SUBSET Reply]
  /\ MaxHops \in Nat \ {0} /\ MaxOpens \in Nat

VARIABLES
  outOfService,  \* _out_of_service
  queue,         \* every _ConnectionQueue created
  connections,   \* host -> its queue in _connections, or 0
  conn,          \* every _Connection created
  table,         \* the three redirect dictionaries
  urlTable, hostTable, swapTable,  \* which of them is which
  cleaner,       \* holder of _clean_timeout_redirects_lock
  th,            \* what each thread is doing
  opens,         \* calls of open so far
  main,          \* how far cleanup got
  exhausted      \* the requests of an open ran out on a redirect, see Learn

poolVars == <<queue, connections>>
tableVars == <<table, urlTable, hostTable, swapTable, cleaner>>
vars == <<outOfService, queue, connections, conn, table, urlTable, hostTable,
          swapTable, cleaner, th, opens, main, exhausted>>

-----------------------------------------------------------------------------
(* Connections and their pools *)

Conns == DOMAIN conn
Queues == DOMAIN queue

\* _Connection.kill on the connections S: the response and the socket close.
Killed(S) ==
  [c \in Conns |-> IF c \in S THEN [conn[c] EXCEPT !.resp = "finished", !.open = FALSE]
                   ELSE conn[c]]

\* Faulty variant: the connection is kept but does not go back to its pool.
FinishResponseForgets(c) ==
  /\ conn' = [conn EXCEPT ![c].resp = "finished"]
  /\ UNCHANGED queue

\* A response is finished once; its connection goes back to the pool, or is
\* closed when the server allows no further use.
FinishResponse(c) ==
  IF conn[c].resp = "finished" THEN UNCHANGED <<conn, queue>>
  ELSE \/ /\ conn' = [conn EXCEPT ![c].resp = "finished"]
          /\ queue' = [queue EXCEPT ![conn[c].queue].idle = Append(@, c)]
       \/ conn' = Killed({c}) /\ UNCHANGED queue

-----------------------------------------------------------------------------
(* Redirect tables *)

Empty == [x \in {} |-> NoUrl]
Without(f, S) == [x \in DOMAIN f \ S |-> f[x]]
With(f, k, v) == [x \in DOMAIN f \cup {k} |-> IF x = k THEN v ELSE f[x]]

\* _redirect: follow the table at most ten times ...
Target(d, k) ==
  LET hop == [x \in Host \cup Url |-> IF x \in DOMAIN d THEN d[x] ELSE x]
      five == [x \in Host \cup Url |-> hop[hop[hop[hop[hop[x]]]]]]
  IN five[five[k]]

\* ... and shorten the path that was followed.  The entries are objects that
\* both copies of a table share.
Shortened(k, target) ==
  [i \in DOMAIN table |->
     IF k \in DOMAIN table[i] /\ table[i][k] \in DOMAIN table[i]
     THEN With(table[i], k, target) ELSE table[i]]

\* A thread reads the attribute before it waits for the lock: it may look in
\* the dictionary that a sweep has swapped out in the meantime.
Seen(current) == IF cleaner = Nobody THEN {current} ELSE {current, swapTable}

-----------------------------------------------------------------------------
NewThread == [pc |-> "idle", url |-> NoUrl, host |-> NoUrl, at |-> 0, conn |-> 0,
              hops |-> 0, reply |-> NoUrl, got |-> Nobody]

Init ==
  /\ outOfService = FALSE /\ main = "serving"
  /\ queue = <<>> /\ connections = [h \in Host |-> 0] /\ conn = <<>>
  /\ table = [i \in 1..3 |-> Empty]
  /\ urlTable = 1 /\ hostTable = 2 /\ swapTable = 3 /\ cleaner = Nobody
  /\ th = [t \in Thread |-> NewThread] /\ opens = 0 /\ exhausted = FALSE

At(t, pc) == th[t].pc = pc
Goto(t, pc) == th' = [th EXCEPT ![t].pc = pc]

\* The call of open is over, with a response read or with an exception.
Return(t) == th' = [th EXCEPT ![t] = NewThread]

\* open is called; it first looks after the timeouts.
Open(t) ==
  /\ At(t, "idle") /\ opens < MaxOpens
  /\ \E u \in Asked : th' = [th EXCEPT ![t] = [NewThread EXCEPT !.pc = "clean", !.url = u]]
  /\ opens' = opens + 1
  /\ UNCHANGED <<outOfService, poolVars, conn, tableVars, main, exhausted>>

\* clear_timed_outs of one pool: the expired connections are killed, the others
\* stay in their order, those at the positions 'kept'.
ExpireIdle(t) ==
  /\ At(t, "clean")
  /\ \E q \in Queues :
       LET idle == queue[q].idle IN
       \E n \in 0..(Len(idle) - 1) : \E kept \in [1..n -> DOMAIN idle] :
         /\ \A i, j \in 1..n : i < j => kept[i] < kept[j]
         /\ conn' = Killed({idle[i] : i \in {k \in DOMAIN idle : \A j \in 1..n : kept[j] # k}})
         /\ queue' = [queue EXCEPT ![q].idle = [i \in 1..n |-> idle[kept[i]]]]
  /\ UNCHANGED <<outOfService, connections, tableVars, th, opens, main, exhausted>>

\* The timer has not run out, or another thread has the lock.
SkipCleaning(t) ==
  /\ At(t, "clean") /\ Goto(t, "resolve")
  /\ UNCHANGED <<outOfService, poolVars, conn, tableVars, opens, main, exhausted>>

\* _fill_redirects_swap: what has not expired is copied to the third
\* dictionary; only if something has expired the two are exchanged.  The moments when
\* that dictionary is cleared or half filled, without the lock of those who may still
\* look into it, are left out.
Fill(t, current, changed, same) ==
  \E S \in SUBSET DOMAIN table[current] :
    /\ table' = [table EXCEPT ![swapTable] = Without(table[current], S)]
    /\ Goto(t, IF S = {} THEN same ELSE changed)

FillHosts(t) ==
  /\ At(t, "clean") /\ cleaner = Nobody
  /\ cleaner' = t
  /\ Fill(t, hostTable, "swapHosts", "fillUrls")
  /\ UNCHANGED <<outOfService, poolVars, conn, urlTable, hostTable, swapTable, opens, main, exhausted>>

SwapHosts(t) ==
  /\ At(t, "swapHosts")
  /\ hostTable' = swapTable /\ swapTable' = hostTable
  /\ Goto(t, "fillUrls")
  /\ UNCHANGED <<outOfService, poolVars, conn, table, urlTable, cleaner, opens, main, exhausted>>

FillUrls(t) ==
  /\ At(t, "fillUrls")
  /\ Fill(t, urlTable, "swapUrls", "cleaned")
  /\ UNCHANGED <<outOfService, poolVars, conn, urlTable, hostTable, swapTable, cleaner, opens, main, exhausted>>

\* Faulty variant: the old dictionary is not kept for the next sweep.
SwapUrlsHalf(t) ==
  /\ At(t, "swapUrls")
  /\ urlTable' = swapTable
  /\ Goto(t, "cleaned")
  /\ UNCHANGED <<outOfService, poolVars, conn, table, hostTable, swapTable, cleaner, opens, main, exhausted>>

SwapUrls(t) ==
  /\ At(t, "swapUrls")
  /\ urlTable' = swapTable /\ swapTable' = urlTable
  /\ Goto(t, "cleaned")
  /\ UNCHANGED <<outOfService, poolVars, conn, table, hostTable, cleaner, opens, main, exhausted>>

Cleaned(t) ==
  /\ At(t, "cleaned") /\ cleaner' = Nobody /\ Goto(t, "resolve")
  /\ UNCHANGED <<outOfService, poolVars, conn, table, urlTable, hostTable, swapTable, opens, main, exhausted>>

\* _process_url in open.
ResolveUrl(t) ==
  /\ At(t, "resolve")
  /\ \E d \in Seen(urlTable) :
       LET target == Target(table[d], th[t].url) IN
         /\ table' = Shortened(th[t].url, target)
         /\ th' = [th EXCEPT ![t].pc = "route", ![t].url = target]
  /\ UNCHANGED <<outOfService, poolVars, conn, urlTable, hostTable, swapTable, cleaner, opens, main, exhausted>>

\* _process_queue_id and the lookup of the pool in _take_connection.
Route(t) ==
  /\ At(t, "route")
  /\ \E d \in Seen(hostTable) :
       LET h == Target(table[d], th[t].url[1])
           q == IF connections[h] # 0 THEN connections[h] ELSE Len(queue) + 1
       IN /\ table' = Shortened(th[t].url[1], h)
          /\ connections' = [connections EXCEPT ![h] = q]
          /\ queue' = IF q \in Queues THEN queue
                      ELSE Append(queue, [host |-> h, idle |-> <<>>, all |-> {}, cleared |-> FALSE])
          /\ th' = [th EXCEPT ![t].pc = "pull", ![t].host = h, ![t].at = q]
  /\ UNCHANGED <<outOfService, conn, urlTable, hostTable, swapTable, cleaner, opens, main, exhausted>>

\* Faulty variant: any connection of the pool is taken, idle or not.
PullAny(t) ==
  /\ At(t, "pull")
  /\ LET q == th[t].at
         new == Len(conn) + 1
     IN IF queue[q].all # {}
        THEN /\ \E c \in queue[q].all : th' = [th EXCEPT ![t].pc = "check", ![t].conn = c]
             /\ UNCHANGED <<queue, conn>>
        ELSE /\ conn' = Append(conn, [queue |-> q, open |-> FALSE, resp |-> "none", by |-> Nobody])
             /\ queue' = [queue EXCEPT ![q].all = @ \cup {new}]
             /\ th' = [th EXCEPT ![t].pc = "check", ![t].conn = new]
  /\ UNCHANGED <<outOfService, connections, tableVars, opens, main, exhausted>>

\* _ConnectionQueue.pull: the newest idle connection or a new one.
Pull(t) ==
  /\ At(t, "pull")
  /\ LET q == th[t].at
         idle == queue[q].idle
         new == Len(conn) + 1
     IN \/ /\ idle # <<>>
           /\ queue' = [queue EXCEPT ![q].idle = SubSeq(idle, 1, Len(idle) - 1)]
           /\ th' = [th EXCEPT ![t].pc = "check", ![t].conn = idle[Len(idle)]]
           /\ UNCHANGED conn
        \/ /\ idle = <<>> /\ ~queue[q].cleared
           /\ conn' = Append(conn, [queue |-> q, open |-> FALSE, resp |-> "none", by |-> Nobody])
           /\ queue' = [queue EXCEPT ![q].all = @ \cup {new}]
           /\ th' = [th EXCEPT ![t].pc = "check", ![t].conn = new]
        \/ idle = <<>> /\ queue[q].cleared /\ Return(t) /\ UNCHANGED <<queue, conn>>
  /\ UNCHANGED <<outOfService, connections, tableVars, opens, main, exhausted>>

CheckService(t) ==
  /\ At(t, "check")
  /\ IF outOfService THEN Return(t) ELSE Goto(t, "send")
  /\ UNCHANGED <<outOfService, poolVars, conn, tableVars, opens, main, exhausted>>

\* Another round of the loop of _request, or the end of it.
NextHop(t, url) ==
  th' = [th EXCEPT ![t].hops = @ + 1, ![t].url = url,
                   ![t].pc = IF th[t].hops + 1 < MaxHops THEN "route" ELSE "answer"]

\* An HTTPException or OSError kills the connection and is retried; the last
\* one is raised.
Failed(t) ==
  /\ conn' = Killed({th[t].conn})
  /\ IF th[t].hops + 1 < MaxHops THEN NextHop(t, th[t].url) ELSE Return(t)

\* HTTPConnection.request opens the socket when it is closed.
Send(t) ==
  /\ At(t, "send")
  /\ conn' = [conn EXCEPT ![th[t].conn].open = TRUE]
  /\ Goto(t, "receive")
  /\ UNCHANGED <<outOfService, poolVars, tableVars, opens, main, exhausted>>

\* Faulty variant: the answer is awaited on a socket that was closed.
ReceiveAwaited(t) ==
  /\ At(t, "receive")
  /\ conn[th[t].conn].open
  /\ \E r \in Replies[<<th[t].host, th[t].url[2]>>] :
       \/ r.kind = "error" /\ Failed(t)
       \/ r.kind = "timeout" /\ conn' = Killed({th[t].conn}) /\ Return(t)
       \/ /\ r.kind \in {"ok", "moved"}
          /\ conn' = [conn EXCEPT ![th[t].conn].resp = "live", ![th[t].conn].by = t]
          /\ th' = [th EXCEPT ![t].reply = r,
                              ![t].pc = IF r.kind = "moved" THEN "follow" ELSE "answer"]
  /\ UNCHANGED <<outOfService, poolVars, tableVars, opens, main, exhausted>>

\* getresponse, on a socket that cleanup may have closed in the meantime.
Receive(t) ==
  /\ At(t, "receive")
  /\ LET c == th[t].conn IN
       \/ ~conn[c].open /\ Failed(t)
       \/ /\ conn[c].open
          /\ \E r \in Replies[<<th[t].host, th[t].url[2]>>] :
               \/ r.kind = "error" /\ Failed(t)
               \/ r.kind = "timeout" /\ conn' = Killed({c}) /\ Return(t)
               \/ /\ r.kind \in {"ok", "moved"}
                  /\ conn' = [conn EXCEPT ![c].resp = "live", ![c].by = t]
                  /\ th' = [th EXCEPT ![t].reply = r,
                                      ![t].pc = IF r.kind = "moved" THEN "follow" ELSE "answer"]
  /\ UNCHANGED <<outOfService, poolVars, tableVars, opens, main, exhausted>>

\* _follow_move up to the release of the connection.  A redirect to nowhere is
\* requested again and its response is never finished; the response of a
\* connection that cleanup killed raises when it is read.
Follow(t) ==
  /\ At(t, "follow")
  /\ \/ th[t].reply.to = NoUrl /\ NextHop(t, th[t].url) /\ UNCHANGED <<conn, queue>>
     \/ th[t].reply.to # NoUrl /\ FinishResponse(th[t].conn) /\ Goto(t, "learn")
     \/ conn[th[t].conn].resp = "finished" /\ Return(t) /\ UNCHANGED <<conn, queue>>
  /\ UNCHANGED <<outOfService, connections, tableVars, opens, main, exhausted>>

\* The new location may itself be known to have moved.  A redirect that may be
\* cached is one of the whole host when only the host differs.  When this was the
\* last request, open goes on with a connection that was given back before.
Learn(t) ==
  /\ At(t, "learn")
  /\ LET r == th[t].reply
         from == th[t].url
         to == Target(table[urlTable], r.to)
         moved == Shortened(r.to, to)
     IN /\ table' =
             IF r.cached /\ to[2] = from[2]
             THEN IF to[1] # th[t].host
                  THEN [moved EXCEPT ![hostTable] = With(@, th[t].host, to[1])] ELSE moved
             ELSE IF r.cached /\ to # from
             THEN [moved EXCEPT ![urlTable] = With(@, from, to)] ELSE moved
        /\ NextHop(t, to)
        /\ exhausted' = (exhausted \/ th[t].hops + 1 = MaxHops)
  /\ UNCHANGED <<outOfService, poolVars, conn, urlTable, hostTable, swapTable, cleaner, opens, main>>

\* open hands out conn.response, whichever that is by now.
Answer(t) ==
  /\ At(t, "answer")
  /\ LET c == conn[th[t].conn] IN
       IF c.resp = "live" THEN th' = [th EXCEPT ![t].pc = "read", ![t].got = c.by]
       ELSE Return(t)
  /\ UNCHANGED <<outOfService, poolVars, conn, tableVars, opens, main, exhausted>>

\* The caller has read the body, or failed to: the with statement ends.
Finish(t) ==
  /\ At(t, "read")
  /\ FinishResponse(th[t].conn) /\ Return(t)
  /\ UNCHANGED <<outOfService, connections, tableVars, opens, main, exhausted>>

-----------------------------------------------------------------------------
(* cleanup, called once by the thread that handles the cancellation *)

GoOutOfService ==
  /\ main = "serving" /\ main' = "closing" /\ outOfService' = TRUE
  /\ UNCHANGED <<poolVars, conn, tableVars, th, opens, exhausted>>

\* Every pool is cleared and every connection it ever made is killed.
CloseAll ==
  /\ main = "closing" /\ main' = "forgetting"
  /\ LET here == {connections[h] : h \in Host} \ {0} IN
       /\ conn' = Killed(UNION {queue[q].all : q \in here})
       /\ queue' = [q \in Queues |-> IF q \in here
                      THEN [queue[q] EXCEPT !.idle = <<>>, !.all = {}, !.cleared = TRUE]
                      ELSE queue[q]]
  /\ connections' = [h \in Host |-> 0]
  /\ UNCHANGED <<outOfService, tableVars, th, opens, exhausted>>

ForgetRedirects ==
  /\ main = "forgetting" /\ main' = "closed"
  /\ table' = [table EXCEPT ![hostTable] = Empty, ![urlTable] = Empty]
  /\ UNCHANGED <<outOfService, poolVars, conn, urlTable, hostTable, swapTable, cleaner, th, opens, exhausted>>

Cleanup == GoOutOfService \/ CloseAll \/ ForgetRedirects

\* One step of a thread inside open.
Step(t) ==
  \/ ExpireIdle(t) \/ SkipCleaning(t) \/ FillHosts(t) \/ SwapHosts(t) \/ FillUrls(t)
  \/ SwapUrls(t) \/ Cleaned(t) \/ ResolveUrl(t) \/ Route(t) \/ Pull(t) \/ CheckService(t)
  \/ Send(t) \/ Receive(t) \/ Follow(t) \/ Learn(t) \/ Answer(t) \/ Finish(t)

Next == Cleanup \/ \E t \in Thread : Open(t) \/ Step(t)

Spec == Init /\ [][Next]_vars

\* Sockets have time limits and the interpreter runs every thread.
FairSpec == Spec /\ \A t \in Thread : WF_vars(Step(t))

-----------------------------------------------------------------------------
(* Properties *)

Pcs == {"idle", "clean", "swapHosts", "fillUrls", "swapUrls", "cleaned", "resolve",
        "route", "pull", "check", "send", "receive", "follow", "learn", "answer", "read"}

\* Types, and the three dictionaries stay three: the exchange of references in
\* _clean_timeout_redirects never makes two attributes name one dictionary, and
\* no url is ever looked for among hosts.
GatewayTypeOK ==
  /\ outOfService \in BOOLEAN
  /\ \A q \in Queues : queue[q].all \subseteq Conns /\ queue[q].host \in Host
  /\ connections \in [Host -> 0..Len(queue)]
  /\ \A c \in Conns : conn[c].queue \in Queues /\ conn[c].by \in Thread \cup {Nobody}
  /\ {urlTable, hostTable, swapTable} = 1..3
  /\ DOMAIN table[urlTable] \subseteq Url /\ DOMAIN table[hostTable] \subseteq Host
  /\ cleaner \in Thread \cup {Nobody}
  /\ \A t \in Thread : th[t].pc \in Pcs /\ th[t].hops \in 0..MaxHops

\* The threads that are using connection c.
Users(c) ==
  {t \in Thread : th[t].conn = c
                  /\ th[t].pc \in {"check", "send", "receive", "follow", "answer", "read"}}

\* How often c lies in a pool.
Slots(c) == UNION {{q} \X {i \in DOMAIN queue[q].idle : queue[q].idle[i] = c} : q \in Queues}
Times(c) == Cardinality(Slots(c))

\* A connection has one user or lies in one pool once, never both: pull, push,
\* the sweep of expired connections and clear_all all move it under the lock
\* of one pool, but finish_response decides without a lock who pushes it.  This
\* and the next two end when the requests of an open run out on a redirect.
OwnConnection ==
  ~exhausted => \A c \in Conns : Cardinality(Users(c)) + Times(c) <= 1

\* The response that open hands out is the response to its own request.
OwnResponse == ~exhausted => \A t \in Thread : At(t, "read") => th[t].got = t

\* While the gateway serves, every open socket is in use or can be used again,
\* but for a response to a redirect without Location, which _follow_move
\* abandons: any other would stay open until the process ends.
NoneForgotten ==
  main = "serving" /\ ~exhausted =>
    \A c \in Conns : conn[c].open =>
      Users(c) # {} \/ Times(c) > 0 \/ conn[c].resp = "live"

\* Every call of open returns: redirects, errors and retries share one bound,
\* also when cleanup kills connections under the feet of a thread.
EveryOpenReturns == \A t \in Thread : th[t].pc # "idle" ~> th[t].pc = "idle"
=============================================================================

---------------------------- MODULE RequestPool ----------------------------
(***************************************************************************)
(* The pool of curl easy handles every request to the venue goes through    *)
(* (src/src/api/CurlMultiManager.cpp, src/src/api/RestClient.cpp). A caller *)
(* takes a handle, sets its options, runs the transfer and gives the handle *)
(* back; a batch takes one handle for each of its requests, one after the   *)
(* other, and waits for the next while it holds the others. A handle keeps  *)
(* its options when it goes back, so the next user finds what the last one  *)
(* left: pointers to buffers and header lists that are gone by then. A      *)
(* pinger thread borrows what is free to keep the connections warm. It sets *)
(* every option but the length of the body, which stays that of the last    *)
(* request the handle served (CurlMultiManager.cpp 507-519 and 559-569).    *)
(* What the venue answers is left out, as are the options that never        *)
(* change; URL and token are the same for all. The session token is set at  *)
(* start-up only, so the header list of the order requests ("shared") stays *)
(***************************************************************************)
EXTENDS Integers, Sequences, FiniteSets, SequencesExt

CONSTANTS
  Callers,        \* threads that send requests: movers, the poller, the main loop
  CallsOf,        \* CallsOf[c]: the requests c makes
  BatchSize,      \* legs of a batch
  PoolSize,       \* kDefaultPoolSize
  WarmConnections \* curl_warm_connections

VARIABLES
  free,     \* free_handles_, a stack
  options,  \* per handle, what it was told last
  doing,    \* per caller: what it does
  request,  \* per caller: the request it makes
  got,      \* per caller: the handles it holds
  pinger,   \* the pinger thread
  borrowed, \* the handles it holds
  warmNow,  \* warm_now_
  quiet     \* last_activity_ms_ is keepalive_touch_sec old

poolState == <<free, options, doing, request, got, pinger, borrowed, warmNow, quiet>>

Handles == 1..PoolSize
Null == "null"
OrdersHeaders == "shared" \* orders_headers_list_
NoRequest == "none"
Size(k) == IF k = "batch" THEN BatchSize ELSE 1
In(stage) == {c \in Callers : doing[c] = stage}
Limit(k) ==
  CASE k \in {"place", "modify", "post", "delete", "batch"} -> "order_op_timeout"
    [] k = "get" -> "gateway_get_timeout"
    [] OTHER -> "request_timeout"
Method(k) ==
  CASE k \in {"read", "get"} -> "GET" [] k = "delete" -> "DELETE" [] OTHER -> "POST"

PoolInit ==
  /\ free = [i \in Handles |-> i]
  /\ options = [h \in Handles |-> [method |-> "GET", body |-> Null, size |-> Null,
                                   list |-> Null, sink |-> Null, heads |-> Null,
                                   limit |-> "none"]]
  /\ doing = [c \in Callers |-> "idle"] /\ request = [c \in Callers |-> NoRequest]
  /\ got = [c \in Callers |-> <<>>]
  /\ pinger = "waiting" /\ borrowed = <<>>
  /\ warmNow = TRUE /\ quiet = FALSE
-----------------------------------------------------------------------------
(* What each kind of request tells its handle; what it does not set stays.  *)
(* size is whose body's length CURLOPT_POSTFIELDSIZE holds, Null for 0.     *)
BodyOf(c, k) == IF k \in {"read", "get", "delete"} THEN Null ELSE c
General(c, k, o) ==
  [o EXCEPT !.method = Method(k), !.body = BodyOf(c, k), !.size = BodyOf(c, k), !.list = c,
            !.sink = c, !.heads = c, !.limit = Limit(k)]
\* mutant: the header callback of the handle's last request stays
OrderKeepsHeads(c, o) ==
  [o EXCEPT !.method = "POST", !.body = c, !.size = c, !.list = OrdersHeaders, !.sink = c,
            !.limit = Limit("place")]
OrderRequest(c, o) ==
  [o EXCEPT !.method = "POST", !.body = c, !.size = c, !.list = OrdersHeaders, !.sink = c,
            !.heads = Null, !.limit = Limit("place")]
ModifyRequest(c, o) ==
  [o EXCEPT !.method = "POST", !.body = c, !.size = c, !.list = OrdersHeaders, !.sink = c,
            !.heads = Null, !.limit = Limit("modify")]
PostGateway(c, o) ==
  [o EXCEPT !.method = "POST", !.body = c, !.size = c, !.list = c, !.sink = c, !.heads = Null,
            !.limit = Limit("post")]
GetGateway(c, o) ==
  [o EXCEPT !.method = "GET", !.body = Null, !.size = Null, !.list = c, !.sink = c, !.heads = Null,
            !.limit = Limit("get")]
\* HTTPGET, CUSTOMREQUEST, POST and POSTFIELDS, the sinks, headers and limit: no POSTFIELDSIZE
Ping(o) ==
  [o EXCEPT !.method = "GET", !.body = Null, !.list = Null, !.sink = Null, !.heads = Null,
            !.limit = "ping_timeout"]
Told(c, k, o) ==
  CASE k \in {"place", "batch"} -> OrderRequest(c, o)
    [] k = "modify" -> ModifyRequest(c, o)
    [] k = "post"   -> PostGateway(c, o)
    [] k = "get"    -> GetGateway(c, o)
    [] OTHER        -> General(c, k, o)
-----------------------------------------------------------------------------
Request(c, k) ==
  /\ doing[c] = "idle"
  /\ request' = [request EXCEPT ![c] = k] /\ doing' = [doing EXCEPT ![c] = "acquiring"]
  /\ UNCHANGED <<free, options, got, pinger, borrowed, warmNow, quiet>>

(* CurlMultiManager::acquire *)
Acquire(c) ==
  /\ doing[c] = "acquiring" /\ free # <<>>
  /\ LET h == Last(free) IN
       /\ free' = Front(free) /\ got' = [got EXCEPT ![c] = Append(@, h)]
       /\ options' = [options EXCEPT ![h] = Told(c, request[c], @)]
  /\ doing' = [doing EXCEPT ![c] = IF Len(got'[c]) = Size(request[c]) THEN "sending" ELSE @]
  /\ quiet' = FALSE
  /\ UNCHANGED <<request, pinger, borrowed, warmNow>>
WaitForHandle(c) ==
  /\ doing[c] = "acquiring" /\ free = <<>>
  /\ doing' = [doing EXCEPT ![c] = "asleep"]
  /\ UNCHANGED <<free, options, request, got, pinger, borrowed, warmNow, quiet>>

(* performBlocking and performBlockingBatch return *)
Transferred(c) ==
  /\ doing[c] = "sending"
  /\ doing' = [doing EXCEPT ![c] = "returning"] /\ quiet' = FALSE
  /\ UNCHANGED <<free, options, request, got, pinger, borrowed, warmNow>>

(* CurlMultiManager::release, once for each handle; the mutex is given up   *)
(* before the notification                                                  *)
Release(c) ==
  /\ doing[c] = "returning"
  /\ free' = Append(free, Head(got[c])) /\ got' = [got EXCEPT ![c] = Tail(@)]
  /\ doing' = [doing EXCEPT ![c] = "notifying"] /\ quiet' = FALSE
  /\ UNCHANGED <<options, request, pinger, borrowed, warmNow>>
WakeCaller(c) ==
  /\ doing[c] = "notifying"
  /\ LET after == [doing EXCEPT ![c] = IF got[c] = <<>> THEN "idle" ELSE "returning"] IN
       \/ In("asleep") = {} /\ doing' = after
       \/ \E w \in In("asleep") : doing' = [after EXCEPT ![w] = "acquiring"]
  /\ request' = [request EXCEPT ![c] = IF got[c] = <<>> THEN NoRequest ELSE @]
  /\ UNCHANGED <<free, options, got, pinger, borrowed, warmNow, quiet>>
-----------------------------------------------------------------------------
(* the pinger thread *)
TimePasses ==
  /\ ~quiet /\ quiet' = TRUE
  /\ UNCHANGED <<free, options, doing, request, got, pinger, borrowed, warmNow>>

PingerDue == pinger = "waiting" /\ (warmNow \/ quiet)
\* doWarmBatch: as many as are free, never waiting for one
Borrow ==
  /\ PingerDue /\ warmNow' = FALSE
  /\ LET taken == IF Len(free) < WarmConnections THEN Len(free) ELSE WarmConnections IN
       /\ borrowed' = SubSeq(free, Len(free) - taken + 1, Len(free))
       /\ free' = SubSeq(free, 1, Len(free) - taken)
       /\ pinger' = IF taken = 0 THEN "waiting" ELSE "warming"
  /\ options' = [h \in Handles |->
                   IF Contains(borrowed', h) THEN Ping(options[h]) ELSE options[h]]
  /\ UNCHANGED <<doing, request, got, quiet>>
GiveBack ==
  /\ pinger = "warming"
  /\ free' = free \o borrowed /\ borrowed' = <<>>
  /\ pinger' = "notifying" /\ quiet' = FALSE
  /\ UNCHANGED <<options, doing, request, got, warmNow>>
\* mutant: one sleeper is woken, whatever number of handles came back
PingerWakesOne ==
  /\ pinger = "notifying" /\ pinger' = "waiting"
  /\ \/ In("asleep") = {} /\ UNCHANGED doing
     \/ \E w \in In("asleep") : doing' = [doing EXCEPT ![w] = "acquiring"]
  /\ UNCHANGED <<free, options, request, got, borrowed, warmNow, quiet>>
WakeCallers ==
  /\ pinger = "notifying" /\ pinger' = "waiting"
  /\ doing' = [c \in Callers |-> IF doing[c] = "asleep" THEN "acquiring" ELSE doing[c]]
  /\ UNCHANGED <<free, options, request, got, borrowed, warmNow, quiet>>

PoolNext ==
  \/ \E c \in Callers : \/ \E k \in CallsOf[c] : Request(c, k)
                        \/ Acquire(c) \/ WaitForHandle(c) \/ Transferred(c) \/ Release(c) \/ WakeCaller(c)
  \/ TimePasses \/ Borrow \/ GiveBack \/ WakeCallers

PoolSpec == PoolInit /\ [][PoolNext]_poolState
-----------------------------------------------------------------------------
(* A caller that sleeps for a handle is not forgotten: while a handle is    *)
(* free somebody is awake to take it or about to be woken, and while none   *)
(* is free one of those that hold them can finish without another. The      *)
(* batches wait while they hold, so this needs a pool with more handles     *)
(* than all batches together can hold without being complete.               *)
PoolServes ==
  In("asleep") # {} =>
    IF free # <<>>
    THEN In("acquiring") # {} \/ In("notifying") # {} \/ pinger = "notifying"
    ELSE In("sending") \cup In("returning") # {} \/ pinger = "warming"

(* During a transfer its handle has nothing left of the requests it served  *)
(* before: it writes into the buffers, sends the body and headers, counts   *)
(* the length and keeps the time limit of the one that runs. A ping does so *)
(* too, but for one option, which nothing here promises: the length of the  *)
(* body, left by the last order on the handle, goes with no body at all.    *)
NothingLeftOver ==
  /\ \A c \in In("sending") : \A i \in DOMAIN got[c] :
       LET o == options[got[c][i]] k == request[c] IN
         /\ o.sink = c /\ o.heads \in {c, Null} /\ o.list \in {c, OrdersHeaders}
         /\ o.body = BodyOf(c, k) /\ o.size = o.body
         /\ o.method = Method(k) /\ o.limit = Limit(k)
  /\ \A i \in DOMAIN borrowed :
       LET o == options[borrowed[i]] IN
         /\ o.sink = Null /\ o.heads = Null /\ o.list = Null /\ o.body = Null
         /\ o.method = "GET" /\ o.limit = "ping_timeout"
=============================================================================

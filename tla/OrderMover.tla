----------------------------- MODULE OrderMover -----------------------------
(***************************************************************************)
(* The order mover (src/src/strategy/MmOrderMover.cpp): one FIFO and one    *)
(* worker thread per instrument, or one for all of them when sharding is    *)
(* off. A poster tests the shutdown flag, looks its worker up or starts it, *)
(* and appends to its queue: three steps with nothing held in between.      *)
(* shutdown sets the flag, copies the worker table, stops and empties each  *)
(* worker of the copy, and joins them.                                      *)
(* What a job does is left to the module that extends this one.             *)
(***************************************************************************)
EXTENDS Naturals, Sequences, SequencesExt

CONSTANTS
  Instruments,
  Posters,      \* the threads that post jobs
  MaxPosts      \* bound: jobs one poster posts, in all processes

VARIABLES
  mode,      \* sharding_mode_: unset until the first post resolves it, then sharded or single
  workers,   \* workers_: the record of each key's worker
  poster,    \* per poster: where it is in enqueueForAx, the job it posts, how many it posted
  shut       \* shutdown: how far it is, and the keys of the workers it copied

moverVars == <<mode, workers, poster, shut>>

Shared == "shared"
Keys   == Instruments \cup {Shared}
Jobs   == Instruments \X Posters \X (1 .. MaxPosts)
NoJob  == <<"none", "none", 0>>
InstrumentOf(j) == j[1]
KeyOf(i) == IF mode = "single" THEN Shared ELSE i

Worker   == [at : {"none", "waiting", "running", "gone"}, stop : BOOLEAN,
             queue : Seq(Jobs), job : Jobs \cup {NoJob}]
NoWorker == [at |-> "none", stop |-> FALSE, queue |-> <<>>, job |-> NoJob]

MoverInit ==
  /\ mode = "unset"
  /\ workers = [k \in Keys |-> NoWorker]
  /\ poster = [p \in Posters |-> [at |-> "idle", job |-> NoJob, posts |-> 0]]
  /\ shut = [at |-> "open", copied |-> {}]

(* enqueueForAx *)
\* the shutdown flag is tested; when it is set the job is dropped
PostCheck(p, i) ==
  /\ poster[p].at = "idle" /\ poster[p].posts < MaxPosts
  /\ shut.at = "open"
  /\ poster' = [poster EXCEPT ![p] = [at |-> "checked", job |-> <<i, p, @.posts + 1>>,
                                      posts |-> @.posts + 1]]
  /\ UNCHANGED <<mode, workers, shut>>

\* the first post asks the configuration whether the mover is sharded
ShardingResolve ==
  /\ mode = "unset" /\ \E p \in Posters : poster[p].at = "checked"
  /\ mode' \in {"sharded", "single"}
  /\ UNCHANGED <<workers, poster, shut>>

\* under workers_mutex_: the worker is found, or its thread is started
WorkerFor(p) ==
  LET k == KeyOf(InstrumentOf(poster[p].job))
  IN /\ poster[p].at = "checked" /\ mode # "unset"
     /\ poster' = [poster EXCEPT ![p].at = "found"]
     /\ workers' = IF workers[k].at = "none" THEN [workers EXCEPT ![k].at = "waiting"]
                                             ELSE workers
     /\ UNCHANGED <<mode, shut>>

\* under the worker's own mutex; the queue of a worker that was stopped takes the job too
PostPush(p) ==
  LET k == KeyOf(InstrumentOf(poster[p].job))
  IN /\ poster[p].at = "found"
     /\ workers' = [workers EXCEPT ![k].queue = Append(@, poster[p].job)]
     /\ poster' = [poster EXCEPT ![p].at = "idle", ![p].job = NoJob]
     /\ UNCHANGED <<mode, shut>>

(* runWorker *)
\* mutant: the newest job is taken first
TakeNewest(k) ==
  /\ workers[k].at = "waiting" /\ workers[k].queue # <<>>
  /\ workers' = [workers EXCEPT ![k].at = "running", ![k].queue = Front(@),
                                ![k].job = Last(workers[k].queue)]
  /\ UNCHANGED <<mode, poster, shut>>
Take(k) ==
  /\ workers[k].at = "waiting" /\ workers[k].queue # <<>>
  /\ workers' = [workers EXCEPT ![k].at = "running", ![k].queue = Tail(@),
                                ![k].job = Head(workers[k].queue)]
  /\ UNCHANGED <<mode, poster, shut>>

Finish(k) ==
  /\ workers[k].at = "running"
  /\ workers' = [workers EXCEPT ![k].at = "waiting", ![k].job = NoJob]
  /\ UNCHANGED <<mode, poster, shut>>

Leave(k) ==
  /\ workers[k].at = "waiting" /\ workers[k].stop /\ workers[k].queue = <<>>
  /\ workers' = [workers EXCEPT ![k].at = "gone"]
  /\ UNCHANGED <<mode, poster, shut>>

(* shutdown *)
ShutCall ==
  /\ shut.at = "open"
  /\ shut' = [shut EXCEPT !.at = "called"]
  /\ UNCHANGED <<mode, workers, poster>>

ShutCopy ==
  /\ shut.at = "called"
  /\ shut' = [at |-> "stopping", copied |-> {k \in Keys : workers[k].at # "none"}]
  /\ UNCHANGED <<mode, workers, poster>>

ShutStop(k) ==
  /\ shut.at = "stopping" /\ k \in shut.copied /\ ~ workers[k].stop
  /\ workers' = [workers EXCEPT ![k].stop = TRUE, ![k].queue = <<>>]
  /\ UNCHANGED <<mode, poster, shut>>

\* mutant: the workers are told to stop and not waited for
ShutJoinNoWait ==
  /\ shut.at = "stopping"
  /\ \A k \in shut.copied : workers[k].stop
  /\ shut' = [shut EXCEPT !.at = "joined"]
  /\ UNCHANGED <<mode, workers, poster>>
ShutJoin ==
  /\ shut.at = "stopping"
  /\ \A k \in shut.copied : workers[k].stop /\ workers[k].at = "gone"
  /\ shut' = [shut EXCEPT !.at = "joined"]
  /\ UNCHANGED <<mode, workers, poster>>

Post == \/ \E p \in Posters, i \in Instruments : PostCheck(p, i)
        \/ ShardingResolve
        \/ \E p \in Posters : WorkerFor(p) \/ PostPush(p)
Shutdown == ShutCopy \/ (\E k \in Keys : ShutStop(k)) \/ ShutJoin
-----------------------------------------------------------------------------
\* workers whose thread was started after shutdown had copied the table: no one joins them
Late == {k \in Keys : workers[k].at # "none" /\ shut.at \in {"stopping", "joined"}}
        \ shut.copied
=============================================================================

----------------------------- MODULE StackTable -----------------------------
(***************************************************************************)
(* Which desk stacks run (src/examples/main.cpp). The desk writes           *)
(* orders.json; once a second the thread mm_desk_bg_thread looks at it,     *)
(* starts the stacks it names and tears down the others. Two protections:   *)
(* while the desk edits, it freezes the file and the thread reads a copy;   *)
(* and a removal of several stacks waits for a second reading, unless the   *)
(* desk says that it means it. A stack's parameters are left out, and so is *)
(* what becomes of its legs (ProductLease and PairCycle).                   *)
(***************************************************************************)
EXTENDS Naturals, FiniteSets

CONSTANTS
  StackIds,
  NameSets,      \* the sets of stacks that the desk writes
  MassMin,       \* mm_desk.reconcile_mass_teardown_min
  MaxWrites,     \* bound: orders.json written or removed
  MaxFreezes     \* bound: freeze signals

VARIABLES
  file,      \* orders.json: modification time and content
  copy,      \* the frozen copy
  signal,    \* the desk's freeze signal
  freeze,    \* the thread: does it read the copy, the last signal it knows
  seen,      \* s_orders_json_mtime, s_reconcile_read_frozen, s_had_orders_file, s_reconcile_force_reread
  deferred,  \* s_pending_mass_teardown_fp
  step,      \* where the thread is
  registered,   \* the stacks that are registered
  clock, writes,
  failed,    \* history: stacks whose last start failed
  wanted     \* history: the removal that the last reading asked for

tableState == <<file, copy, signal, freeze, seen, deferred, step, registered, clock, writes, failed, wanted>>

Missing == [time |-> 0]
Exists(f) == f.time # 0
Empty == [kind |-> "doc", names |-> {}, intent |-> FALSE]
Docs == [kind : {"doc"}, names : NameSets, intent : {FALSE}]
        \cup {[Empty EXCEPT !.intent = TRUE]}                \* "intent": "remove_all"
        \cup {[Empty EXCEPT !.kind = "torn"]}                \* does not parse
        \cup [kind : {"throws"}, names : {StackIds}, intent : {FALSE}]  \* a value of the wrong type
NoSignal == [seq |-> 0, active |-> FALSE]
NotDeferred == <<>>
\* the file the thread reads
InUse == IF freeze.reads = "copy" THEN copy ELSE file

TableInit ==
  /\ file = [time |-> 1, doc |-> Empty]
  /\ copy = Missing /\ signal = NoSignal
  /\ freeze = [reads |-> "file", seq |-> 0]
  /\ seen = [time |-> 0, from |-> "file", had |-> FALSE, force |-> FALSE]
  /\ deferred = NotDeferred /\ step = "refresh"
  /\ registered = StackIds \* registerStrategy has reconciled once; the file was emptied since
  /\ clock = 1 /\ writes = 0 /\ failed = {} /\ wanted = {}
-----------------------------------------------------------------------------
(* the desk saves; the engine writes back what it has read, with new order ids in one row, and may *)
(* thereby take back what the desk has saved in between: any content may follow any other         *)
Write(doc) ==
  /\ writes < MaxWrites /\ writes' = writes + 1
  /\ clock' = clock + 1 /\ file' = [time |-> clock', doc |-> doc]
  /\ UNCHANGED <<copy, signal, freeze, seen, deferred, step, registered, failed, wanted>>
RemoveFile ==
  /\ writes < MaxWrites /\ writes' = writes + 1
  /\ Exists(file) /\ file' = Missing
  /\ UNCHANGED <<copy, signal, freeze, seen, deferred, step, registered, clock, failed, wanted>>
Signal(active) ==
  /\ signal.seq < MaxFreezes
  /\ signal' = [seq |-> signal.seq + 1, active |-> active]
  /\ UNCHANGED <<file, copy, freeze, seen, deferred, step, registered, clock, writes, failed, wanted>>
-----------------------------------------------------------------------------
(* mmOrdersJsonMaybeRefreshFreezeCopy, once a tick and again before a reading *)
Known == signal.seq # 0 /\ signal.seq = freeze.seq
NoFile == signal.seq = 0
Copied == [time |-> clock + 1, doc |-> IF Exists(file) THEN file.doc ELSE Empty]
RefreshFreeze ==
  \/ /\ NoFile \/ Known
     /\ freeze' = IF NoFile THEN [freeze EXCEPT !.reads = "file"] ELSE freeze
     /\ UNCHANGED <<copy, clock>>
  \/ /\ ~NoFile /\ ~Known /\ signal.active
     /\ copy' = Copied /\ clock' = clock + 1
     /\ freeze' = [reads |-> "copy", seq |-> signal.seq]
  \/ \* the copy cannot be written: the signal counts as handled
     /\ ~NoFile /\ ~Known /\ signal.active
     /\ freeze' = [freeze EXCEPT !.seq = signal.seq] /\ UNCHANGED <<copy, clock>>
  \/ /\ ~NoFile /\ ~Known /\ ~signal.active
     /\ freeze' = [reads |-> "file", seq |-> signal.seq] /\ UNCHANGED <<copy, clock>>
Tick ==
  /\ step = "refresh" /\ RefreshFreeze /\ step' = "look"
  /\ UNCHANGED <<file, signal, seen, deferred, registered, writes, failed, wanted>>
RefreshAgain ==
  /\ step = "reconcile" /\ RefreshFreeze /\ step' = "read"
  /\ UNCHANGED <<file, signal, seen, deferred, registered, writes, failed, wanted>>

(* reconcileMmReqStrategiesFromOrdersJson: has the file changed? *)
Switched == [seen EXCEPT !.from = freeze.reads, !.time = IF seen.from = freeze.reads THEN @ ELSE 0]
LookGone ==
  /\ step = "look" /\ ~Exists(InUse)
  /\ IF Switched.had
     THEN /\ seen' = [Switched EXCEPT !.had = FALSE, !.time = 0] /\ step' = "reconcile"
     ELSE /\ seen' = Switched /\ step' = "refresh"
  /\ UNCHANGED <<file, copy, signal, freeze, deferred, registered, clock, writes, failed, wanted>>
Look ==
  /\ step = "look" /\ Exists(InUse)
  /\ seen' = [Switched EXCEPT !.had = TRUE, !.force = FALSE, !.time = InUse.time]
  /\ step' = IF ~Switched.force /\ Switched.time = InUse.time THEN "refresh" ELSE "reconcile"
  /\ UNCHANGED <<file, copy, signal, freeze, deferred, registered, clock, writes, failed, wanted>>

(* reconcileOrdersConfig *)
Doc == IF Exists(InUse) THEN InUse.doc ELSE Empty
ReadTorn ==
  /\ step = "read" /\ Doc.kind = "torn" /\ step' = "refresh"
  /\ UNCHANGED <<file, copy, signal, freeze, seen, deferred, registered, clock, writes, failed, wanted>>
\* mmSpawnFromOrdersStack: a stack that runs is refreshed, a new one is started or fails to
Spawned(started) == registered \cup started
\* mmTearDownByStackId: stopped, its legs cancelled, unregistered
TornDown(all, removal) == all \ removal
\* the rows before the one that throws are started, nothing is removed
ReadThrows(started) ==
  /\ step = "read" /\ Doc.kind = "throws" /\ step' = "refresh"
  /\ started \subseteq Doc.names /\ registered' = Spawned(started)
  /\ UNCHANGED <<file, copy, signal, freeze, seen, deferred, clock, writes, failed, wanted>>

\* mutants: the deferred removal does not ask for the second reading; a recovered file is not noted
DeferQuietly(print) == deferred' = print /\ UNCHANGED seen
Defer(print) == deferred' = print /\ seen' = [seen EXCEPT !.force = TRUE]
RecoveredUnnoted == deferred
Recovered == NotDeferred

Read(started) ==
  /\ step = "read" /\ Doc.kind = "doc" /\ step' = "refresh"
  /\ started \subseteq Doc.names \ registered
  /\ failed' = (Doc.names \ registered) \ started
  /\ LET all == Spawned(started)
         removal == registered \ Doc.names
         print == <<Cardinality(Doc.names), Cardinality(all), removal>>
         mass == Cardinality(removal) >= MassMin /\ ~Doc.intent
     IN /\ wanted' = removal
        /\ IF mass /\ deferred # print
           THEN registered' = all /\ Defer(print)
           ELSE /\ registered' = TornDown(all, removal) /\ UNCHANGED seen
                /\ deferred' = IF mass THEN NotDeferred ELSE Recovered
  /\ UNCHANGED <<file, copy, signal, freeze, clock, writes>>

TableNext ==
  \/ \E doc \in Docs : Write(doc)
  \/ RemoveFile
  \/ \E active \in BOOLEAN : Signal(active)
  \/ Tick \/ LookGone \/ Look \/ RefreshAgain
  \/ ReadTorn
  \/ \E started \in SUBSET StackIds : ReadThrows(started)
  \/ \E started \in SUBSET StackIds : Read(started)

TableSpec == TableInit /\ [][TableNext]_tableState
-----------------------------------------------------------------------------
\* When the thread has nothing left to read, the stacks that run are those of the file in use, but
\* for stacks that failed to start and files that cannot be read to the end; neither is tried again
\* before the file changes. (A file that was removed is no file in use: see the README.)
StacksFollowFile ==
  step = "refresh" /\ Exists(InUse) /\ InUse.doc.kind = "doc"
  /\ seen.from = freeze.reads /\ seen.time = InUse.time /\ ~seen.force
    => registered = InUse.doc.names \ failed

\* Several stacks are torn down in one pass only when the reading before asked for the same removal
\* or the desk states its intent.
RemovalConfirmed ==
  Cardinality(registered \ registered') >= MassMin /\ ~Doc.intent
    => wanted = registered \ registered'
\* (of every step)
MassConfirmed == [][RemovalConfirmed]_tableState
=============================================================================

--------------------------- MODULE FeedCallbacks ---------------------------
(***************************************************************************)
(* The callbacks of the external feeds                                      *)
(* (src/src/marketdata/ExternalFeedManager.cpp). A feed thread that has a   *)
(* quote pins the registered callbacks while it holds callbacks_mutex_ and  *)
(* calls them without it; a strategy that goes away erases its callback and *)
(* waits until nobody has it pinned. The count of pins is lowered without   *)
(* the mutex, so the waiting thread's test and its falling asleep are two   *)
(* steps with the mutex held between them.                                  *)
(***************************************************************************)
EXTENDS Naturals, Sequences, SequencesExt

CONSTANTS
  FeedThreads, \* the feed threads: FIX, Hyperliquid poll, Mettraders
  Callbacks,   \* one per strategy
  Early        \* those that are registered when the feeds start

VARIABLES
  entries,   \* callbacks_, in the order of registration
  inFlight,  \* per callback: CallbackEntry::in_flight
  mutex,     \* who holds callbacks_mutex_ from one step to the next
  caller,    \* per feed thread: where notifyCallbacks is, the pinned entries still to call
  leaver     \* per callback: where its strategy's unregisterCallback is

cbState == <<entries, inFlight, mutex, caller, leaver>>

CbInit ==
  /\ entries = SetToSeq(Early)
  /\ inFlight = [c \in Callbacks |-> 0]
  /\ mutex = "free"
  /\ caller = [t \in FeedThreads |-> [at |-> "idle", todo |-> <<>>]]
  /\ leaver = [c \in Callbacks |-> IF c \in Early THEN "registered" ELSE "new"]

Unheld == mutex = "free"
Pinned(c) == inFlight[c] > 0
-----------------------------------------------------------------------------
RegisterCallback(c) ==
  /\ leaver[c] = "new" /\ Unheld
  /\ entries' = Append(entries, c)
  /\ leaver' = [leaver EXCEPT ![c] = "registered"]
  /\ UNCHANGED <<inFlight, mutex, caller>>

(* notifyCallbacks *)
Pin(t) ==
  /\ caller[t].at = "idle" /\ Unheld /\ entries # <<>>
  /\ caller' = [caller EXCEPT ![t] = [at |-> "call", todo |-> entries]]
  /\ inFlight' = [c \in Callbacks |-> IF Contains(entries, c) THEN inFlight[c] + 1 ELSE inFlight[c]]
  /\ UNCHANGED <<entries, mutex, leaver>>

Call(t) ==
  /\ caller[t].at = "call"
  /\ caller' = [caller EXCEPT ![t].at = "unpin"]
  /\ UNCHANGED <<entries, inFlight, mutex, leaver>>

\* the next entry, or the end of the round
Further(todo) == IF Tail(todo) = <<>> THEN [at |-> "idle", todo |-> <<>>]
                                      ELSE [at |-> "call", todo |-> Tail(todo)]
\* the last one to leave an entry must wake its waiting strategy
Unpin(t) ==
  LET c == Head(caller[t].todo) IN
  /\ caller[t].at = "unpin"
  /\ inFlight' = [inFlight EXCEPT ![c] = @ - 1]
  /\ caller' = [caller EXCEPT ![t] = IF inFlight[c] = 1 THEN [@ EXCEPT !.at = "wake"]
                                                        ELSE Further(@.todo)]
  /\ UNCHANGED <<entries, mutex, leaver>>

Woken == [c \in Callbacks |-> IF leaver[c] = "asleep" THEN "test" ELSE leaver[c]]
\* mutant: the mutex is not taken for the notification
WakeUnlocked(t) ==
  /\ caller[t].at = "wake"
  /\ leaver' = Woken
  /\ caller' = [caller EXCEPT ![t] = Further(@.todo)]
  /\ UNCHANGED <<entries, inFlight, mutex>>
Wake(t) ==
  /\ caller[t].at = "wake" /\ Unheld
  /\ leaver' = Woken
  /\ caller' = [caller EXCEPT ![t] = Further(@.todo)]
  /\ UNCHANGED <<entries, inFlight, mutex>>
-----------------------------------------------------------------------------
(* unregisterCallback *)
Erase(c) ==
  /\ leaver[c] = "registered" /\ Unheld
  /\ \E i \in DOMAIN entries : entries[i] = c /\ entries' = RemoveAt(entries, i)
  /\ leaver' = [leaver EXCEPT ![c] = "test"]
  /\ UNCHANGED <<inFlight, mutex, caller>>

\* the wait condition, tested with the mutex held
TestDrained(c) ==
  /\ leaver[c] = "test" /\ Unheld
  /\ IF Pinned(c) THEN leaver' = [leaver EXCEPT ![c] = "doze"] /\ mutex' = c
                  ELSE leaver' = [leaver EXCEPT ![c] = "returned"] /\ UNCHANGED mutex
  /\ UNCHANGED <<entries, inFlight, caller>>
FallAsleep(c) ==
  /\ leaver[c] = "doze"
  /\ leaver' = [leaver EXCEPT ![c] = "asleep"] /\ mutex' = "free"
  /\ UNCHANGED <<entries, inFlight, caller>>

CbNext ==
  \/ \E c \in Callbacks : RegisterCallback(c) \/ Erase(c) \/ TestDrained(c) \/ FallAsleep(c)
  \/ \E t \in FeedThreads : Pin(t) \/ Call(t) \/ Unpin(t) \/ Wake(t)

CbSpec == CbInit /\ [][CbNext]_cbState
-----------------------------------------------------------------------------
\* When unregisterCallback has returned, no feed thread runs the callback or will still call it
\* (the strategy's destructor relies on this); and a strategy that sleeps until its callback is
\* drained has one that is pinned, or a wake-up that comes: a feed never leaves it asleep for ever.
CallbackDrained ==
  \A c \in Callbacks :
    /\ leaver[c] = "returned" => \A t \in FeedThreads : ~Contains(caller[t].todo, c)
                                                        \/ (caller[t].at = "wake" /\ Head(caller[t].todo) = c)
    /\ leaver[c] = "asleep" =>
         Pinned(c) \/ \E t \in FeedThreads : caller[t].at = "wake" /\ Head(caller[t].todo) = c
=============================================================================

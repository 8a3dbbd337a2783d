------------------------------- MODULE MCStack -------------------------------
(***************************************************************************)
(* A stack's pair cycle, and the parts around a stack that share no state   *)
(* with it: the request pool that carries its orders, the breakers that     *)
(* pause its quoting, the pipeline that brings its fills. As in MCParts, a  *)
(* behaviour picks one and runs it, while the others stay in an initial     *)
(* state of theirs.                                                         *)
(***************************************************************************)
EXTENDS PairCycle, RequestPool, QuotePause, FillPipeline, TLC

MCCallsOf == [c \in {"mover", "loop"} |-> IF c = "mover" THEN {"batch", "modify", "post"}
                                          ELSE {"batch", "get", "delete"}]

\* The executions are interchangeable (safety only).
TradeSymmetry == Permutations(Trades)

VARIABLE part   \* the part that runs

StackInit ==
  /\ part \in {"pair", "pool", "pause", "fills"}
  /\ Init /\ PoolInit /\ PauseInit /\ FillInit
  \* a part that does not run is in one of its initial states only
  /\ part # "pause" => breaker = "market"
  /\ part # "fills" => (pollerUp <=> TRUE \in PollerConfigs)

StackNext ==
  /\ UNCHANGED part
  /\ IF part = "pool"  THEN PoolNext  ELSE UNCHANGED poolState
  /\ IF part = "pause" THEN PauseNext ELSE UNCHANGED pauseState
  /\ IF part = "fills" THEN FillNext  ELSE UNCHANGED fillVars
  /\ IF part = "pair"  THEN Next      ELSE UNCHANGED vars

StackSpec ==
  StackInit /\ [][StackNext]_<<part, vars, poolState, pauseState, fillVars>>
=============================================================================

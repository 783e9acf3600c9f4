------------------------------ MODULE MCTurns --------------------------------
(* What keeps the agents of one process going: the loop of an agent, and the   *)
(* lock of a directory that the consolidations of its memories wait for. They  *)
(* share nothing here: the initial states choose which of them runs, the other *)
(* rests in its initial state.                                                 *)
EXTENDS AgentLoop

CONSTANTS Threads, Nobody, MaxTurns

ASSUME MemoryAssumption == Nobody \notin Threads /\ MaxTurns \in Nat

VARIABLE part
VARIABLES turns, mem, observed, saved, pending, savedPending, anonymous, await, snapshot, cutoff,
          existing, lock, log, logHistory, abandoned, crash

Memory == INSTANCE ObservationalMemory WITH MayHide <- {}, pc <- await, history <- logHistory

memoryVars == <<turns, mem, observed, saved, pending, savedPending, anonymous, await, snapshot,
                cutoff, existing, lock, log, logHistory, abandoned, crash>>

MCInit ==
    /\ part \in {"loop", "memory"}
    /\ Init /\ (part # "loop" => backend = CHOOSE b \in Backends : TRUE)
    /\ Memory!Init

MCNext ==
    /\ UNCHANGED part
    /\ \/ part = "loop" /\ Next /\ UNCHANGED memoryVars
       \/ part = "memory" /\ Memory!Next /\ UNCHANGED vars

MCSpec == MCInit /\ [][MCNext]_<<part, vars, memoryVars>> /\ Fairness /\ Memory!Fairness

-----------------------------------------------------------------------------

\* The values of both parts have their types.
MCTypeOK == TypeOK /\ Memory!TypeOK

\* Nothing hangs: every message is settled and a stop takes effect; and a consolidation
\* that waits for the lock of its directory gets it or is cancelled.
TurnsEnd == MessagesSettle /\ StopEnds /\ Memory!WaitersProceed
=============================================================================

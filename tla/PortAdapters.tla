------------------------------ MODULE PortAdapters ------------------------------
(***************************************************************************)
(* The adapters behind the ports of the worker, side by side: the Redis    *)
(* account lock with the handlers that use it, the lock registry and the   *)
(* delivery of commands that take the place of Redis in a single process.  *)
(* (The adapter of BullMQ is part of WorkerRuntime.)                       *)
(*                                                                         *)
(* They share no state, so an interleaving of two of them shows nothing    *)
(* that one alone does not: part chooses at the start which of them runs,  *)
(* and the states explored are their sum, not their product.               *)
(***************************************************************************)
EXTENDS RedisAccountLock, LocalDelivery

CONSTANTS MemoryTokens    \* the tokens of the lock registry

ASSUME MemoryTokensAssumption == NoToken \notin MemoryTokens

VARIABLES
  part,       \* the adapter that runs
  record, left, object, objectAccount, released    \* of InMemoryAccountLock

memoryVars == <<record, left, object, objectAccount, released>>
adapterVars == <<part, vars, deliveryVars, memoryVars>>

Memory == INSTANCE InMemoryAccountLock
            WITH Tokens <- MemoryTokens,
                 token <- record, lease <- object, account <- objectAccount

(* Every variable keeps its type; in particular no record of a lock,       *)
(* renewed however often, has more left than its time to live.             *)
AdaptersTypeOK ==
  /\ part \in {"redis", "memory", "delivery"}
  /\ TypeOK /\ Memory!TypeOK /\ DeliveryTypeOK

AdaptersInit ==
  /\ part \in {"redis", "memory", "delivery"}
  /\ Init /\ Memory!Init /\ LocalInit

AdaptersNext ==
  \/ part = "redis" /\ Next /\ UNCHANGED <<part, memoryVars, deliveryVars>>
  \/ part = "memory" /\ Memory!Next /\ UNCHANGED <<part, vars, deliveryVars>>
  \/ part = "delivery" /\ LocalNext /\ UNCHANGED <<part, vars, memoryVars>>

AdaptersSpec == AdaptersInit /\ [][AdaptersNext]_adapterVars /\ Fairness

-----------------------------------------------------------------------------
(* InMemoryAccountLockRegistry keeps the same promise as Redis: an expired *)
(* record that is still in the map counts as free, and the lease object    *)
(* that stored it can neither renew it back to life nor, by its late       *)
(* release(), free the account of the worker that took over.               *)
MemoryImplementsPort == Memory!ImplementsPort
=============================================================================

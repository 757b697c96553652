---------------------------- MODULE BackendServices ----------------------------
(***************************************************************************)
(* The two components of the backend that wait for the network, side by    *)
(* side: the process with its HTTP server and readiness checks, and the    *)
(* proxy manager with its checks.                                          *)
(*                                                                         *)
(* They share no state, so an interleaving of the two shows nothing that   *)
(* one alone does not: part chooses at the start which of them runs, and   *)
(* the states explored are their sum, not their product.                   *)
(***************************************************************************)
EXTENDS BackendProcess, Proxies

VARIABLES part    \* the component that runs

serviceVars == <<part, vars, proxyVars>>

ServicesTypeOK ==
  /\ part \in {"process", "proxies"}
  /\ TypeOK /\ ProxiesTypeOK

ServicesInit ==
  /\ part \in {"process", "proxies"}
  /\ Init /\ ProxiesInit
  /\ part = "proxies" => up = [k \in Checks |-> FALSE]

ServicesNext ==
  \/ part = "process" /\ Next /\ UNCHANGED <<part, proxyVars>>
  \/ part = "proxies" /\ ProxiesNext /\ UNCHANGED <<part, vars>>

ServicesSpec ==
  /\ ServicesInit /\ [][ServicesNext]_serviceVars
  /\ Fairness /\ ProxiesFairness
=============================================================================

------------------------ MODULE CoordinatorContract ------------------------
(***************************************************************************)
(* The coordinator implements LeaseService.  The mapping forgets units,    *)
(* identifiers, names, tombstones, demand, deadlines and the document on   *)
(* disk: what memory holds is what the service has promised.  A decision   *)
(* whose save failed after the rename is one the service takes when the    *)
(* next process opens that document.                                       *)
(***************************************************************************)
EXTENDS Coordinator

Service == INSTANCE LeaseService
             WITH lease   <- [k \in Keys |-> state.leases[k].status],
                  fence   <- state.fenced,
                  waiting <- state.pending

(* Every behaviour of the coordinator, with its failed saves, sweeps,       *)
(* crashes and restarts, is one of the lease service managers rely on: no   *)
(* call or restart does more to the leases than let provisional ones lapse  *)
(* and carry out one decision.                                              *)
KeepsContract == Service!Spec

=============================================================================

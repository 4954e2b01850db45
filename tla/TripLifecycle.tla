------------------------------ MODULE TripLifecycle ------------------------------
(***************************************************************************)
(* The use cases of TripUseCases beside the domain state machine of        *)
(* TripStateMachine, which they do not call.  The refinement mapping takes *)
(* a row of the trips table to a trip of the state machine: same status,   *)
(* driver, payment intent and timestamps.                                  *)
(***************************************************************************)
EXTENDS TripUseCases

TripOf(t) ==
  [status |-> row[t].status, driverId |-> row[t].driverId,
   paymentIntentId |-> row[t].paymentIntentId, stamps |-> row[t].stamps]

SM(t) == INSTANCE TripStateMachine WITH trip <- TripOf(t)

\* A step of the state machine for trip t.  REQUEST only creates a trip here: the
\* state machine itself would take any trip back to REQUESTED.
TripStep(t) == SM(t)!Next /\ (row'[t].status = "REQUESTED" => Status(t) = None)

\* Every trip behaves as the domain state machine says, with its guards on driver,
\* payment intent and timestamps, and is requested once (a trip that was in the table
\* from the start has been through REQUEST).  It holds as long as the requests about
\* a trip do not overlap, and fails when they do.
Lifecycle ==
  /\ \A t \in Trips \ Existing : SM(t)!Init
  /\ [][\A t \in Trips : TripStep(t) \/ UNCHANGED TripOf(t)]_vars

\* Under any interleaving a request still changes the row along the state
\* machine's table, from the status it read (which may be stale by then).
WritesFollowTheTable ==
  [][\A k \in Tasks, t \in Trips :
       (task'[k] # task[k] /\ row'[t] # row[t]) =>
         \/ <<task[k].seen, row'[t].status>> \in SM(t)!validTransitions
         \/ task[k].seen = None /\ row'[t].status = "REQUESTED"]_vars
=============================================================================

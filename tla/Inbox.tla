--------------------------------- MODULE Inbox ---------------------------------
(***************************************************************************)
(* What the event bus promises the trips service: an event that is owed is *)
(* processed at least once, and owed until it has been.                    *)
(***************************************************************************)
VARIABLES
  owed,      \* messages the service has not finished with
  processed  \* messages that have been through processing at least once

Init == owed = {} /\ processed = {}

Arrive(m) ==
  /\ m \notin owed \cup processed
  /\ owed' = owed \cup {m}
  /\ UNCHANGED processed

Process(m) ==
  /\ m \in owed
  /\ processed' = processed \cup {m}
  /\ UNCHANGED owed

Finish(m) ==
  /\ m \in owed \cap processed
  /\ owed' = owed \ {m}
  /\ UNCHANGED processed

Next ==
  \/ \E m \in owed' \ owed : Arrive(m)
  \/ \E m \in owed : Process(m) \/ Finish(m)

Spec == Init /\ [][Next]_<<owed, processed>>
=============================================================================

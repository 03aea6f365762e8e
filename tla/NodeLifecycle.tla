--------------------------- MODULE NodeLifecycle ---------------------------
(***************************************************************************)
(* What the node table promises its readers, whoever writes it: an id      *)
(* enters as provisioning and only below the cap, moves one edge of        *)
(* validTransitions at a time, and may be dropped; a restart of the        *)
(* process empties the table.  Orchestrator is shown to implement it.      *)
(***************************************************************************)
EXTENDS NodeTable

VARIABLE table

Init == table = EmptyTable

Register(id) ==
  /\ CanAdd(table, id)
  /\ table' = [table EXCEPT ![id] = "provisioning"]

Advance(id) ==
  /\ table[id] # Absent
  /\ \E to \in validTransitions[table[id]] : table' = [table EXCEPT ![id] = to]

Drop(id) ==
  /\ table[id] # Absent
  /\ table' = [table EXCEPT ![id] = Absent]

Restart == table' = EmptyTable

Next ==
  \/ \E id \in NodeIds : Register(id) \/ Advance(id) \/ Drop(id)
  \/ Restart

Spec == Init /\ [][Next]_table

=============================================================================

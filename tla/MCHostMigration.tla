--------------------------- MODULE MCHostMigration ---------------------------
(* HostMigration on three or four machines.                                *)
EXTENDS HostMigration

Three == 0..2
Four == 0..3
Nothing == {}
Announcements == {"reconnection"}

(* The election implements the abstract succession of hosts.               *)
Succession == INSTANCE HostSuccession
                WITH live <- {n \in Node : status[n] # "crashed"},
                     hosts <- {n \in Node : role[n] = "host" /\ status[n] # "crashed"},
                     elected <- {n \in Node : role[n] = "host"}
ImplementsSuccession == Succession!SSpec
=============================================================================

---------------------------- MODULE MCConnection ----------------------------
EXTENDS Connection, TLC

(* All connections are handled by the same worker. *)
OneWorker == [c \in Conn |-> CHOOSE w \in Worker : TRUE]

(* The safety properties do not tell connections apart. *)
Symmetry == Permutations(Conn)
=============================================================================

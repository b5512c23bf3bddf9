-------------------------- MODULE MCBlockingQueue ---------------------------
(* BlockingQueue for TLC: threads as model values. *)
EXTENDS BlockingQueue

CONSTANTS p1, p2, c1, c2, t1

MCProducers == {p1, p2}
MCConsumers == {c1, c2}
MCClosers == {t1}

=============================================================================

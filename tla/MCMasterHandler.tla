--------------------------- MODULE MCMasterHandler ---------------------------
(* MasterHandler on one to three requests.                                  *)
EXTENDS MasterHandler, TLC

CONSTANTS Sets, Dels, Gets

\* Which request is of which kind.
MCOp == [r \in Requests |-> IF r \in Sets THEN "set"
                            ELSE IF r \in Dels THEN "del" ELSE "get"]

\* Pool threads are interchangeable, and so are requests of one kind.
Symmetry == Permutations(Workers)
=============================================================================

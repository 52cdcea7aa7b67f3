---------------------------- MODULE MCDispatcher ----------------------------
(* Dispatcher on a small instance: all items are of the same entity, found  *)
(* over and over by different modules.                                      *)
EXTENDS Dispatcher, TLC

CONSTANTS e, f1

\* The semaphore of f1 admits one executor, any other two.
MCLimit == [f \in Fn |-> IF f = f1 THEN 1 ELSE 2]

MCEntity == {e}
MCEntityOf == [i \in Item |-> e]

\* Every item is of an entity of its own.
OwnEntity == Item
OwnEntityOf == [i \in Item |-> i]

ItemSymmetry == Permutations(Item)
=============================================================================

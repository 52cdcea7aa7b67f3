----------------------------- MODULE MCModules ------------------------------
(* CollectionModules on small instances: two calls that spend credits, one at a *)
(* time or both at once, and two callers of the zone check.                     *)
EXTENDS CollectionModules
=============================================================================

----------------------------- MODULE MCPipeline -----------------------------
(* Pipeline on a small instance. Units are model values; they are not          *)
(* declared symmetric, because the run checks liveness as well.                *)
EXTENDS Pipeline
=============================================================================

----------------------------- MODULE MCPgStore -----------------------------
(* Model-checking instance of PgStore.  It checks liveness too, so users,   *)
(* connections and texts are not declared symmetric.                        *)
EXTENDS PgStore
=============================================================================

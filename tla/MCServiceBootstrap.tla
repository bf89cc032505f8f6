--------------------------- MODULE MCServiceBootstrap ---------------------------
(* Small instances of ServiceBootstrap. *)
EXTENDS ServiceBootstrap

CONSTANTS org1, org2, org3

===============================================================================

------------------------------ MODULE MCConnect ------------------------------
(* The server knows two passwords, one of which permits only reading.      *)
EXTENDS Connect

CONSTANTS admin, reader, wrong
=============================================================================

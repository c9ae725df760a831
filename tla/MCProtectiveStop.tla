--------------------------- MODULE MCProtectiveStop ---------------------------
(* Small instances of ProtectiveStop for TLC. *)
EXTENDS ProtectiveStop

\* The venue takes every request.
NoneRefused == {}

===============================================================================

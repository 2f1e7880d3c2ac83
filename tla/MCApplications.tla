--------------------------- MODULE MCApplications ---------------------------
(* Instances of Applications, and with it of SockModule, for TLC. *)
EXTENDS Applications
=============================================================================

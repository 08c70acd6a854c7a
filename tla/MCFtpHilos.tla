----------------------------- MODULE MCFtpHilos -----------------------------
(* Instances of FtpHilos small enough for TLC. *)
EXTENDS FtpHilos

Todas == Clases
SinSemaforo == {"SIMPLE", "PASV", "PWD", "LS", "CD", "DELE"}
Subidas == {"PASV", "STOR"}
=============================================================================

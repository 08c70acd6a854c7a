------------------------------- MODULE MCDisco -------------------------------
(* Instances of Disco small enough for TLC. *)
EXTENDS Disco

UnPar == {<<3, 1>>}
ParCorto == {<<1, 2>>}
ListaLarga == {<<2, 1>>}
ListasDos == {<<5>>, <<1, 3>>}
=============================================================================

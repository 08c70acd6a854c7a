------------------------------- MODULE MCArray -------------------------------
(* Instances of Array small enough for TLC. *)
EXTENDS Array, TLC

CONSTANTS A, B, C

DosDiscos == {A, B}
TresDiscos == {A, B, C}
SinEsperados == <<>>
EsperaA == <<A>>
EsperaAB == <<A, B>>
UnPar == {<<0, 1>>}
ParCruzado == {<<1, 2>>}
Viejo == [d \in Discos |-> IF d = A THEN 0 ELSE -1]
Nuevo == [d \in Discos |-> 0]

\* Bridges are interchangeable; so are disks that nothing tells apart (none
\* is expected and all start with the same contents).
HilosIguales == Permutations(Conexiones)
TodoIgual == Permutations(Conexiones) \union Permutations(Discos)
=============================================================================

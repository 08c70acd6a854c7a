------------------------------ MODULE Recorrido ------------------------------
(***************************************************************************)
(* The geometry of a disk (Linux/Disco) and the walk of its head.  imDisco *)
(* is the matrix of cylinders by sectors; a place is a pair <<i, j>>.  The *)
(* walk is coded three times: in the two functions of                      *)
(* calculosYEstadisticas.c and, step by step, in the console of main.c.    *)
(***************************************************************************)
EXTENDS Integers

CONSTANTS Cilindros, Sectores       \* stCHS.iCilinders, stCHS.iSectors

ASSUME GeometriaAssumption == Cilindros \in Nat \ {0} /\ Sectores \in Nat \ {0, 1}

Total == Cilindros * Sectores
Ids == 0..Total - 1

Lugares == (0..Cilindros - 1) \X (0..Sectores - 1)
ImDisco(p) == p[1] * Sectores + p[2]
Donde(s) == <<s \div Sectores, s % Sectores>>

\* The next sector of the same cylinder; a column past the end also goes to 0.
Sgte(j) == IF j < Sectores - 1 THEN j + 1 ELSE 0
Rotado(p) == <<p[1], Sgte(p[2])>>

\* "Te posicionas en donde estas actualmente": the search stops at the first
\* sector of the last cylinder without looking into it.
Ubicar(cab) == IF cab \div Sectores < Cilindros - 1
                 THEN Donde(cab)
                 ELSE <<Cilindros - 1, 0>>

\* The same search in escribirSector, where the for has an increment of its own.
UbicarEscribiendo(cab) ==
    LET lugar[p \in (0..Cilindros - 1) \X (0..Sectores)] ==
          CASE p[1] = Cilindros - 1 \/ ImDisco(p) = cab -> p
            [] OTHER -> IF p[2] < Sectores - 1 THEN lugar[<<p[1], p[2] + 2>>]
                                               ELSE lugar[<<p[1] + 1, 1>>]
    IN lugar[<<0, 0>>]

\* One sector of the walk towards s: along the cylinder when s is in it, and
\* otherwise to the next cylinder while the disk turns one sector.
Paso(p, s) ==
    IF s \div Sectores = p[1]
      THEN Rotado(p)
      ELSE <<IF p[1] < Cilindros - 1 THEN p[1] + 1 ELSE 0, Sgte(p[2])>>

\* How many sectors the head crosses before it is at s.
Cruzados(p, s) ==
    LET n[q \in Lugares] == IF ImDisco(q) = s THEN 0 ELSE 1 + n[Paso(q, s)]
    IN n[p]
=============================================================================

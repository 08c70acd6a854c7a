------------------------- MODULE ColaSincronizacion -------------------------
(***************************************************************************)
(* The queue of disks to synchronise (EstructuraSincronizando, handled by  *)
(* Solaris/array/sincronizacion.c): a vector of N entries of which entry 0 *)
(* is the synchronisation in progress.  An entry is empty when its id is.  *)
(***************************************************************************)
EXTENDS TablaDiscos

CONSTANTS
    Total,     \* iCilindros * iSectores: the sectors a synchronisation copies
    Basura     \* what an uninitialised iIdSectorActual may hold

\* calcularCHS ignores iCabezas and the copy goes by pairs: the geometry of
\* config.txt has one head and an even number of sectors.
ASSUME TotalAssumption == Total \in Nat /\ Total >= 2 /\ Total % 2 = 0
ASSUME BasuraAssumption == Basura \subseteq Int

\* An id is unique: 16 random alphanumeric characters (generarID).
Ids == {"consola", "get", "put"} \X Nat

\* An id never starts with '\0', the mark of an empty one.
ASSUME IdsAssumption == NULO \notin Ids

EntradaCola == [id : Ids \union {NULO}, act : Int, orig : Pos, dest : Pos]

\* Only the first byte of each id is initialised (array.c:98).  The two
\* positions of an empty entry are never read.
ColaInicial ==
    {[i \in Pos |-> [id |-> NULO, act |-> b[i], orig |-> 0, dest |-> 0]] :
        b \in [Pos -> Basura]}

Vacias(q) == {i \in Pos : q[i].id = NULO}

\* The shift hayOtroSincronizando does when entry 0 is empty.  The last
\* entry is copied and not cleared: the code clears entry N instead.
Correr(q) == [i \in Pos |-> IF i = N - 1 THEN q[i] ELSE q[i + 1]]

\* Defect: a new entry takes the head of the queue.
CargarPrimero(q, i, entrada) == [q EXCEPT ![0] = entrada]

\* Defect: a new entry takes the end of the vector.
CargarUltima(q, i, entrada) == [q EXCEPT ![N - 1] = entrada]

\* cargarDiscoASincronizar, i being the first empty entry.
Cargar(q, i, entrada) == [q EXCEPT ![i] = entrada]

\* Defect: the limit is one pair short.
HaySectorCorto(s) == s < Total - 2

\* calcularCHS: whether there is a sector s, and the value left in *idSector.
HaySector(s) == s <= Total - 1
CalcularCHS(s, anterior) == IF HaySector(s) THEN s ELSE anterior

\* Defect: the sector looked at is the one of the synchronisation in progress.
SigueEnCurso(q) == Total - 1 > q[0].act

\* enviarOtroASincronizar: the test for "le faltan sectores" looks at entry 1.
SigueSincronizando(q) == Total - 1 > q[1].act
=============================================================================

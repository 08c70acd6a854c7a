----------------------------- MODULE TablaDiscos -----------------------------
(***************************************************************************)
(* The table of disks of the ARRAY process (EstructuraArray, filled by     *)
(* Solaris/array/disco.c and read by consola.c): one place per disk the    *)
(* array has room for.  This module has no state: it is the set of         *)
(* operators the main loop (module Array) is written with.                 *)
(***************************************************************************)
EXTENDS Integers, Sequences

CONSTANTS
    Discos,       \* disks; a disk is identified with the name it announces
    Conexiones,   \* sockets; one per bridge thread (hiloDisco) ever created
    N,            \* iCantidadDiscos: places of the table
    Esperados,    \* the names listed in config.txt, in the order of the file
    NULO,         \* a NULL name, an empty id, a buffer of zeros
    RESERVADO,    \* ARRAY_LUGAR_RESERVADO  (100)
    DISPONIBLE    \* ARRAY_LUGAR_DISPONIBLE (101)

\* With N = 1 the code reads sDiscosSincronizando[1] out of bounds; a list of
\* expected disks longer than the table is written out of bounds.
ASSUME NAssumption == N \in Nat /\ N >= 2
ASSUME EsperadosAssumption ==
    /\ Esperados \in Seq(Discos)
    /\ Len(Esperados) <= N
    /\ \A i, j \in 1..Len(Esperados) : Esperados[i] = Esperados[j] => i = j
ASSUME ValoresAssumption ==
    /\ NULO \notin Discos
    /\ RESERVADO \notin Conexiones
    /\ DISPONIBLE \notin Conexiones
    /\ RESERVADO # DISPONIBLE

Pos == 0..(N - 1)
Sockets == Conexiones \union {RESERVADO, DISPONIBLE}

EstadosDisco == {"NO_CONECTADO", "CONECTADO", "SINCRONIZANDO", "SINCRONIZADO"}

\* SDISCOSCONECTADOS: disco is iSocketDisco, hilo is iSocketHilo.
Lugar == [nombre : Discos \union {NULO}, estado : EstadosDisco,
          disco : Sockets, hilo : Sockets]

LugarVacio == [nombre |-> NULO, estado |-> "NO_CONECTADO",
               disco |-> DISPONIBLE, hilo |-> DISPONIBLE]

\* What an upward scan with an early exit, or one without, stops at.
EsPrimero(i, S) == i \in S /\ \A j \in S : i <= j
EsUltimo(i, S)  == i \in S /\ \A j \in S : j <= i

(***************************************************************************)
(* respaldarLista.  The list of expected disks is built by prepending      *)
(* (cargarConfiguracion), so the last name of the file gets place 0.       *)
(***************************************************************************)
RespaldarLista ==
    [i \in Pos |->
        IF i < Len(Esperados)
        THEN [nombre |-> Esperados[Len(Esperados) - i],
              estado |-> "NO_CONECTADO",
              disco  |-> RESERVADO, hilo |-> RESERVADO]
        ELSE LugarVacio]

\* Defect: a named place is good for reading, whatever its state.
LegiblesPorNombre(e) == {i \in Pos : e[i].nombre # NULO}

\* The sets of places the scans of disco.c and consola.c look for.
Nombrados(e, d)   == {i \in Pos : e[i].nombre = d}
Disponibles(e)    == {i \in Pos : e[i].disco = DISPONIBLE}
EnEstado(e, s)    == {i \in Pos : e[i].estado = s}
ConHilo(e, c)     == {i \in Pos : e[i].hilo = c}
Legibles(e)       == {i \in EnEstado(e, "SINCRONIZADO") : e[i].nombre # NULO}
EnEspera(e)       == {i \in EnEstado(e, "NO_CONECTADO") : e[i].nombre # NULO}
SinSincronizar(e) == EnEstado(e, "CONECTADO") \union EnEstado(e, "SINCRONIZANDO")

\* Defect: the search for a known name is skipped.
EsAsignadoSinBuscar(e, d, i) == EsPrimero(i, Disponibles(e))

\* asignarDisco: the place a disk d gets; a known name first, then a free one.
EsAsignado(e, d, i) ==
    IF Nombrados(e, d) # {} THEN EsPrimero(i, Nombrados(e, d))
                            ELSE EsPrimero(i, Disponibles(e))

AsignarDisco(e, d, c, i) ==
    [e EXCEPT ![i].nombre = d, ![i].disco = c, ![i].estado = "CONECTADO"]

\* asociarSocketHilo, once the place i of that name is found.
AsociarSocketHilo(e, c, i) ==
    [e EXCEPT ![i].hilo = c, ![i].estado = "CONECTADO"]

\* Defects: the state, or the socket of the bridge, is not reset.
DesconectarSinEstado(e, i) == [e EXCEPT ![i] = [LugarVacio EXCEPT !.estado = e[i].estado]]
DesconectarSinHilo(e, i)   == [e EXCEPT ![i] = [LugarVacio EXCEPT !.hilo = e[i].hilo]]

\* desconectarDisco and desconectarDiscoPorNombre, once the place is found.
DesconectarLugar(e, i) == [e EXCEPT ![i] = LugarVacio]

PonerEstado(e, i, s) == [e EXCEPT ![i].estado = s]

\* protocolos.h
EstadosArray == {"FUERASERVICIO", "FUNCIONAL"}
Subestados == {"INICIALIZADO_SINCRONIZADO", "INICIALIZADO_SINCRONIZANDO",
               "FUERASERVICIO_INCOMPLETO", "FUERASERVICIO_SINCRONIZADO",
               "FUERASERVICIO_CORRUPTO"}

\* Defect: expected disks that are missing are not looked for.
SubestadoSinEspera(e) ==
    IF SinSincronizar(e) # {} THEN "FUERASERVICIO_CORRUPTO"
                              ELSE "FUERASERVICIO_SINCRONIZADO"

\* subestadoFueraDeServicio: CONECTADO and SINCRONIZANDO come before the
\* expected disks that are missing.
SubestadoFueraDeServicio(e) ==
    IF SinSincronizar(e) # {} THEN "FUERASERVICIO_CORRUPTO"
    ELSE IF EnEspera(e) # {} THEN "FUERASERVICIO_INCOMPLETO"
    ELSE "FUERASERVICIO_SINCRONIZADO"

\* subestadoEnServicio
SubestadoEnServicio(e) ==
    IF \E i \in EnEstado(e, "SINCRONIZANDO") : e[i].nombre # NULO
    THEN "INICIALIZADO_SINCRONIZANDO"
    ELSE "INICIALIZADO_SINCRONIZADO"

\* Defect: the state is stored in place of the substate.
MostrarEstadoMismo(e, estado) == estado

\* mostrarEstadoSistema: the refresh it does as a side effect of printing.
MostrarEstado(e, estado) ==
    IF estado = "FUERASERVICIO" THEN SubestadoFueraDeServicio(e)
                                ELSE SubestadoEnServicio(e)

(***************************************************************************)
(* elegirDisco: from the selectors s1, s2 to t1, t2.  A selector that is   *)
(* set is never looked at again.                                           *)
(***************************************************************************)
Selectores == -1..(N - 1)

ElegirDisco(e, s1, s2, t1, t2) ==
    LET siguientes == {i \in Legibles(e) : i > t1} IN
    /\ IF s1 # -1 \/ Legibles(e) = {} THEN t1 = s1
                                      ELSE EsPrimero(t1, Legibles(e))
    /\ IF s2 # -1 \/ Legibles(e) = {} THEN t2 = s2
       ELSE IF siguientes # {} THEN EsPrimero(t2, siguientes)
       ELSE EsUltimo(t2, Legibles(e))
=============================================================================

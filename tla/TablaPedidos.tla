---------------------------- MODULE TablaPedidos ----------------------------
(***************************************************************************)
(* The table of reads split between two disks (sPedidosSectores, handled   *)
(* by Solaris/array/syscall.c): each entry waits for two half answers.     *)
(***************************************************************************)
EXTENDS ColaSincronizacion

CONSTANT MaxPedidos      \* MAX_PEDIDOS

ASSUME PedidosAssumption == MaxPedidos \in Nat \ {0}

Sectores == 0..(Total - 1)

\* What a sector holds: the sector it was written for and the number of the
\* write, 0 or less for what the disk had from before.
Contenidos == [sec : Int, ver : Int]
Buffers == Contenidos \union {NULO}

\* A buffer of zeros is told apart from whatever a sector holds.
ASSUME BuffersAssumption == NULO \notin Contenidos

\* SPEDIDO.  h1, h2 are iSocketS1, iSocketS2; d1, d2 the two buffers.
Pedido == [id : Ids \union {NULO}, cant : Nat, h1 : Sockets, h2 : Sockets,
           d1 : Buffers, d2 : Buffers]

Entradas == 1..MaxPedidos

PedidoVacio == [id |-> NULO, cant |-> 0, h1 |-> DISPONIBLE, h2 |-> DISPONIBLE,
                d1 |-> NULO, d2 |-> NULO]

LimpiarPedidos == [k \in Entradas |-> PedidoVacio]

PedidosLibres(p)    == {k \in Entradas : p[k].id = NULO}
PedidosDe(p, id)    == {k \in Entradas : p[k].id = id}

\* Defect: the count of halves is not reset.
AgregarPedidoSinCero(p, k, id, h1, h2) ==
    [p EXCEPT ![k] = [id |-> id, cant |-> 1, h1 |-> h1, h2 |-> h2,
                      d1 |-> NULO, d2 |-> NULO]]

\* agregarPedido, k being the first free entry.
AgregarPedido(p, k, id, h1, h2) ==
    [p EXCEPT ![k] = [id |-> id, cant |-> 0, h1 |-> h1, h2 |-> h2,
                      d1 |-> NULO, d2 |-> NULO]]

\* Defect: the halves are told apart by their order of arrival.
AgregarPorOrden(p, k, c, d) ==
    LET x == p[k] IN
    [p EXCEPT ![k] = [x EXCEPT !.cant = x.cant + 1,
                               !.d1 = IF x.cant = 0 THEN d ELSE x.d1,
                               !.d2 = IF x.cant = 1 THEN d ELSE x.d2]]

\* agregarRespuesta, k being the entry of the id: the half d came by socket c.
\* Entries whose two sockets are the same wait for no half: see VskGet.
AgregarRespuesta(p, k, c, d) ==
    LET x == p[k] IN
    [p EXCEPT ![k] = [x EXCEPT !.cant = x.cant + 1,
                               !.d1 = IF x.h1 = c THEN d ELSE x.d1,
                               !.d2 = IF x.h2 = c /\ x.h1 # c THEN d ELSE x.d2]]

EliminarPedido(p, k) == [p EXCEPT ![k].id = NULO, ![k].cant = 0]
=============================================================================

-------------------------------- MODULE Array --------------------------------
(***************************************************************************)
(* The ARRAY process (Solaris/array): a RAID-1 of disks.  One main thread  *)
(* runs a select loop over the console, the VSK and one socket per disk;   *)
(* behind each of those sockets a bridge thread (hiloDisco) forwards       *)
(* between the main thread and the disk.                                   *)
(*                                                                         *)
(* Each action of the main thread is the attention of one message, from    *)
(* recibirH to the break of its case; Cierre is the tail of the for        *)
(* iteration (the connection to the VSK and enviarOtroASincronizar), which *)
(* runs after each one.  The bridge and the disk behind it are two FIFO    *)
(* channels, aDisco and deDisco, and DiscoAtiende.                         *)
(***************************************************************************)
EXTENDS TablaPedidos

CONSTANTS
    DiscosCHS,       \* the disks whose geometry is the configured one
    Pares,           \* the pairs of sectors the VSK reads and writes
    Contenido0,      \* what each disk holds before the first write
    MaxPut, MaxGet, MaxComandos, MaxCaidas,     \* bounds of the environment
    Libertades       \* what the operator and the VSK may do, see below

\* "agregar sin hilo": the operator adds a disk whose bridge is not there yet;
\* "quitar el ultimo": the operator removes the last synchronised disk;
\* "escribir siempre": the VSK writes also while no disk is synchronised or one
\* is being synchronised.  The code forbids none of them.
TodaLibertad == {"agregar sin hilo", "quitar el ultimo", "escribir siempre"}

ASSUME EntornoAssumption ==
    /\ DiscosCHS \subseteq Discos
    /\ Pares \subseteq Sectores \X Sectores
    /\ Contenido0 \in [Discos -> Int]
    /\ \A d \in Discos : Contenido0[d] <= 0
    /\ {MaxPut, MaxGet, MaxComandos, MaxCaidas} \subseteq Nat
    /\ Libertades \subseteq TodaLibertad

VARIABLES
    sDiscos,         \* EstructuraArray
    cola,            \* EstructuraSincronizando
    pedidos,         \* sPedidosSectores
    sel1, sel2,      \* SELECTOR_DISCO1, SELECTOR_DISCO2
    estadoActual,    \* ESTADO_ACTUAL
    subestado,       \* ESTADO_SUBACTUAL, as last computed
    cliente,         \* iCliente # FALLA_SISTEMA
    proceso,         \* whether the process runs, leaves its loop, or ended
    fase,            \* where the main thread is in its for iteration
    hilo,            \* the bridge threads, by their socket
    aDisco,          \* what was sent to each bridge and its disk has not read
    deDisco,         \* what each disk answered and the main thread has not read
    datos,           \* the sectors of each disk
    nComandos, nCaidas,     \* counters of the environment
    escritas,        \* history: the pair of each write of the VSK
    ultimo,          \* history: last acknowledged write of each sector, or 0
    lecturas,        \* history: each read, with the writes it must see
    respuestas       \* history: the answers the VSK got to each read

tabla     == <<sDiscos, estadoActual, subestado>>
canales   == <<aDisco, deDisco>>
selector  == <<sel1, sel2>>
historia  == <<escritas, ultimo, lecturas>>
vars == <<sDiscos, cola, pedidos, sel1, sel2, estadoActual, subestado, cliente,
          proceso, fase, hilo, aDisco, deDisco, datos, nComandos,
          nCaidas, escritas, ultimo, lecturas, respuestas>>

-----------------------------------------------------------------------------
(* Messages *)

\* Each half of a read is asked with its id; synchronisations ask for pairs.
IdsLectura == {"get"} \X Nat

Pedidos1 == [t : {"GET1"}, id : IdsLectura, s1 : Sectores]
Pedidos2 == [t : {"GET2"}, id : Ids, s1 : Sectores, s2 : Sectores]
Escrituras == [t : {"PUT"}, id : Ids, s1 : Int, s2 : Int,
               d1 : Buffers, d2 : Buffers]
AlDisco == Pedidos1 \union Pedidos2 \union Escrituras

DelDisco ==
    [t : {"HILO"}, nombre : Discos]
    \union [t : {"RTAb"}, id : IdsLectura, d1 : Buffers]
    \union [t : {"RTA"}, id : Ids, d1 : Buffers, d2 : Buffers]
    \union [t : {"PUT_OK"}, id : Ids]
    \union [t : {"EOF", "BASURA"}]

Get1(id, s)     == [t |-> "GET1", id |-> id, s1 |-> s]
Get2(id, s, z)  == [t |-> "GET2", id |-> id, s1 |-> s, s2 |-> z]
Put(id, s, z, d, f) ==
    [t |-> "PUT", id |-> id, s1 |-> s, s2 |-> z, d1 |-> d, d2 |-> f]

\* What a handler sends: for each socket, the messages sent through it.
Por(s, m) == [c \in Conexiones |-> IF c = s THEN <<m>> ELSE <<>>]
Nada == [c \in Conexiones |-> <<>>]
Luego(f, g) == [c \in Conexiones |-> f[c] \o g[c]]

\* enviarH and enviarAlgo: a message to a place with no socket is lost, and
\* one to a bridge that already closed its end may kill the process
\* (SIGPIPE is not handled).  sigue is proceso if it does not.
Enviar(f, sigue) ==
    /\ aDisco' = [c \in Conexiones |->
                     IF hilo[c].fase = "activa" THEN aDisco[c] \o f[c]
                                                ELSE aDisco[c]]
    /\ \/ proceso' = sigue
       \/ /\ \E c \in Conexiones : hilo[c].fase = "rota" /\ f[c] # <<>>
          /\ proceso' = "caido"

\* recibirH and recibirAlgo on socket c.
Recibir(c) == deDisco' = [deDisco EXCEPT ![c] = Tail(@)]
Llega(c, t) == deDisco[c] # <<>> /\ Head(deDisco[c]).t = t

-----------------------------------------------------------------------------
Vivo    == proceso \in {"corre", "saliendo"}
Atiende == Vivo /\ fase = "atender"
Termina == fase' = "cierre"

Init ==
    /\ sDiscos = RespaldarLista
    /\ cola \in ColaInicial
    /\ pedidos = LimpiarPedidos
    /\ sel1 = -1 /\ sel2 = -1
    /\ estadoActual = "FUERASERVICIO"
    /\ subestado = SubestadoFueraDeServicio(RespaldarLista)
    /\ cliente = FALSE
    /\ proceso = "corre"
    /\ fase = "cierre"
    /\ hilo = [c \in Conexiones |-> [fase |-> "libre", pos |-> 0, disco |-> NULO]]
    /\ aDisco = [c \in Conexiones |-> <<>>]
    /\ deDisco = [c \in Conexiones |-> <<>>]
    /\ datos = [d \in Discos |->
                  [s \in Sectores |-> [sec |-> s, ver |-> Contenido0[d]]]]
    /\ nComandos = 0 /\ nCaidas = 0
    /\ escritas = <<>>
    /\ ultimo = [s \in Sectores |-> 0]
    /\ lecturas = <<>>
    /\ respuestas = <<>>

Refrescar(e) == subestado' = MostrarEstado(e, estadoActual)

-----------------------------------------------------------------------------
(* Disks that come and go *)

Conectado(d) == \E c \in Conexiones :
                    hilo[c].disco = d /\ hilo[c].fase \in {"nueva", "activa"}

\* The place is not given away between the creation of a bridge thread and
\* its first instruction, unless to the same disk.
Ocupable(i, d) == \A c \in Conexiones :
    hilo[c].fase = "nueva" /\ hilo[c].pos = i => hilo[c].disco = d

\* HANDSHAKE_DISCO: recibirDatosDisco and, if the disk is accepted, the
\* creation of its bridge.  A disk that comes back is a new process: what its
\* former socket still held is gone.
HandshakeAceptado(d, c, i) ==
    /\ d \in DiscosCHS
    /\ EsAsignado(sDiscos, d, i)
    /\ Ocupable(i, d)
    /\ sDiscos' = AsignarDisco(sDiscos, d, c, i)
    /\ hilo' = [hilo EXCEPT ![c] = [fase |-> "nueva", pos |-> i, disco |-> d]]
    /\ aDisco' = [x \in Conexiones |->
                     IF hilo[x].disco = d THEN <<>> ELSE aDisco[x]]

HandshakeRechazado(d) ==
    /\ \/ d \notin DiscosCHS
       \/ Nombrados(sDiscos, d) = {} /\ Disponibles(sDiscos) = {}
    /\ UNCHANGED <<sDiscos, hilo, aDisco>>

HandshakeDisco(d) ==
    /\ Atiende
    /\ ~Conectado(d)
    /\ \/ \E c \in Conexiones, i \in Pos :
             hilo[c].fase = "libre" /\ HandshakeAceptado(d, c, i)
       \/ HandshakeRechazado(d)
    /\ Termina
    /\ UNCHANGED <<cola, pedidos, selector, estadoActual, subestado, cliente,
                   proceso, deDisco, datos, historia, nComandos, nCaidas,
                   respuestas>>

\* IPCIRC_HILO: asociarSocketHilo.
AsociarHilo(c) ==
    /\ Atiende
    /\ Llega(c, "HILO")
    /\ LET d == Head(deDisco[c]).nombre IN
       \/ \E i \in Pos : /\ EsPrimero(i, Nombrados(sDiscos, d))
                         /\ sDiscos' = AsociarSocketHilo(sDiscos, c, i)
       \/ Nombrados(sDiscos, d) = {} /\ UNCHANGED sDiscos
    /\ Recibir(c)
    /\ Refrescar(sDiscos')
    /\ Termina
    /\ UNCHANGED <<cola, pedidos, selector, estadoActual, cliente, proceso,
                   hilo, aDisco, datos, historia, nComandos, nCaidas, respuestas>>

\* recibirH fails on the socket of a bridge: desconectarDisco.  The break
\* leaves the for, whose next run starts with the tail of an iteration.
Desconexion(c) ==
    /\ Atiende
    /\ Llega(c, "EOF")
    /\ \/ \E i \in Pos : /\ EsPrimero(i, ConHilo(sDiscos, c))
                         /\ sDiscos' = DesconectarLugar(sDiscos, i)
       \/ ConHilo(sDiscos, c) = {} /\ UNCHANGED sDiscos
    /\ Recibir(c)
    /\ hilo' = [hilo EXCEPT ![c].fase = "cerrada"]
    /\ Refrescar(sDiscos')
    /\ Termina
    /\ UNCHANGED <<cola, pedidos, selector, estadoActual, cliente, proceso,
                   aDisco, datos, historia, nComandos, nCaidas, respuestas>>

\* A payload nobody read is taken for a header: the socket is closed, its
\* place in the table is not cleared.
ProtocoloIncorrecto(c) ==
    /\ Atiende
    /\ Llega(c, "BASURA")
    /\ deDisco' = [deDisco EXCEPT ![c] = <<>>]
    /\ hilo' = [hilo EXCEPT ![c].fase = "cerrada"]
    /\ Termina
    /\ UNCHANGED <<tabla, cola, pedidos, selector, cliente, proceso, aDisco,
                   datos, historia, nComandos, nCaidas, respuestas>>

-----------------------------------------------------------------------------
(* The synchronisation queue *)

EnCurso == cola[0].id # NULO

\* Defect: the next sector to ask for is set to the first one.
SincronizarDesdeCero(e, q) ==
    /\ cola' = [q EXCEPT ![0].act = 0]
    /\ sDiscos' = PonerEstado(e, q[0].dest, "SINCRONIZANDO")
    /\ Enviar(Por(e[q[0].orig].hilo, Get2(q[0].id, 0, 1)), proceso)

\* sincronizarDisco: entry 0 of q starts from sector 0.
SincronizarDisco(e, q) ==
    /\ cola' = [q EXCEPT ![0].act = 1]
    /\ sDiscos' = PonerEstado(e, q[0].dest, "SINCRONIZANDO")
    /\ Enviar(Por(e[q[0].orig].hilo, Get2(q[0].id, 0, 1)), proceso)

\* cargarDiscoASincronizar on a full queue writes past the vector: what it
\* overwrites decides whether the entry is lost or the process dies.
ColaLlena ==
    /\ proceso' \in {proceso, "caido"}
    /\ cola' = cola
    /\ UNCHANGED aDisco

Comando ==
    /\ Atiende
    /\ nComandos < MaxComandos
    /\ nComandos' = nComandos + 1
    /\ Termina

IdConsola == <<"consola", nComandos>>

\* IPCIRC_CONSOLA_AGREDARDA: agregarDisco, then iniciarSoncronizacion, whose
\* search for a synchronised disk does not look at names.
AgregarNada(d) ==
    /\ \/ Nombrados(sDiscos, d) = {}
       \/ \E i \in Nombrados(sDiscos, d) : sDiscos[i].estado = "SINCRONIZADO"
    /\ UNCHANGED <<tabla, cola, aDisco, proceso>>

AgregarPrimero(i) ==
    /\ EnEstado(sDiscos, "SINCRONIZADO") = {}
    /\ sDiscos' = PonerEstado(sDiscos, i, "SINCRONIZADO")
    /\ Refrescar(sDiscos')
    /\ UNCHANGED <<estadoActual, cola, aDisco, proceso>>

\* With no synchronisation in progress the queue is empty (ColaContigua): the
\* new entry always finds room.
AgregarSincroniza(i, o) ==
    LET e == PonerEstado(sDiscos, i, "SINCRONIZANDO")
        entrada == [id |-> IdConsola, act |-> 0, orig |-> o, dest |-> i]
    IN
    /\ EsPrimero(o, EnEstado(sDiscos, "SINCRONIZADO"))
    /\ IF EnCurso
       THEN /\ \/ \E k \in Pos : /\ EsPrimero(k, Vacias(cola))
                                 /\ cola' = Cargar(cola, k, entrada)
                                 /\ UNCHANGED <<aDisco, proceso>>
               \/ Vacias(cola) = {} /\ ColaLlena
            /\ sDiscos' = e
            /\ UNCHANGED subestado
       ELSE /\ \E k \in Pos :
                  /\ EsPrimero(k, Vacias(Correr(cola)))
                  /\ SincronizarDisco(e, Cargar(Correr(cola), k, entrada))
            /\ Refrescar(sDiscos')
    /\ UNCHANGED estadoActual

ConsolaAgregar(d) ==
    /\ Comando
    /\ \/ AgregarNada(d)
       \/ \E i \in Pos :
             /\ EsUltimo(i, Nombrados(sDiscos, d))
             /\ sDiscos[i].estado # "SINCRONIZADO"
             /\ \/ sDiscos[i].hilo \in Conexiones
                \/ "agregar sin hilo" \in Libertades
             /\ \/ AgregarPrimero(i)
                \/ \E o \in Pos : AgregarSincroniza(i, o)
    /\ UNCHANGED <<pedidos, selector, cliente, hilo, deDisco, datos, historia,
                   nCaidas, respuestas>>

\* continuarSincronizacion writes the pair to the destination and asks the
\* origin for the next one, or ends.
Continuar(m) ==
    LET q == cola[0]
        par == Por(sDiscos[q.dest].hilo,
                   Put(m.id, q.act - 1, q.act, m.d1, m.d2))
        avanza == [cola EXCEPT ![0].act = q.act + 2]
        siguiente == Get2(m.id, q.act + 1, CalcularCHS(q.act + 2, q.act))
    IN
    IF HaySector(q.act + 1)
    THEN /\ Enviar(Luego(par, Por(sDiscos[q.orig].hilo, siguiente)), proceso)
         /\ cola' = avanza
         /\ UNCHANGED <<sDiscos, subestado>>
    ELSE /\ Enviar(par, proceso)
         /\ cola' = Correr([avanza EXCEPT ![0].id = NULO])
         /\ sDiscos' = PonerEstado(sDiscos, q.dest, "SINCRONIZADO")
         /\ Refrescar(sDiscos')

\* Defect: the id is compared with the next entry.
EsDeLaSiguiente(id) == id = cola[1].id

\* enSincronizacion: the 16 bytes of the id are those of entry 0.
EnSincronizacion(id) == id = cola[0].id

\* IPCIRC_GET_SECTORES_RTA with the id of the synchronisation in progress.
RespuestaSincronizacion(c) ==
    /\ Atiende
    /\ Llega(c, "RTA")
    /\ EnSincronizacion(Head(deDisco[c]).id)
    /\ Continuar(Head(deDisco[c]))
    /\ Recibir(c)
    /\ Termina
    /\ UNCHANGED <<pedidos, selector, estadoActual, cliente, hilo, datos,
                   historia, nComandos, nCaidas, respuestas>>

(***************************************************************************)
(* The tail of the for iteration: the array connects to the VSK once its   *)
(* cached substate says that all is synchronised (a refused connection     *)
(* ends the process), and enviarOtroASincronizar runs.                     *)
(***************************************************************************)
PideCliente ==
    /\ estadoActual = "FUERASERVICIO"
    /\ subestado \in {"INICIALIZADO_SINCRONIZADO", "FUERASERVICIO_SINCRONIZADO"}
    /\ ~cliente

EnviarOtroASincronizar ==
    LET q == IF EnCurso THEN cola ELSE Correr(cola) IN
    IF (EnCurso /\ SigueSincronizando(cola)) \/ q[0].id = NULO
    THEN cola' = q /\ UNCHANGED <<sDiscos, aDisco, proceso>>
    ELSE SincronizarDisco(sDiscos, q)

Cierre ==
    /\ Vivo
    /\ \/ /\ EnviarOtroASincronizar
          /\ cliente' = (cliente \/ PideCliente)
          /\ fase' = "atender"
       \/ /\ PideCliente
          /\ proceso' = "terminado"
          /\ UNCHANGED <<sDiscos, cola, aDisco, cliente, fase>>
    /\ UNCHANGED <<pedidos, selector, estadoActual, subestado, hilo, deDisco,
                   datos, historia, nComandos, nCaidas, respuestas>>

\* terminado is only looked at by the while, once the for is over.
SaleDelCiclo ==
    /\ proceso = "saliendo"
    /\ fase = "atender"
    /\ proceso' = "terminado"
    /\ UNCHANGED <<tabla, cola, pedidos, selector, cliente, fase, hilo, canales,
                   datos, historia, nComandos, nCaidas, respuestas>>

-----------------------------------------------------------------------------
(* The other commands of the console *)

\* close of the socket of a bridge, which ends it: what the bridge had not
\* forwarded yet (from some message on) is lost.
EliminaPuente(c) ==
    /\ hilo' = [hilo EXCEPT ![c].fase = "cerrada"]
    /\ deDisco' = [deDisco EXCEPT ![c] = <<>>]
    /\ \E k \in 0..Len(aDisco[c]) :
          aDisco' = [aDisco EXCEPT ![c] = SubSeq(@, 1, k)]

\* IPCIRC_CONSOLA_ELIMINARDA: eliminarDisco and, if it finds the disk, the
\* close of its bridge and desconectarDiscoPorNombre.
ConsolaEliminar(d) ==
    /\ Comando
    /\ \/ /\ SinSincronizar(sDiscos) # {} \/ Nombrados(sDiscos, d) = {}
          /\ UNCHANGED <<sDiscos, subestado, hilo, canales>>
       \/ /\ SinSincronizar(sDiscos) = {}
          /\ \E i \in Pos :
                /\ EsUltimo(i, Nombrados(sDiscos, d))
                /\ \/ EnEstado(sDiscos, "SINCRONIZADO") # {i}
                   \/ "quitar el ultimo" \in Libertades
                /\ sDiscos' = DesconectarLugar(sDiscos, i)
                /\ \/ /\ sDiscos[i].hilo \notin Conexiones
                      /\ UNCHANGED <<hilo, canales>>
                   \/ \E c \in Conexiones : c = sDiscos[i].hilo /\ EliminaPuente(c)
          /\ Refrescar(sDiscos')
    /\ UNCHANGED <<cola, pedidos, selector, estadoActual, cliente, proceso,
                   datos, historia, nCaidas, respuestas>>

ConsolaIniciar ==
    /\ Comando
    /\ IF estadoActual = "FUNCIONAL"
       THEN UNCHANGED <<estadoActual, subestado>>
       ELSE IF SubestadoFueraDeServicio(sDiscos) = "FUERASERVICIO_SINCRONIZADO"
       THEN /\ estadoActual' = "FUNCIONAL"
            /\ subestado' = "INICIALIZADO_SINCRONIZADO"
       ELSE /\ subestado' = SubestadoFueraDeServicio(sDiscos)
            /\ UNCHANGED estadoActual
    /\ UNCHANGED <<sDiscos, cola, pedidos, selector, cliente, proceso, hilo,
                   canales, datos, historia, nCaidas, respuestas>>

ConsolaDetener ==
    /\ Comando
    /\ estadoActual' = "FUERASERVICIO"
    /\ subestado' = IF estadoActual = "FUNCIONAL"
                    THEN SubestadoFueraDeServicio(sDiscos) ELSE subestado
    /\ UNCHANGED <<sDiscos, cola, pedidos, selector, cliente, proceso, hilo,
                   canales, datos, historia, nCaidas, respuestas>>

ConsolaEstado ==
    /\ Comando
    /\ Refrescar(sDiscos)
    /\ UNCHANGED <<sDiscos, estadoActual, cola, pedidos, selector, cliente,
                   proceso, hilo, canales, datos, historia, nCaidas, respuestas>>

\* IPCIRC_FINALIZAR_SISTEMA
ConsolaSalir ==
    /\ Comando
    /\ proceso' = "saliendo"
    /\ UNCHANGED <<tabla, cola, pedidos, selector, cliente, hilo, canales,
                   datos, historia, nCaidas, respuestas>>

-----------------------------------------------------------------------------
(* Reads and writes of the VSK *)

\* History: what a read of the places t1 and t2 must see.  A selector that was
\* set is used again whatever became of its place (elegirDisco), and nothing can
\* be asked of a disk that waits to be synchronised.
Debe(s, t1, t2) ==
    IF \A t \in {t1, t2} : sDiscos[t].estado = "SINCRONIZADO" THEN ultimo[s] ELSE 0

\* IPCIRC_GET_SECTORES: out of service, or with no disk to choose, the answer
\* is a refusal.  Otherwise both sectors are asked to one disk, or one to
\* each, and in both cases the read takes an entry of the table of reads.
Repartir(par, t1, t2) ==
    LET id == <<"get", Len(lecturas) + 1>>
        h1 == sDiscos[t1].hilo
        h2 == sDiscos[t2].hilo
        f  == IF t1 = t2 THEN Por(h1, Get2(id, par[1], par[2]))
              ELSE Luego(Por(h1, Get1(id, par[1])), Por(h2, Get1(id, par[2])))
    IN
    /\ \/ /\ \E k \in Entradas :
                /\ EsPrimero(k, PedidosLibres(pedidos))
                /\ pedidos' = AgregarPedido(pedidos, k, id, h1, h2)
          /\ Enviar(f, proceso)
       \/ \* the table is full: agregarPedido writes past its end
          /\ PedidosLibres(pedidos) = {}
          /\ UNCHANGED pedidos
          /\ \E p \in {proceso, "caido"} : Enviar(f, p)
    /\ lecturas' = Append(lecturas,
                          [s1 |-> par[1], s2 |-> par[2],
                           v1 |-> Debe(par[1], t1, t2), v2 |-> Debe(par[2], t1, t2)])
    /\ respuestas' = Append(respuestas, <<>>)

VskGet(par) ==
    /\ Atiende
    /\ cliente
    /\ Len(lecturas) < MaxGet
    /\ \/ /\ estadoActual = "FUERASERVICIO"
          /\ UNCHANGED <<pedidos, selector, lecturas, respuestas, aDisco, proceso>>
       \/ /\ estadoActual = "FUNCIONAL"
          /\ \E t1, t2 \in Selectores :
                /\ ElegirDisco(sDiscos, sel1, sel2, t1, t2)
                /\ sel1' = t1 /\ sel2' = t2
                /\ IF t2 < 0 THEN UNCHANGED <<pedidos, lecturas, respuestas,
                                              aDisco, proceso>>
                             ELSE Repartir(par, t1, t2)
    /\ Termina
    /\ UNCHANGED <<tabla, cola, cliente, hilo, deDisco, datos, escritas,
                   ultimo, nComandos, nCaidas>>

\* Defect: the loop starts from the second place.
RecibePutDesdeUno(i, par) ==
    /\ i > 0
    /\ EnCurso /\ cola[0].dest = i => par[1] < cola[0].act

\* repartirPutSectores: whatever the state of the array and of the disk, the
\* pair goes to every place but the one being synchronised, which gets it
\* only if escribirEnSincronizacion finds its first sector already asked for.
RecibePut(i, par) ==
    EnCurso /\ cola[0].dest = i => par[1] < cola[0].act

VskPut(par) ==
    LET v == Len(escritas) + 1
        m == Put(<<"put", v>>, par[1], par[2], [sec |-> par[1], ver |-> v],
                 [sec |-> par[2], ver |-> v])
    IN
    /\ Atiende
    /\ cliente
    /\ Len(escritas) < MaxPut
    /\ \/ /\ ~EnCurso
          /\ Legibles(sDiscos) # {} /\ EnEstado(sDiscos, "SINCRONIZANDO") = {}
       \/ "escribir siempre" \in Libertades
    /\ Enviar([c \in Conexiones |->
                  IF \E i \in ConHilo(sDiscos, c) : RecibePut(i, par)
                  THEN <<m>> ELSE <<>>], proceso)
    /\ escritas' = Append(escritas, par)
    /\ Termina
    /\ UNCHANGED <<tabla, cola, pedidos, selector, cliente, hilo, deDisco, datos,
                   ultimo, lecturas, nComandos, nCaidas, respuestas>>

\* recibirH fails on iCliente: the process ends.
VskDesconecta ==
    /\ Atiende
    /\ cliente
    /\ proceso' = "terminado"
    /\ UNCHANGED <<tabla, cola, pedidos, selector, cliente, fase, hilo, canales,
                   datos, historia, nComandos, nCaidas, respuestas>>

\* enviarRespuesta_getSectores to the VSK.
Responder(id, d1, d2) ==
    respuestas' = IF id[1] = "get" /\ cliente
                  THEN [respuestas EXCEPT ![id[2]] =
                           Append(@, [d1 |-> d1, d2 |-> d2])]
                  ELSE respuestas

\* IPCIRC_GET_SECTORES_RTA that is not of the synchronisation: both sectors
\* came from one disk and are forwarded; no entry of pedidos is freed.
RespuestaDos(c) ==
    LET m == Head(deDisco[c]) IN
    /\ Atiende
    /\ Llega(c, "RTA")
    /\ ~EnSincronizacion(m.id)
    /\ Responder(m.id, m.d1, m.d2)
    /\ Recibir(c)
    /\ Termina
    /\ UNCHANGED <<tabla, cola, pedidos, selector, cliente, proceso, hilo,
                   aDisco, datos, historia, nComandos, nCaidas>>

\* IPCIRC_GET_SECTORES_RTAb: agregarRespuesta and, with both halves in,
\* enviarRespuesta_getSectores and eliminarPedido.
Unir(k, id, c, d) ==
    LET p == AgregarRespuesta(pedidos, k, c, d) IN
    IF p[k].cant = 2
    THEN /\ Responder(id, p[k].d1, p[k].d2)
         /\ pedidos' = EliminarPedido(p, k)
    ELSE /\ pedidos' = p
         /\ UNCHANGED respuestas

\* The payload of an answer that matches no socket of its entry stays unread.
SinLeer(c) == deDisco' = [deDisco EXCEPT ![c] = <<[t |-> "BASURA"]>> \o Tail(@)]

RespuestaUno(c) ==
    LET m == Head(deDisco[c]) IN
    /\ Atiende
    /\ Llega(c, "RTAb")
    /\ \/ \E k \in Entradas :
             /\ EsPrimero(k, PedidosDe(pedidos, m.id))
             /\ Unir(k, m.id, c, m.d1)
             /\ IF c \in {pedidos[k].h1, pedidos[k].h2} THEN Recibir(c)
                                                        ELSE SinLeer(c)
             /\ UNCHANGED proceso
       \/ \* no entry: the scan ends past the table
          /\ PedidosDe(pedidos, m.id) = {}
          /\ proceso' \in {proceso, "caido"}
          /\ SinLeer(c)
          /\ UNCHANGED <<pedidos, respuestas>>
    /\ Termina
    /\ UNCHANGED <<tabla, cola, selector, cliente, hilo, aDisco, datos, historia,
                   nComandos, nCaidas>>

\* IPCIRC_PUT_SECTORES_OK: forwarded to the VSK, whoever asked for the write.
RespuestaPut(c) ==
    /\ Atiende
    /\ Llega(c, "PUT_OK")
    /\ LET id == Head(deDisco[c]).id IN
       ultimo' = [s \in Sectores |->
                     IF /\ id[1] = "put" /\ cliente
                        /\ s \in {escritas[id[2]][1], escritas[id[2]][2]}
                        /\ id[2] > ultimo[s]
                     THEN id[2] ELSE ultimo[s]]
    /\ Recibir(c)
    /\ Termina
    /\ UNCHANGED <<tabla, cola, pedidos, selector, cliente, proceso, hilo, aDisco,
                   datos, escritas, lecturas, nComandos, nCaidas, respuestas>>

-----------------------------------------------------------------------------
(* The bridge threads and the disks *)

Contestar(c, m) == deDisco' = [deDisco EXCEPT ![c] = Append(@, m)]

\* First instructions of atenderDisco: the name is read from the place.
HiloInicia(c) ==
    LET nombre == sDiscos[hilo[c].pos].nombre IN
    /\ Vivo
    /\ hilo[c].fase = "nueva"
    /\ IF nombre = NULO
       THEN proceso' = "caido" /\ UNCHANGED <<hilo, deDisco>>
       ELSE /\ hilo' = [hilo EXCEPT ![c].fase = "activa"]
            /\ Contestar(c, [t |-> "HILO", nombre |-> nombre])
            /\ UNCHANGED proceso
    /\ UNCHANGED <<tabla, cola, pedidos, selector, cliente, fase, aDisco, datos,
                   historia, nComandos, nCaidas, respuestas>>

\* getSectores and putSectores of Linux/Disco, for a disk that has no cache
\* process (iHayCache = 0) and whose LDAP does not fail.
Servir(m, sectores) ==
    CASE m.t = "GET1" -> [t |-> "RTAb", id |-> m.id, d1 |-> sectores[m.s1]]
      [] m.t = "GET2" -> [t |-> "RTA", id |-> m.id, d1 |-> sectores[m.s1],
                          d2 |-> sectores[m.s2]]
      [] OTHER        -> [t |-> "PUT_OK", id |-> m.id]

Grabar(m, sectores) ==
    IF m.t = "PUT" THEN [sectores EXCEPT ![m.s1] = m.d1, ![m.s2] = m.d2]
                   ELSE sectores

\* atenderDisco, while(1): the bridge forwards a request, the disk serves it,
\* the bridge forwards the answer.
DiscoAtiende(c) ==
    LET d == hilo[c].disco
        m == Head(aDisco[c])
    IN
    /\ Vivo
    /\ aDisco[c] # <<>>
    /\ aDisco' = [aDisco EXCEPT ![c] = Tail(@)]
    /\ datos' = [datos EXCEPT ![d] = Grabar(m, @)]
    /\ IF hilo[c].fase = "activa" THEN Contestar(c, Servir(m, datos[d]))
                                  ELSE UNCHANGED deDisco
    /\ UNCHANGED <<tabla, cola, pedidos, selector, cliente, proceso, fase, hilo,
                   historia, nComandos, nCaidas, respuestas>>

\* The disk goes away: its bridge sees it and closes its socket.  What the
\* disk sectores hold survives (they are in LDAP).
DiscoCae(c) ==
    /\ Vivo
    /\ hilo[c].fase = "activa"
    /\ nCaidas < MaxCaidas
    /\ nCaidas' = nCaidas + 1
    /\ hilo' = [hilo EXCEPT ![c].fase = "rota"]
    /\ aDisco' = [aDisco EXCEPT ![c] = <<>>]
    /\ Contestar(c, [t |-> "EOF"])
    /\ UNCHANGED <<tabla, cola, pedidos, selector, cliente, proceso, fase, datos,
                   historia, nComandos, respuestas>>

-----------------------------------------------------------------------------
Respuesta(c) ==
    \/ AsociarHilo(c) \/ Desconexion(c) \/ ProtocoloIncorrecto(c)
    \/ RespuestaSincronizacion(c) \/ RespuestaDos(c) \/ RespuestaUno(c)
    \/ RespuestaPut(c)

Consola ==
    \/ \E d \in Discos : ConsolaAgregar(d) \/ ConsolaEliminar(d)
    \/ ConsolaIniciar \/ ConsolaDetener \/ ConsolaEstado \/ ConsolaSalir

Vsk == (\E par \in Pares : VskGet(par) \/ VskPut(par)) \/ VskDesconecta

Next ==
    \/ \E d \in Discos : HandshakeDisco(d)
    \/ \E c \in Conexiones :
          Respuesta(c) \/ HiloInicia(c) \/ DiscoAtiende(c) \/ DiscoCae(c)
    \/ Consola
    \/ Vsk
    \/ Cierre
    \/ SaleDelCiclo

Spec == Init /\ [][Next]_vars

\* The main loop never blocks (its select has a timeout) and each pass of its
\* for attends every socket that is ready, hence strong fairness: whatever it
\* attends in between, a socket with something to read gets its turn.  Threads
\* and disks go on while they live.  Nothing is assumed of the operator, of
\* the VSK or of the arrival of disks.
Justicia ==
    /\ WF_vars(Cierre)
    /\ \A c \in Conexiones : /\ SF_vars(Respuesta(c))
                             /\ WF_vars(HiloInicia(c))
                             /\ WF_vars(DiscoAtiende(c))

SpecJusta == Spec /\ Justicia

-----------------------------------------------------------------------------
(* Types *)

Hilos == [fase : {"libre", "nueva", "activa", "rota", "cerrada"},
          pos : Pos, disco : Discos \union {NULO}]

Procesos == {"corre", "saliendo", "terminado", "caido"}

TipoTablas ==
    /\ sDiscos \in [Pos -> Lugar]
    /\ cola \in [Pos -> EntradaCola]
    /\ pedidos \in [Entradas -> Pedido]

TipoControl ==
    /\ sel1 \in Selectores /\ sel2 \in Selectores
    /\ estadoActual \in EstadosArray
    /\ subestado \in Subestados
    /\ cliente \in BOOLEAN
    /\ proceso \in Procesos
    /\ fase \in {"atender", "cierre"}
    /\ nComandos \in Nat /\ nCaidas \in Nat

TipoHilos ==
    /\ hilo \in [Conexiones -> Hilos]
    /\ aDisco \in [Conexiones -> Seq(AlDisco)]
    /\ deDisco \in [Conexiones -> Seq(DelDisco)]
    /\ datos \in [Discos -> [Sectores -> Buffers]]

TipoHistoria ==
    /\ escritas \in Seq(Sectores \X Sectores)
    /\ ultimo \in [Sectores -> Nat]
    /\ lecturas \in Seq([s1 : Sectores, s2 : Sectores, v1 : Nat, v2 : Nat])
    /\ respuestas \in Seq(Seq([d1 : Buffers, d2 : Buffers]))

\* Every variable keeps its type; in particular every read sent to a disk,
\* those of a synchronisation included, is of sectors the disk has.
TypeOK == TipoTablas /\ TipoControl /\ TipoHilos /\ TipoHistoria

-----------------------------------------------------------------------------
(* The table of disks *)

\* A disk has one place: asignarDisco gives a disk that comes back, even
\* before its former bridge is known to be gone, the place of its name.
NombresUnicos ==
    \A i, j \in Pos : sDiscos[i].nombre = sDiscos[j].nombre
                         => i = j \/ sDiscos[i].nombre = NULO

\* What the main thread sends to a place reaches the disk named there, across
\* the four steps (handshake, thread, HILO, association) that build the route.
RutaCorrecta ==
    \A i \in Pos, c \in Conexiones :
        sDiscos[i].hilo = c => sDiscos[i].nombre = hilo[c].disco

\* The substate that opens the service and the connection to the VSK may be
\* stale (a handshake does not refresh it), yet neither ever happens while an
\* expected disk is missing, and no disk is waited for afterwards.
EnServicioSinEspera ==
    estadoActual = "FUNCIONAL" \/ cliente => EnEspera(sDiscos) = {}

\* The entries of the queue are its first ones, though the scan of
\* hayOtroSincronizando takes an empty entry 0 as leave to shift the rest over
\* it, and each shift leaves the last entry twice.
ColaContigua ==
    \A i, j \in Pos : i < j /\ cola[i].id = NULO => cola[j].id = NULO

\* A disk in SINCRONIZANDO has its entry in the queue: what will end that
\* state is pending somewhere.  A full queue drops entries, and stays full for
\* ever: the shift repeats its last entry.
SincronizandoEncolado ==
    Vacias(cola) # {} =>
        \A i \in EnEstado(sDiscos, "SINCRONIZANDO") :
            \E k \in Pos : cola[k].id # NULO /\ cola[k].dest = i

\* disco.h:22, "Puede realizar operaciones de GET y PUT": a SINCRONIZADO disk
\* has a bridge that lives to reach it.
SincronizadoPuedeOperar ==
    \A i \in EnEstado(sDiscos, "SINCRONIZADO") :
        \E c \in Conexiones : sDiscos[i].hilo = c /\ hilo[c].fase = "activa"

-----------------------------------------------------------------------------
(* The synchronisation *)

\* The messages under way: where each is, as <<socket, way, place in it>>.
Sentidos == {"ida", "vuelta"}
Canal(c, v) == IF v = "ida" THEN aDisco[c] ELSE deDisco[c]
EnViaje == UNION {{<<c, v, k>> : k \in 1..Len(Canal(c, v))} :
                     c \in Conexiones, v \in Sentidos}
Mensaje(x) == Canal(x[1], x[2])[x[3]]

EsSinc(m) == m.t \in {"GET2", "RTA"} /\ m.id[1] = "consola"
PedidosSinc == {x \in EnViaje : EsSinc(Mensaje(x))}

\* There is one request or answer of synchronisation under way at most, it is
\* of entry 0 and for the sectors entry 0 says: continuarSincronizacion does
\* not look at which sectors an answer brings.
SincronizacionEnCurso ==
    /\ \A x, y \in PedidosSinc : x = y
    /\ \A x \in PedidosSinc :
          /\ Mensaje(x).id = cola[0].id
          /\ IF x[2] = "ida"
             THEN Mensaje(x).s1 = cola[0].act - 1 /\ Mensaje(x).s2 = cola[0].act
             ELSE /\ Mensaje(x).d1.sec = cola[0].act - 1
                  /\ Mensaje(x).d2.sec = cola[0].act

\* No sector ever holds what was written for another.
SectorPropio == \A d \in Discos, s \in Sectores : datos[d][s].sec = s

\* The mirror: two synchronised disks with nothing left to write hold the same.
AlDia(i) ==
    /\ sDiscos[i].estado = "SINCRONIZADO"
    /\ sDiscos[i].hilo \in Conexiones
    /\ aDisco[sDiscos[i].hilo] = <<>>

EspejoIgual ==
    \A i, j \in Pos : AlDia(i) /\ AlDia(j)
        => datos[sDiscos[i].nombre] = datos[sDiscos[j].nombre]

\* A disk put in synchronisation ends it.
SincronizacionTermina ==
    \A i \in Pos : sDiscos[i].estado = "SINCRONIZANDO"
                       ~> sDiscos[i].estado = "SINCRONIZADO" \/ ~Vivo

-----------------------------------------------------------------------------
(* Reads and writes *)

\* An answer carries the two sectors its read asked for, each in its half,
\* though the halves come from two disks in any order; and is given once.
RespuestaCorrecta ==
    \A n \in 1..Len(lecturas) :
        /\ Len(respuestas[n]) <= 1
        /\ \A k \in 1..Len(respuestas[n]) :
              /\ respuestas[n][k].d1 # NULO /\ respuestas[n][k].d2 # NULO
              /\ respuestas[n][k].d1.sec = lecturas[n].s1
              /\ respuestas[n][k].d2.sec = lecturas[n].s2

\* A read that goes to synchronised disks sees every write acknowledged before
\* it, whichever disk answers and whichever acknowledged first.
LecturaFresca ==
    \A n \in 1..Len(lecturas) : \A k \in 1..Len(respuestas[n]) :
        /\ lecturas[n].v1 > 0 => respuestas[n][k].d1.ver >= lecturas[n].v1
        /\ lecturas[n].v2 > 0 => respuestas[n][k].d2.ver >= lecturas[n].v2

\* Halves of read id under way.
Mitades(id) == {x \in EnViaje :
    Mensaje(x).t \in {"GET1", "RTAb"} /\ Mensaje(x).id = id}

\* No half answer comes back to a table that has no entry for it, or that has
\* counted both halves already (agregarRespuesta would run past the table).
MitadEsperada ==
    \A n \in 1..Len(lecturas) :
        \A x \in Mitades(<<"get", n>>) :
            \E k \in PedidosDe(pedidos, <<"get", n>>) :
                /\ x[1] \in Conexiones => x[1] \in {pedidos[k].h1, pedidos[k].h2}
                /\ \A y \in Mitades(<<"get", n>>) :
                       x # y => x[1] # y[1] /\ pedidos[k].cant = 0
=============================================================================

---------------------------- MODULE ArrayProofs ----------------------------
(***************************************************************************)
(* What holds of the array for every number of disks, places and sockets,  *)
(* and for every bound of the environment: types, and the table of disks.  *)
(***************************************************************************)
EXTENDS Array, SequenceTheorems, TLAPS

-----------------------------------------------------------------------------
(* The operators of the table of disks *)

LEMMA TablaTipo ==
    ASSUME NEW e \in [Pos -> Lugar], NEW i \in Pos
    PROVE  /\ DesconectarLugar(e, i) \in [Pos -> Lugar]
           /\ \A s \in EstadosDisco : PonerEstado(e, i, s) \in [Pos -> Lugar]
           /\ \A c \in Conexiones : AsociarSocketHilo(e, c, i) \in [Pos -> Lugar]
           /\ \A d \in Discos, c \in Conexiones :
                 AsignarDisco(e, d, c, i) \in [Pos -> Lugar]
  BY DEF DesconectarLugar, PonerEstado, AsociarSocketHilo, AsignarDisco,
         Lugar, LugarVacio, EstadosDisco, Sockets

LEMMA RespaldarTipo == RespaldarLista \in [Pos -> Lugar]
<1>1. LugarVacio \in Lugar
  BY DEF LugarVacio, Lugar, EstadosDisco, Sockets
<1>2. ASSUME NEW i \in Pos, i < Len(Esperados)
      PROVE  Esperados[Len(Esperados) - i] \in Discos
  BY <1>2, EsperadosAssumption, NAssumption DEF Pos
<1>. QED
  BY <1>1, <1>2 DEF RespaldarLista, Lugar, EstadosDisco, Sockets

LEMMA SubestadoTipo ==
    \A e, s : /\ MostrarEstado(e, s) \in Subestados
              /\ SubestadoFueraDeServicio(e) \in Subestados
  BY DEF MostrarEstado, SubestadoFueraDeServicio, SubestadoEnServicio, Subestados

\* A table moves on only by naming a place, freeing it or changing its state
\* to one that is not NO_CONECTADO: no step makes a disk to be waited for.
LEMMA NadieNuevoEnEspera ==
    ASSUME NEW e \in [Pos -> Lugar], NEW i \in Pos
    PROVE  /\ EnEspera(DesconectarLugar(e, i)) \subseteq EnEspera(e)
           /\ \A s \in {"CONECTADO", "SINCRONIZANDO", "SINCRONIZADO"} :
                 EnEspera(PonerEstado(e, i, s)) \subseteq EnEspera(e)
           /\ \A c \in Conexiones :
                 EnEspera(AsociarSocketHilo(e, c, i)) \subseteq EnEspera(e)
           /\ \A d \in Discos, c \in Conexiones :
                 EnEspera(AsignarDisco(e, d, c, i)) \subseteq EnEspera(e)
  BY DEF DesconectarLugar, PonerEstado, AsociarSocketHilo, AsignarDisco,
         EnEspera, EnEstado, Lugar, LugarVacio, EstadosDisco

-----------------------------------------------------------------------------
(* The channels *)

LEMMA PorTipo ==
    ASSUME NEW S, NEW m \in S, NEW s
    PROVE  Por(s, m) \in [Conexiones -> Seq(S)]
  BY DEF Por

LEMMA LuegoTipo ==
    ASSUME NEW f \in [Conexiones -> Seq(AlDisco)],
           NEW g \in [Conexiones -> Seq(AlDisco)]
    PROVE  Luego(f, g) \in [Conexiones -> Seq(AlDisco)]
  BY ConcatProperties DEF Luego

LEMMA EnviarTipo ==
    ASSUME NEW f \in [Conexiones -> Seq(AlDisco)], NEW sigue \in Procesos,
           aDisco \in [Conexiones -> Seq(AlDisco)], Enviar(f, sigue)
    PROVE  /\ aDisco' \in [Conexiones -> Seq(AlDisco)]
           /\ proceso' \in Procesos
  BY ConcatProperties DEF Enviar, Procesos

\* A sequence with one element replaced, at an index it has or has not.
LEMMA ReemplazoTipo ==
    ASSUME NEW S, NEW s \in Seq(S), NEW i, NEW x,
           i \in DOMAIN s => x \in S
    PROVE  [s EXCEPT ![i] = x] \in Seq(S)
<1>1. CASE i \in DOMAIN s
  BY <1>1, ExceptSeq, LenProperties
<1>2. CASE i \notin DOMAIN s
  <2>1. [s EXCEPT ![i] = x] = s
    BY <1>2, LenProperties
  <2>. QED BY <2>1
<1>. QED BY <1>1, <1>2

LEMMA ResponderTipo ==
    ASSUME respuestas \in Seq(Seq([d1 : Buffers, d2 : Buffers])),
           NEW id, NEW d \in Buffers, NEW f \in Buffers, Responder(id, d, f)
    PROVE  respuestas' \in Seq(Seq([d1 : Buffers, d2 : Buffers]))
<1>. DEFINE R == [d1 : Buffers, d2 : Buffers]
            r == [d1 |-> d, d2 |-> f]
            x == Append(respuestas[id[2]], r)
<1>1. r \in R
  OBVIOUS
<1>2. id[2] \in DOMAIN respuestas => x \in Seq(R)
  BY <1>1, AppendProperties, LenProperties
<1>3. [respuestas EXCEPT ![id[2]] = x] \in Seq(Seq(R))
  BY <1>2, ReemplazoTipo
<1>. QED BY <1>3 DEF Responder

LEMMA UnirTipo ==
    ASSUME pedidos \in [Entradas -> Pedido],
           respuestas \in Seq(Seq([d1 : Buffers, d2 : Buffers])),
           NEW k \in Entradas, NEW id, NEW c, NEW d \in Buffers, Unir(k, id, c, d)
    PROVE  /\ pedidos' \in [Entradas -> Pedido]
           /\ respuestas' \in Seq(Seq([d1 : Buffers, d2 : Buffers]))
<1>. DEFINE p == AgregarRespuesta(pedidos, k, c, d)
<1>1. p \in [Entradas -> Pedido]
  <2>. DEFINE x == pedidos[k]
              n == x.cant + 1
              b1 == IF x.h1 = c THEN d ELSE x.d1
              b2 == IF x.h2 = c /\ x.h1 # c THEN d ELSE x.d2
  <2>1. x \in Pedido /\ n \in Nat /\ b1 \in Buffers /\ b2 \in Buffers
    BY DEF Pedido
  <2>2. [x EXCEPT !.cant = n, !.d1 = b1, !.d2 = b2] \in Pedido
    <3>. HIDE DEF x, n, b1, b2
    <3>. QED BY <2>1 DEF Pedido
  <2>3. p = [pedidos EXCEPT ![k] = [x EXCEPT !.cant = n, !.d1 = b1, !.d2 = b2]]
    BY DEF AgregarRespuesta
  <2>. QED BY <2>2, <2>3
<1>2. EliminarPedido(p, k) \in [Entradas -> Pedido]
  BY <1>1 DEF EliminarPedido, Pedido
<1>3. p[k].d1 \in Buffers /\ p[k].d2 \in Buffers
  BY <1>1 DEF Pedido
<1>. QED BY <1>1, <1>2, <1>3, ResponderTipo DEF Unir

\* What the main thread has just received on a socket.
LEMMA RecibidoTipo ==
    ASSUME deDisco \in [Conexiones -> Seq(DelDisco)],
           NEW c \in Conexiones, NEW t, Llega(c, t)
    PROVE  /\ Head(deDisco[c]) \in DelDisco /\ Head(deDisco[c]).t = t
           /\ Tail(deDisco[c]) \in Seq(DelDisco)
           /\ Recibir(c) => deDisco' \in [Conexiones -> Seq(DelDisco)]
<1>1. deDisco[c] \in Seq(DelDisco) /\ deDisco[c] # <<>> /\ Head(deDisco[c]).t = t
  BY DEF Llega
<1>2. Head(deDisco[c]) \in DelDisco /\ Tail(deDisco[c]) \in Seq(DelDisco)
  BY <1>1, HeadTailProperties
<1>3. Recibir(c) => deDisco' \in [Conexiones -> Seq(DelDisco)]
  BY <1>2 DEF Recibir
<1>. QED BY <1>1, <1>2, <1>3

LEMMA ClaseMensaje ==
    ASSUME NEW m \in DelDisco
    PROVE  /\ m.t = "RTA" =>
                 m \in [t : {"RTA"}, id : Ids, d1 : Buffers, d2 : Buffers]
           /\ m.t = "RTAb" => m \in [t : {"RTAb"}, id : Ids, d1 : Buffers]
                              /\ m.id[1] = "get"
           /\ m.t = "PUT_OK" => m.id \in Ids
           /\ m.t = "HILO" => m.nombre \in Discos
  BY DEF DelDisco, IdsLectura, Ids

LEMMA MensajesTipo ==
    /\ \A id \in IdsLectura, s \in Sectores : Get1(id, s) \in AlDisco
    /\ \A id \in Ids, s, z \in Sectores : Get2(id, s, z) \in AlDisco
    /\ \A id \in Ids, s, z \in Int, d, f \in Buffers :
          Put(id, s, z, d, f) \in AlDisco
  BY DEF Get1, Get2, Put, AlDisco, Pedidos1, Pedidos2, Escrituras

-----------------------------------------------------------------------------
(* The inductive invariant of the types.  A read sent for a synchronisation   *)
(* takes its sectors from entry 0 of the queue, and one of the VSK goes to    *)
(* the places the selectors hold: neither is in range by its type alone.      *)

ConSector(q) == \A i \in Pos : q[i].id # NULO => q[i].act \in Nat

SelectoresJuntos == sel1 = -1 => sel2 = -1

HilosConDisco == \A c \in Conexiones :
    hilo[c].fase \in {"nueva", "activa"} => hilo[c].disco \in Discos

InvTipos == TypeOK /\ ConSector(cola) /\ SelectoresJuntos /\ HilosConDisco

-----------------------------------------------------------------------------
(* The synchronisation queue *)

LEMMA CorrerTipo ==
    ASSUME NEW q \in [Pos -> EntradaCola], ConSector(q)
    PROVE  Correr(q) \in [Pos -> EntradaCola] /\ ConSector(Correr(q))
  BY NAssumption DEF Correr, ConSector, Pos

LEMMA CargarTipo ==
    ASSUME NEW q \in [Pos -> EntradaCola], ConSector(q),
           NEW k \in Pos, NEW x \in EntradaCola, x.act = 0
    PROVE  Cargar(q, k, x) \in [Pos -> EntradaCola] /\ ConSector(Cargar(q, k, x))
  BY DEF Cargar, ConSector

LEMMA VaciarTipo ==
    ASSUME NEW q \in [Pos -> EntradaCola], ConSector(q)
    PROVE  /\ [q EXCEPT ![0].id = NULO] \in [Pos -> EntradaCola]
           /\ ConSector([q EXCEPT ![0].id = NULO])
<1>1. 0 \in Pos
  BY NAssumption DEF Pos
<1>2. [q[0] EXCEPT !.id = NULO] \in EntradaCola
  BY <1>1 DEF EntradaCola
<1>. QED BY <1>1, <1>2 DEF ConSector, EntradaCola

LEMMA SincronizarTipo ==
    ASSUME TypeOK, NEW e \in [Pos -> Lugar],
           NEW q \in [Pos -> EntradaCola], ConSector(q), q[0].id # NULO,
           SincronizarDisco(e, q)
    PROVE  /\ sDiscos' \in [Pos -> Lugar]
           /\ cola' \in [Pos -> EntradaCola] /\ ConSector(cola')
           /\ aDisco' \in [Conexiones -> Seq(AlDisco)]
           /\ proceso' \in Procesos
<1>1. 0 \in Pos /\ 0 \in Sectores /\ 1 \in Sectores
  BY NAssumption, TotalAssumption DEF Pos, Sectores
<1>2. q[0].id \in Ids /\ q[0].dest \in Pos
  BY <1>1 DEF EntradaCola
<1>3. Get2(q[0].id, 0, 1) \in AlDisco
  BY <1>1, <1>2, MensajesTipo
<1>4. aDisco' \in [Conexiones -> Seq(AlDisco)] /\ proceso' \in Procesos
  BY <1>3, PorTipo, EnviarTipo DEF SincronizarDisco, TypeOK, TipoHilos, TipoControl
<1>5. sDiscos' \in [Pos -> Lugar]
  BY <1>2, TablaTipo DEF SincronizarDisco, EstadosDisco
<1>6. cola' = [q EXCEPT ![0].act = 1]
  BY DEF SincronizarDisco
<1>7. cola' \in [Pos -> EntradaCola] /\ ConSector(cola')
  BY <1>1, <1>6 DEF EntradaCola, ConSector
<1>. QED BY <1>4, <1>5, <1>7

LEMMA AgregarTipo ==
    ASSUME InvTipos, NEW i \in Pos, NEW o \in Pos, AgregarSincroniza(i, o)
    PROVE  /\ sDiscos' \in [Pos -> Lugar] /\ subestado' \in Subestados
           /\ cola' \in [Pos -> EntradaCola] /\ ConSector(cola')
           /\ aDisco' \in [Conexiones -> Seq(AlDisco)] /\ proceso' \in Procesos
<1>. DEFINE e == PonerEstado(sDiscos, i, "SINCRONIZANDO")
            entrada == [id |-> IdConsola, act |-> 0, orig |-> o, dest |-> i]
            q == Correr(cola)
<1>1. /\ cola \in [Pos -> EntradaCola] /\ sDiscos \in [Pos -> Lugar]
      /\ subestado \in Subestados /\ proceso \in Procesos /\ nComandos \in Nat
      /\ aDisco \in [Conexiones -> Seq(AlDisco)] /\ ConSector(cola)
      /\ TypeOK
  BY DEF InvTipos, TypeOK, TipoTablas, TipoControl, TipoHilos
<1>2. e \in [Pos -> Lugar]
  BY <1>1, TablaTipo DEF EstadosDisco
<1>3. IdConsola \in Ids
  BY <1>1 DEF IdConsola, Ids
<1>4. entrada \in EntradaCola /\ entrada.act = 0 /\ entrada.id = IdConsola
  BY <1>3 DEF EntradaCola
<1>5. CASE EnCurso
  <2>1. sDiscos' = e /\ UNCHANGED subestado
    BY <1>5 DEF AgregarSincroniza
  <2>2. \/ \E k \in Pos : cola' = Cargar(cola, k, entrada) /\ UNCHANGED <<aDisco, proceso>>
        \/ ColaLlena
    BY <1>5 DEF AgregarSincroniza
  <2>3. ASSUME NEW k \in Pos, cola' = Cargar(cola, k, entrada)
        PROVE  cola' \in [Pos -> EntradaCola] /\ ConSector(cola')
    <3>. HIDE DEF entrada
    <3>. QED BY <1>1, <1>4, <2>3, CargarTipo
  <2>. QED BY <1>1, <1>2, <2>1, <2>2, <2>3 DEF ColaLlena, Procesos
<1>6. CASE ~EnCurso
  <2>1. PICK k \in Pos : /\ EsPrimero(k, Vacias(q))
                         /\ SincronizarDisco(e, Cargar(q, k, entrada))
    BY <1>6 DEF AgregarSincroniza
  <2>2. Refrescar(sDiscos')
    BY <1>6 DEF AgregarSincroniza
  <2>3. subestado' \in Subestados
    BY <2>2, SubestadoTipo DEF Refrescar
  <2>. HIDE DEF entrada, e, q
  <2>4. q \in [Pos -> EntradaCola] /\ ConSector(q)
    BY <1>1, CorrerTipo DEF q
  <2>5. Cargar(q, k, entrada) \in [Pos -> EntradaCola] /\ ConSector(Cargar(q, k, entrada))
    BY <1>4, <2>4, CargarTipo
  <2>6. Cargar(q, k, entrada)[0].id # NULO
    <3>1. 0 \in Pos /\ \A p \in Pos : 0 <= p /\ p \in Int
      BY NAssumption DEF Pos
    <3>2. CASE k = 0
      BY <1>3, <1>4, <2>4, <3>1, <3>2, IdsAssumption DEF Cargar
    <3>3. CASE k # 0
      BY <2>1, <2>4, <3>1, <3>3 DEF EsPrimero, Vacias, Cargar
    <3>. QED BY <3>2, <3>3
  <2>7. /\ sDiscos' \in [Pos -> Lugar]
        /\ cola' \in [Pos -> EntradaCola] /\ ConSector(cola')
        /\ aDisco' \in [Conexiones -> Seq(AlDisco)] /\ proceso' \in Procesos
    BY <1>1, <1>2, <2>1, <2>5, <2>6, SincronizarTipo
  <2>. QED BY <2>3, <2>7
<1>. QED BY <1>5, <1>6

LEMMA CierreTipo ==
    ASSUME InvTipos, EnviarOtroASincronizar
    PROVE  /\ sDiscos' \in [Pos -> Lugar]
           /\ cola' \in [Pos -> EntradaCola] /\ ConSector(cola')
           /\ aDisco' \in [Conexiones -> Seq(AlDisco)]
           /\ proceso' \in Procesos
<1>. DEFINE q == IF EnCurso THEN cola ELSE Correr(cola)
<1>1. q \in [Pos -> EntradaCola] /\ ConSector(q)
  BY CorrerTipo DEF InvTipos, TypeOK, TipoTablas
<1>2. TypeOK /\ sDiscos \in [Pos -> Lugar] /\ aDisco \in [Conexiones -> Seq(AlDisco)]
          /\ proceso \in Procesos
  BY DEF InvTipos, TypeOK, TipoTablas, TipoHilos, TipoControl
<1>3. CASE (EnCurso /\ SigueSincronizando(cola)) \/ q[0].id = NULO
  BY <1>1, <1>2, <1>3 DEF EnviarOtroASincronizar
<1>4. CASE ~((EnCurso /\ SigueSincronizando(cola)) \/ q[0].id = NULO)
  <2>1. SincronizarDisco(sDiscos, q)
    BY <1>4 DEF EnviarOtroASincronizar
  <2>. QED BY <1>1, <1>2, <1>4, <2>1, SincronizarTipo
<1>. QED BY <1>3, <1>4

LEMMA ContinuarTipo ==
    ASSUME InvTipos, NEW m \in [t : {"RTA"}, id : Ids, d1 : Buffers, d2 : Buffers],
           EnSincronizacion(m.id), Continuar(m)
    PROVE  /\ sDiscos' \in [Pos -> Lugar] /\ subestado' \in Subestados
           /\ cola' \in [Pos -> EntradaCola] /\ ConSector(cola')
           /\ aDisco' \in [Conexiones -> Seq(AlDisco)]
           /\ proceso' \in Procesos
<1>. DEFINE q == cola[0]
            par == Por(sDiscos[q.dest].hilo, Put(m.id, q.act - 1, q.act, m.d1, m.d2))
            avanza == [cola EXCEPT ![0].act = q.act + 2]
            siguiente == Get2(m.id, q.act + 1, CalcularCHS(q.act + 2, q.act))
            sig == Por(sDiscos[q.orig].hilo, siguiente)
<1>1. 0 \in Pos
  BY NAssumption DEF Pos
<1>2. /\ cola \in [Pos -> EntradaCola] /\ sDiscos \in [Pos -> Lugar]
      /\ subestado \in Subestados /\ proceso \in Procesos
      /\ aDisco \in [Conexiones -> Seq(AlDisco)]
      /\ TypeOK /\ ConSector(cola)
  BY DEF InvTipos, TypeOK, TipoTablas, TipoHilos, TipoControl
<1>3. q.id \in Ids /\ q.act \in Nat /\ q.dest \in Pos /\ q.orig \in Pos
  BY <1>1, <1>2, IdsAssumption DEF EnSincronizacion, ConSector, EntradaCola
<1>4. par \in [Conexiones -> Seq(AlDisco)]
  <2>1. Put(m.id, q.act - 1, q.act, m.d1, m.d2) \in AlDisco
    BY <1>3, MensajesTipo
  <2>. QED BY <2>1, PorTipo
<1>5. avanza \in [Pos -> EntradaCola] /\ ConSector(avanza)
  BY <1>1, <1>2, <1>3 DEF EntradaCola, ConSector
<1>6. CASE HaySector(q.act + 1)
  <2>1. q.act + 1 \in Sectores /\ CalcularCHS(q.act + 2, q.act) \in Sectores
    BY <1>3, <1>6, TotalAssumption DEF HaySector, CalcularCHS, Sectores
  <2>2. siguiente \in AlDisco
    BY <2>1, MensajesTipo
  <2>3. Luego(par, sig) \in [Conexiones -> Seq(AlDisco)]
    BY <1>4, <2>2, PorTipo, LuegoTipo
  <2>4. Enviar(Luego(par, sig), proceso) /\ cola' = avanza
            /\ UNCHANGED <<sDiscos, subestado>>
    BY <1>6 DEF Continuar
  <2>. QED BY <1>2, <1>5, <2>3, <2>4, EnviarTipo
<1>7. CASE ~HaySector(q.act + 1)
  <2>. DEFINE fin == [avanza EXCEPT ![0].id = NULO]
  <2>1. /\ Enviar(par, proceso) /\ cola' = Correr(fin)
        /\ sDiscos' = PonerEstado(sDiscos, q.dest, "SINCRONIZADO")
        /\ Refrescar(sDiscos')
    BY <1>7 DEF Continuar
  <2>2. fin \in [Pos -> EntradaCola] /\ ConSector(fin)
    BY <1>5, VaciarTipo
  <2>3. cola' \in [Pos -> EntradaCola] /\ ConSector(cola')
    BY <2>1, <2>2, CorrerTipo
  <2>4. sDiscos' \in [Pos -> Lugar] /\ subestado' \in Subestados
    BY <1>2, <1>3, <2>1, TablaTipo, SubestadoTipo DEF EstadosDisco, Refrescar
  <2>. QED BY <1>2, <1>4, <2>1, <2>3, <2>4, EnviarTipo
<1>. QED BY <1>6, <1>7

-----------------------------------------------------------------------------
\* A bridge thread only changes its phase, to one in which it reads no more.
LEMMA CerrarTipo ==
    ASSUME hilo \in [Conexiones -> Hilos], HilosConDisco, NEW c \in Conexiones,
           NEW f \in {"rota", "cerrada"}, hilo' = [hilo EXCEPT ![c].fase = f]
    PROVE  hilo' \in [Conexiones -> Hilos] /\ HilosConDisco'
<1>1. [hilo[c] EXCEPT !.fase = f] \in Hilos
  BY DEF Hilos
<1>2. hilo' = [hilo EXCEPT ![c] = [hilo[c] EXCEPT !.fase = f]]
  OBVIOUS
<1>. QED BY <1>1, <1>2 DEF HilosConDisco, Hilos

LEMMA ContestarTipo ==
    ASSUME deDisco \in [Conexiones -> Seq(DelDisco)],
           NEW c \in Conexiones, NEW m \in DelDisco, Contestar(c, m)
    PROVE  deDisco' \in [Conexiones -> Seq(DelDisco)]
<1>1. Append(deDisco[c], m) \in Seq(DelDisco)
  BY AppendProperties
<1>. QED BY <1>1 DEF Contestar

LEMMA ServirTipo ==
    ASSUME NEW m \in AlDisco, NEW s \in [Sectores -> Buffers]
    PROVE  Servir(m, s) \in DelDisco
<1>1. CASE m \in Pedidos1
  BY <1>1 DEF Servir, Pedidos1, DelDisco
<1>2. CASE m \in Pedidos2
  BY <1>2 DEF Servir, Pedidos2, DelDisco
<1>3. CASE m \in Escrituras
  BY <1>3 DEF Servir, Escrituras, DelDisco
<1>. QED BY <1>1, <1>2, <1>3 DEF AlDisco

LEMMA GrabarTipo ==
    ASSUME NEW m \in AlDisco, NEW s \in [Sectores -> Buffers]
    PROVE  Grabar(m, s) \in [Sectores -> Buffers]
<1>1. CASE m.t = "PUT"
  <2>1. m.d1 \in Buffers /\ m.d2 \in Buffers
    BY <1>1 DEF AlDisco, Pedidos1, Pedidos2, Escrituras
  <2>. QED BY <1>1, <2>1 DEF Grabar
<1>2. CASE m.t # "PUT"
  BY <1>2 DEF Grabar
<1>. QED BY <1>1, <1>2

LEMMA EliminaTipo ==
    ASSUME TipoHilos, HilosConDisco, NEW c \in Conexiones, EliminaPuente(c)
    PROVE  /\ hilo' \in [Conexiones -> Hilos] /\ HilosConDisco'
           /\ aDisco' \in [Conexiones -> Seq(AlDisco)]
           /\ deDisco' \in [Conexiones -> Seq(DelDisco)]
<1>1. hilo' \in [Conexiones -> Hilos] /\ HilosConDisco'
  BY CerrarTipo DEF EliminaPuente, TipoHilos
<1>2. deDisco' \in [Conexiones -> Seq(DelDisco)]
  BY DEF EliminaPuente, TipoHilos
<1>3. aDisco' \in [Conexiones -> Seq(AlDisco)]
  <2>1. PICK k \in 0..Len(aDisco[c]) : aDisco' = [aDisco EXCEPT ![c] = SubSeq(@, 1, k)]
    BY DEF EliminaPuente
  <2>2. aDisco[c] \in Seq(AlDisco)
    BY DEF TipoHilos
  <2>3. k \in Nat /\ \A i \in 1..k : aDisco[c][i] \in AlDisco
    BY <2>1, <2>2, ElementOfSeq, LenProperties
  <2>4. SubSeq(aDisco[c], 1, k) \in Seq(AlDisco)
    BY <2>3, SubSeqProperties
  <2>. QED BY <2>1, <2>4 DEF TipoHilos
<1>. QED BY <1>1, <1>2, <1>3

\* elegirDisco leaves both selectors in the table, or both unset.
LEMMA ElegirTipo ==
    ASSUME NEW e, NEW s1 \in Selectores, NEW s2 \in Selectores, s1 = -1 => s2 = -1,
           NEW t1 \in Selectores, NEW t2 \in Selectores, ElegirDisco(e, s1, s2, t1, t2)
    PROVE  /\ t1 = -1 => t2 = -1
           /\ t2 >= 0 => t1 \in Pos /\ t2 \in Pos
<1>1. \A i \in Legibles(e) : i \in Pos /\ i # -1
  BY NAssumption DEF Legibles, EnEstado, Pos
<1>2. t1 = -1 => t2 = -1
  BY <1>1 DEF ElegirDisco, EsPrimero
<1>. QED BY <1>2, NAssumption DEF Selectores, Pos

LEMMA RepartirTipo ==
    ASSUME InvTipos, NEW par \in Pares, NEW t1 \in Pos, NEW t2 \in Pos,
           Repartir(par, t1, t2)
    PROVE  /\ pedidos' \in [Entradas -> Pedido]
           /\ aDisco' \in [Conexiones -> Seq(AlDisco)] /\ proceso' \in Procesos
           /\ lecturas' \in Seq([s1 : Sectores, s2 : Sectores, v1 : Nat, v2 : Nat])
           /\ respuestas' \in Seq(Seq([d1 : Buffers, d2 : Buffers]))
<1>. DEFINE id == <<"get", Len(lecturas) + 1>>
            h1 == sDiscos[t1].hilo
            h2 == sDiscos[t2].hilo
            f  == IF t1 = t2 THEN Por(h1, Get2(id, par[1], par[2]))
                  ELSE Luego(Por(h1, Get1(id, par[1])), Por(h2, Get1(id, par[2])))
            l  == [s1 |-> par[1], s2 |-> par[2],
                   v1 |-> Debe(par[1], t1, t2), v2 |-> Debe(par[2], t1, t2)]
<1>1. /\ pedidos \in [Entradas -> Pedido] /\ sDiscos \in [Pos -> Lugar]
      /\ aDisco \in [Conexiones -> Seq(AlDisco)] /\ proceso \in Procesos
      /\ TipoHistoria
  BY DEF InvTipos, TypeOK, TipoTablas, TipoControl, TipoHilos
<1>2. par[1] \in Sectores /\ par[2] \in Sectores
  BY EntornoAssumption
<1>3. id \in Ids /\ id \in IdsLectura
  BY <1>1, LenProperties DEF Ids, IdsLectura, TipoHistoria
<1>4. h1 \in Sockets /\ h2 \in Sockets
  BY <1>1 DEF Lugar
<1>5. f \in [Conexiones -> Seq(AlDisco)]
  <2>1. /\ Get2(id, par[1], par[2]) \in AlDisco
        /\ Get1(id, par[1]) \in AlDisco /\ Get1(id, par[2]) \in AlDisco
    BY <1>2, <1>3, MensajesTipo
  <2>2. /\ Por(h1, Get2(id, par[1], par[2])) \in [Conexiones -> Seq(AlDisco)]
        /\ Por(h1, Get1(id, par[1])) \in [Conexiones -> Seq(AlDisco)]
        /\ Por(h2, Get1(id, par[2])) \in [Conexiones -> Seq(AlDisco)]
    BY <2>1, PorTipo
  <2>. QED BY <2>2, LuegoTipo
<1>6. aDisco' \in [Conexiones -> Seq(AlDisco)] /\ proceso' \in Procesos
  <2>1. \E p \in {proceso, "caido"} : Enviar(f, p)
    BY DEF Repartir
  <2>2. {proceso, "caido"} \subseteq Procesos
    BY <1>1 DEF Procesos
  <2>. HIDE DEF f
  <2>. QED BY <1>1, <1>5, <2>1, <2>2, EnviarTipo
<1>7. pedidos' \in [Entradas -> Pedido]
  <2>1. \/ \E k \in Entradas : pedidos' = AgregarPedido(pedidos, k, id, h1, h2)
        \/ UNCHANGED pedidos
    BY DEF Repartir
  <2>2. [id |-> id, cant |-> 0, h1 |-> h1, h2 |-> h2, d1 |-> NULO, d2 |-> NULO] \in Pedido
    BY <1>3, <1>4 DEF Pedido, Buffers
  <2>. QED BY <1>1, <2>1, <2>2 DEF AgregarPedido
<1>8. lecturas' \in Seq([s1 : Sectores, s2 : Sectores, v1 : Nat, v2 : Nat])
  <2>1. l \in [s1 : Sectores, s2 : Sectores, v1 : Nat, v2 : Nat]
    BY <1>1, <1>2 DEF TipoHistoria, Debe
  <2>2. lecturas' = Append(lecturas, l)
    BY DEF Repartir
  <2>. QED BY <1>1, <2>1, <2>2, AppendProperties DEF TipoHistoria
<1>9. respuestas' \in Seq(Seq([d1 : Buffers, d2 : Buffers]))
  <2>1. respuestas' = Append(respuestas, <<>>)
    BY DEF Repartir
  <2>. QED BY <1>1, <2>1, AppendProperties DEF TipoHistoria
<1>. QED BY <1>6, <1>7, <1>8, <1>9

LEMMA InitTipos == Init => InvTipos
<1>. SUFFICES ASSUME Init PROVE InvTipos
  OBVIOUS
<1>1. TipoTablas
  <2>1. cola \in [Pos -> EntradaCola]
    <3>1. PICK b \in [Pos -> Basura] :
             cola = [i \in Pos |-> [id |-> NULO, act |-> b[i], orig |-> 0, dest |-> 0]]
      BY DEF Init, ColaInicial
    <3>2. 0 \in Pos
      BY NAssumption DEF Pos
    <3>. QED BY <3>1, <3>2, BasuraAssumption DEF EntradaCola
  <2>2. pedidos \in [Entradas -> Pedido]
    BY DEF Init, LimpiarPedidos, PedidoVacio, Pedido, Sockets, Buffers
  <2>. QED BY <2>1, <2>2, RespaldarTipo DEF Init, TipoTablas
<1>2. TipoControl
  <2>1. -1 \in Selectores
    BY NAssumption DEF Selectores
  <2>2. subestado \in Subestados
    BY SubestadoTipo DEF Init
  <2>. QED BY <2>1, <2>2 DEF Init, TipoControl, EstadosArray, Procesos
<1>3. TipoHilos
  <2>1. hilo \in [Conexiones -> Hilos]
    BY NAssumption DEF Init, Hilos, Pos
  <2>2. datos \in [Discos -> [Sectores -> Buffers]]
    BY EntornoAssumption DEF Init, Buffers, Contenidos, Sectores
  <2>. QED BY <2>1, <2>2 DEF Init, TipoHilos
<1>4. TipoHistoria
  BY DEF Init, TipoHistoria
<1>5. ConSector(cola) /\ SelectoresJuntos /\ HilosConDisco
  BY DEF Init, ColaInicial, ConSector, SelectoresJuntos, HilosConDisco
<1>. QED BY <1>1, <1>2, <1>3, <1>4, <1>5 DEF InvTipos, TypeOK

LEMMA PasoTipos == InvTipos /\ [Next]_vars => InvTipos'
<1>. SUFFICES ASSUME InvTipos, [Next]_vars PROVE InvTipos'
  OBVIOUS
<1>0. /\ TipoTablas /\ TipoControl /\ TipoHilos /\ TipoHistoria
      /\ sDiscos \in [Pos -> Lugar] /\ cola \in [Pos -> EntradaCola]
      /\ pedidos \in [Entradas -> Pedido]
      /\ proceso \in Procesos /\ nComandos \in Nat
      /\ hilo \in [Conexiones -> Hilos] /\ datos \in [Discos -> [Sectores -> Buffers]]
      /\ aDisco \in [Conexiones -> Seq(AlDisco)]
      /\ deDisco \in [Conexiones -> Seq(DelDisco)]
      /\ ConSector(cola) /\ SelectoresJuntos /\ HilosConDisco
  BY DEF InvTipos, TypeOK, TipoTablas, TipoControl, TipoHilos, TipoHistoria
<1>. USE DEF tabla, canales, selector, historia
<1>c. Comando => fase' = "cierre" /\ nComandos' \in Nat
  BY <1>0 DEF Comando, Termina
<1>1. ASSUME NEW d \in Discos, HandshakeDisco(d) PROVE InvTipos'
  <2>1. ASSUME NEW c \in Conexiones, NEW i \in Pos, HandshakeAceptado(d, c, i)
        PROVE  /\ sDiscos' \in [Pos -> Lugar] /\ hilo' \in [Conexiones -> Hilos]
               /\ aDisco' \in [Conexiones -> Seq(AlDisco)] /\ HilosConDisco'
    <3>1. sDiscos' \in [Pos -> Lugar]
      BY <1>0, <2>1, TablaTipo DEF HandshakeAceptado
    <3>2. hilo' \in [Conexiones -> Hilos] /\ HilosConDisco'
      BY <1>0, <2>1 DEF HandshakeAceptado, Hilos, HilosConDisco
    <3>3. aDisco' \in [Conexiones -> Seq(AlDisco)]
      BY <1>0, <2>1 DEF HandshakeAceptado
    <3>. QED BY <3>1, <3>2, <3>3
  <2>2. ASSUME HandshakeRechazado(d)
        PROVE  /\ sDiscos' \in [Pos -> Lugar] /\ hilo' \in [Conexiones -> Hilos]
               /\ aDisco' \in [Conexiones -> Seq(AlDisco)] /\ HilosConDisco'
    BY <1>0, <2>2 DEF HandshakeRechazado, HilosConDisco
  <2>3. /\ sDiscos' \in [Pos -> Lugar] /\ hilo' \in [Conexiones -> Hilos]
        /\ aDisco' \in [Conexiones -> Seq(AlDisco)] /\ HilosConDisco'
    BY <1>1, <2>1, <2>2 DEF HandshakeDisco
  <2>. QED BY <1>0, <1>1, <2>3
           DEF HandshakeDisco, Termina, ConSector, SelectoresJuntos,
               InvTipos, TypeOK, TipoTablas, TipoControl, TipoHilos, TipoHistoria
<1>2. ASSUME NEW c \in Conexiones, AsociarHilo(c) PROVE InvTipos'
  <2>1. sDiscos' \in [Pos -> Lugar]
    <3>1. ASSUME NEW i \in Pos, sDiscos' = AsociarSocketHilo(sDiscos, c, i)
          PROVE  sDiscos' \in [Pos -> Lugar]
      BY <1>0, <3>1, TablaTipo
    <3>. QED BY <1>0, <1>2, <3>1 DEF AsociarHilo
  <2>2. deDisco' \in [Conexiones -> Seq(DelDisco)]
    BY <1>0, <1>2, RecibidoTipo DEF AsociarHilo
  <2>3. subestado' \in Subestados
    BY <1>2, SubestadoTipo DEF AsociarHilo, Refrescar
  <2>. QED BY <1>0, <1>2, <2>1, <2>2, <2>3
           DEF AsociarHilo, Termina, ConSector, SelectoresJuntos, HilosConDisco,
               InvTipos, TypeOK, TipoTablas, TipoControl, TipoHilos, TipoHistoria
<1>3. ASSUME NEW c \in Conexiones, Desconexion(c) PROVE InvTipos'
  <2>1. sDiscos' \in [Pos -> Lugar]
    <3>1. ASSUME NEW i \in Pos, sDiscos' = DesconectarLugar(sDiscos, i)
          PROVE  sDiscos' \in [Pos -> Lugar]
      BY <1>0, <3>1, TablaTipo
    <3>. QED BY <1>0, <1>3, <3>1 DEF Desconexion
  <2>2. deDisco' \in [Conexiones -> Seq(DelDisco)]
    BY <1>0, <1>3, RecibidoTipo DEF Desconexion
  <2>3. hilo' \in [Conexiones -> Hilos] /\ HilosConDisco'
    BY <1>0, <1>3, CerrarTipo DEF Desconexion
  <2>4. subestado' \in Subestados
    BY <1>3, SubestadoTipo DEF Desconexion, Refrescar
  <2>. QED BY <1>0, <1>3, <2>1, <2>2, <2>3, <2>4
           DEF Desconexion, Termina, ConSector, SelectoresJuntos,
               InvTipos, TypeOK, TipoTablas, TipoControl, TipoHilos, TipoHistoria
<1>4. ASSUME NEW c \in Conexiones, ProtocoloIncorrecto(c) PROVE InvTipos'
  <2>1. hilo' \in [Conexiones -> Hilos] /\ HilosConDisco'
    BY <1>0, <1>4, CerrarTipo DEF ProtocoloIncorrecto
  <2>2. deDisco' \in [Conexiones -> Seq(DelDisco)]
    BY <1>0, <1>4 DEF ProtocoloIncorrecto
  <2>. QED BY <1>0, <1>4, <2>1, <2>2
           DEF ProtocoloIncorrecto, Termina, ConSector, SelectoresJuntos,
               InvTipos, TypeOK, TipoTablas, TipoControl, TipoHilos, TipoHistoria
<1>5. ASSUME NEW c \in Conexiones, RespuestaSincronizacion(c) PROVE InvTipos'
  <2>. DEFINE m == Head(deDisco[c])
  <2>1. m \in [t : {"RTA"}, id : Ids, d1 : Buffers, d2 : Buffers]
    BY <1>0, <1>5, RecibidoTipo, ClaseMensaje DEF RespuestaSincronizacion
  <2>2. deDisco' \in [Conexiones -> Seq(DelDisco)]
    BY <1>0, <1>5, RecibidoTipo DEF RespuestaSincronizacion
  <2>3. EnSincronizacion(m.id) /\ Continuar(m)
    BY <1>5 DEF RespuestaSincronizacion
  <2>4. /\ sDiscos' \in [Pos -> Lugar] /\ subestado' \in Subestados
        /\ cola' \in [Pos -> EntradaCola] /\ ConSector(cola')
        /\ aDisco' \in [Conexiones -> Seq(AlDisco)] /\ proceso' \in Procesos
    BY <2>1, <2>3, ContinuarTipo
  <2>. QED BY <1>0, <1>5, <2>2, <2>4
           DEF RespuestaSincronizacion, Termina, SelectoresJuntos, HilosConDisco,
               InvTipos, TypeOK, TipoTablas, TipoControl, TipoHilos, TipoHistoria
<1>6. ASSUME NEW c \in Conexiones, RespuestaDos(c) PROVE InvTipos'
  <2>. DEFINE m == Head(deDisco[c])
  <2>1. m \in [t : {"RTA"}, id : Ids, d1 : Buffers, d2 : Buffers]
    BY <1>0, <1>6, RecibidoTipo, ClaseMensaje DEF RespuestaDos
  <2>2. deDisco' \in [Conexiones -> Seq(DelDisco)]
    BY <1>0, <1>6, RecibidoTipo DEF RespuestaDos
  <2>3. Responder(m.id, m.d1, m.d2)
    BY <1>6 DEF RespuestaDos
  <2>4. respuestas' \in Seq(Seq([d1 : Buffers, d2 : Buffers]))
    BY <1>0, <2>1, <2>3, ResponderTipo DEF TipoHistoria
  <2>. QED BY <1>0, <1>6, <2>2, <2>4
           DEF RespuestaDos, Termina, ConSector, SelectoresJuntos, HilosConDisco,
               InvTipos, TypeOK, TipoTablas, TipoControl, TipoHilos, TipoHistoria
<1>7. ASSUME NEW c \in Conexiones, RespuestaUno(c) PROVE InvTipos'
  <2>. DEFINE m == Head(deDisco[c])
  <2>1. m \in [t : {"RTAb"}, id : Ids, d1 : Buffers]
    BY <1>0, <1>7, RecibidoTipo, ClaseMensaje DEF RespuestaUno
  <2>2. Recibir(c) \/ SinLeer(c)
    BY <1>7 DEF RespuestaUno
  <2>3. deDisco' \in [Conexiones -> Seq(DelDisco)]
    <3>1. deDisco[c] # <<>> /\ deDisco[c] \in Seq(DelDisco)
      BY <1>0, <1>7 DEF RespuestaUno, Llega
    <3>2. [t |-> "BASURA"] \in DelDisco
      BY DEF DelDisco
    <3>3. <<[t |-> "BASURA"]>> \o Tail(deDisco[c]) \in Seq(DelDisco)
      BY <3>1, <3>2, ConcatProperties, HeadTailProperties
    <3>4. SinLeer(c) => deDisco' \in [Conexiones -> Seq(DelDisco)]
      BY <1>0, <3>3 DEF SinLeer
    <3>5. Recibir(c) => deDisco' \in [Conexiones -> Seq(DelDisco)]
      BY <1>0, <1>7, RecibidoTipo DEF RespuestaUno
    <3>. QED BY <2>2, <3>4, <3>5
  <2>4. /\ pedidos' \in [Entradas -> Pedido] /\ proceso' \in Procesos
        /\ respuestas' \in Seq(Seq([d1 : Buffers, d2 : Buffers]))
    <3>1. ASSUME NEW k \in Entradas, Unir(k, m.id, c, m.d1), UNCHANGED proceso
          PROVE  /\ pedidos' \in [Entradas -> Pedido] /\ proceso' \in Procesos
                 /\ respuestas' \in Seq(Seq([d1 : Buffers, d2 : Buffers]))
      BY <1>0, <2>1, <3>1, UnirTipo DEF TipoHistoria
    <3>2. CASE /\ proceso' \in {proceso, "caido"}
               /\ UNCHANGED <<pedidos, respuestas>>
      BY <1>0, <3>2 DEF Procesos, TipoHistoria
    <3>. QED BY <1>7, <3>1, <3>2 DEF RespuestaUno
  <2>. QED BY <1>0, <1>7, <2>3, <2>4
           DEF RespuestaUno, Termina, ConSector, SelectoresJuntos, HilosConDisco,
               InvTipos, TypeOK, TipoTablas, TipoControl, TipoHilos, TipoHistoria
<1>8. ASSUME NEW c \in Conexiones, RespuestaPut(c) PROVE InvTipos'
  <2>1. deDisco' \in [Conexiones -> Seq(DelDisco)]
    BY <1>0, <1>8, RecibidoTipo DEF RespuestaPut
  <2>2. Head(deDisco[c]).id \in Ids
    BY <1>0, <1>8, RecibidoTipo, ClaseMensaje DEF RespuestaPut
  <2>3. ultimo' \in [Sectores -> Nat]
    BY <1>0, <1>8, <2>2 DEF RespuestaPut, Ids, TipoHistoria
  <2>. QED BY <1>0, <1>8, <2>1, <2>3
           DEF RespuestaPut, Termina, ConSector, SelectoresJuntos, HilosConDisco,
               InvTipos, TypeOK, TipoTablas, TipoControl, TipoHilos, TipoHistoria
<1>9. ASSUME NEW c \in Conexiones, HiloInicia(c) PROVE InvTipos'
  <2>. DEFINE nombre == sDiscos[hilo[c].pos].nombre
  <2>1. hilo[c] \in Hilos /\ hilo[c].pos \in Pos
    BY <1>0 DEF Hilos
  <2>2. nombre \in Discos \union {NULO}
    BY <1>0, <2>1 DEF Lugar
  <2>3. CASE nombre = NULO
    BY <1>0, <1>9, <2>3
       DEF HiloInicia, Procesos, ConSector, SelectoresJuntos, HilosConDisco,
               InvTipos, TypeOK, TipoTablas, TipoControl, TipoHilos, TipoHistoria
  <2>4. CASE nombre # NULO
    <3>1. [t |-> "HILO", nombre |-> nombre] \in DelDisco
      BY <2>2, <2>4 DEF DelDisco
    <3>2. deDisco' \in [Conexiones -> Seq(DelDisco)]
      BY <1>0, <1>9, <2>4, <3>1, ContestarTipo DEF HiloInicia
    <3>3. hilo' = [hilo EXCEPT ![c].fase = "activa"] /\ hilo[c].fase = "nueva"
      BY <1>9, <2>4 DEF HiloInicia
    <3>4. [hilo[c] EXCEPT !.fase = "activa"] \in Hilos
      BY <2>1 DEF Hilos
    <3>5. hilo' \in [Conexiones -> Hilos] /\ HilosConDisco'
      BY <1>0, <3>3, <3>4 DEF HilosConDisco, Hilos
    <3>. QED BY <1>0, <1>9, <2>4, <3>2, <3>5
             DEF HiloInicia, ConSector, SelectoresJuntos,
               InvTipos, TypeOK, TipoTablas, TipoControl, TipoHilos, TipoHistoria
  <2>. QED BY <2>3, <2>4
<1>10. ASSUME NEW c \in Conexiones, DiscoAtiende(c) PROVE InvTipos'
  <2>. DEFINE d == hilo[c].disco
              m == Head(aDisco[c])
  <2>1. m \in AlDisco /\ Tail(aDisco[c]) \in Seq(AlDisco)
    BY <1>0, <1>10, HeadTailProperties DEF DiscoAtiende
  <2>2. aDisco' \in [Conexiones -> Seq(AlDisco)]
    BY <1>0, <1>10, <2>1 DEF DiscoAtiende
  <2>3. datos' \in [Discos -> [Sectores -> Buffers]]
    BY <1>0, <1>10, <2>1, GrabarTipo DEF DiscoAtiende
  <2>4. deDisco' \in [Conexiones -> Seq(DelDisco)]
    <3>1. CASE hilo[c].fase = "activa"
      <4>1. datos[d] \in [Sectores -> Buffers]
        BY <1>0, <3>1 DEF HilosConDisco
      <4>2. Servir(m, datos[d]) \in DelDisco
        BY <2>1, <4>1, ServirTipo
      <4>. QED BY <1>0, <1>10, <3>1, <4>2, ContestarTipo DEF DiscoAtiende
    <3>2. CASE hilo[c].fase # "activa"
      BY <1>0, <1>10, <3>2 DEF DiscoAtiende
    <3>. QED BY <3>1, <3>2
  <2>. QED BY <1>0, <1>10, <2>2, <2>3, <2>4
           DEF DiscoAtiende, ConSector, SelectoresJuntos, HilosConDisco,
               InvTipos, TypeOK, TipoTablas, TipoControl, TipoHilos, TipoHistoria
<1>11. ASSUME NEW c \in Conexiones, DiscoCae(c) PROVE InvTipos'
  <2>1. hilo' \in [Conexiones -> Hilos] /\ HilosConDisco'
    BY <1>0, <1>11, CerrarTipo DEF DiscoCae
  <2>2. aDisco' \in [Conexiones -> Seq(AlDisco)]
    BY <1>0, <1>11 DEF DiscoCae
  <2>3. deDisco' \in [Conexiones -> Seq(DelDisco)]
    <3>1. [t |-> "EOF"] \in DelDisco
      BY DEF DelDisco
    <3>. QED BY <1>0, <1>11, <3>1, ContestarTipo DEF DiscoCae
  <2>4. nCaidas' \in Nat
    BY <1>0, <1>11 DEF DiscoCae, TipoControl
  <2>. QED BY <1>0, <1>11, <2>1, <2>2, <2>3, <2>4
           DEF DiscoCae, ConSector, SelectoresJuntos,
               InvTipos, TypeOK, TipoTablas, TipoControl, TipoHilos, TipoHistoria
<1>12. ASSUME NEW d \in Discos, ConsolaEliminar(d) PROVE InvTipos'
  <2>0. /\ fase' = "cierre" /\ nComandos' \in Nat
        /\ UNCHANGED <<cola, pedidos, selector, estadoActual, cliente, proceso,
                       datos, historia, nCaidas, respuestas>>
    BY <1>c, <1>12 DEF ConsolaEliminar
  <2>1. CASE UNCHANGED <<sDiscos, subestado, hilo, canales>>
    BY <1>0, <2>0, <2>1 DEF ConSector, SelectoresJuntos, HilosConDisco,
               InvTipos, TypeOK, TipoTablas, TipoControl, TipoHilos, TipoHistoria
  <2>2. ASSUME NEW i \in Pos, sDiscos' = DesconectarLugar(sDiscos, i),
               Refrescar(sDiscos'),
               \/ UNCHANGED <<hilo, canales>>
               \/ \E c \in Conexiones : EliminaPuente(c)
        PROVE  InvTipos'
    <3>1. sDiscos' \in [Pos -> Lugar] /\ subestado' \in Subestados
      BY <1>0, <2>2, TablaTipo, SubestadoTipo DEF Refrescar
    <3>2. /\ hilo' \in [Conexiones -> Hilos] /\ HilosConDisco'
          /\ aDisco' \in [Conexiones -> Seq(AlDisco)]
          /\ deDisco' \in [Conexiones -> Seq(DelDisco)]
      <4>1. CASE UNCHANGED <<hilo, canales>>
        BY <1>0, <4>1 DEF HilosConDisco
      <4>2. ASSUME NEW c \in Conexiones, EliminaPuente(c)
            PROVE  /\ hilo' \in [Conexiones -> Hilos] /\ HilosConDisco'
                   /\ aDisco' \in [Conexiones -> Seq(AlDisco)]
                   /\ deDisco' \in [Conexiones -> Seq(DelDisco)]
        BY <1>0, <4>2, EliminaTipo
      <4>. QED BY <2>2, <4>1, <4>2
    <3>. QED BY <1>0, <2>0, <3>1, <3>2 DEF ConSector, SelectoresJuntos,
               InvTipos, TypeOK, TipoTablas, TipoControl, TipoHilos, TipoHistoria
  <2>. QED BY <1>12, <2>1, <2>2 DEF ConsolaEliminar
<1>13. ASSUME NEW d \in Discos, ConsolaAgregar(d) PROVE InvTipos'
  <2>0. /\ fase' = "cierre" /\ nComandos' \in Nat
        /\ UNCHANGED <<pedidos, selector, cliente, hilo, deDisco, datos,
                       historia, nCaidas, respuestas>>
    BY <1>c, <1>13 DEF ConsolaAgregar
  <2>2. UNCHANGED estadoActual
    BY <1>13 DEF ConsolaAgregar, AgregarNada, AgregarPrimero, AgregarSincroniza
  <2>1. /\ sDiscos' \in [Pos -> Lugar] /\ subestado' \in Subestados
        /\ cola' \in [Pos -> EntradaCola] /\ ConSector(cola')
        /\ aDisco' \in [Conexiones -> Seq(AlDisco)] /\ proceso' \in Procesos
    <3>1. CASE AgregarNada(d)
      BY <1>0, <3>1 DEF AgregarNada, TipoControl, ConSector
    <3>2. ASSUME NEW i \in Pos, AgregarPrimero(i)
          PROVE  /\ sDiscos' \in [Pos -> Lugar] /\ subestado' \in Subestados
                 /\ cola' \in [Pos -> EntradaCola] /\ ConSector(cola')
                 /\ aDisco' \in [Conexiones -> Seq(AlDisco)] /\ proceso' \in Procesos
      BY <1>0, <3>2, TablaTipo, SubestadoTipo
         DEF AgregarPrimero, EstadosDisco, Refrescar, ConSector
    <3>3. ASSUME NEW i \in Pos, NEW o \in Pos, AgregarSincroniza(i, o)
          PROVE  /\ sDiscos' \in [Pos -> Lugar] /\ subestado' \in Subestados
                 /\ cola' \in [Pos -> EntradaCola] /\ ConSector(cola')
                 /\ aDisco' \in [Conexiones -> Seq(AlDisco)] /\ proceso' \in Procesos
      BY <3>3, AgregarTipo
    <3>. QED BY <1>13, <3>1, <3>2, <3>3 DEF ConsolaAgregar
  <2>. QED BY <1>0, <2>0, <2>1, <2>2 DEF SelectoresJuntos, HilosConDisco,
               InvTipos, TypeOK, TipoTablas, TipoControl, TipoHilos, TipoHistoria
<1>14. CASE ConsolaIniciar
  BY <1>0, <1>c, <1>14, SubestadoTipo
     DEF ConsolaIniciar, ConSector, SelectoresJuntos, HilosConDisco,
         EstadosArray, Subestados,
               InvTipos, TypeOK, TipoTablas, TipoControl, TipoHilos, TipoHistoria
<1>15. CASE ConsolaDetener
  BY <1>0, <1>c, <1>15, SubestadoTipo
     DEF ConsolaDetener, ConSector, SelectoresJuntos, HilosConDisco,
         EstadosArray,
               InvTipos, TypeOK, TipoTablas, TipoControl, TipoHilos, TipoHistoria
<1>16. CASE ConsolaEstado
  BY <1>0, <1>c, <1>16, SubestadoTipo
     DEF ConsolaEstado, Refrescar, ConSector, SelectoresJuntos,
         HilosConDisco,
               InvTipos, TypeOK, TipoTablas, TipoControl, TipoHilos, TipoHistoria
<1>17. CASE ConsolaSalir
  BY <1>0, <1>c, <1>17
     DEF ConsolaSalir, ConSector, SelectoresJuntos, HilosConDisco,
         Procesos,
               InvTipos, TypeOK, TipoTablas, TipoControl, TipoHilos, TipoHistoria
<1>18. CASE Cierre
  <2>1. CASE EnviarOtroASincronizar /\ cliente' = (cliente \/ PideCliente) /\ fase' = "atender"
    <3>1. /\ sDiscos' \in [Pos -> Lugar]
          /\ cola' \in [Pos -> EntradaCola] /\ ConSector(cola')
          /\ aDisco' \in [Conexiones -> Seq(AlDisco)]
          /\ proceso' \in Procesos
      BY <2>1, CierreTipo
    <3>2. cliente' \in BOOLEAN
      BY <1>0, <2>1 DEF TipoControl, PideCliente
    <3>. QED BY <1>0, <1>18, <2>1, <3>1, <3>2
             DEF Cierre, SelectoresJuntos, HilosConDisco,
               InvTipos, TypeOK, TipoTablas, TipoControl, TipoHilos, TipoHistoria
  <2>2. CASE proceso' = "terminado" /\ UNCHANGED <<sDiscos, cola, aDisco, cliente, fase>>
    BY <1>0, <1>18, <2>2
       DEF Cierre, ConSector, SelectoresJuntos, HilosConDisco, Procesos,
               InvTipos, TypeOK, TipoTablas, TipoControl, TipoHilos, TipoHistoria
  <2>. QED BY <1>18, <2>1, <2>2 DEF Cierre
<1>19. CASE SaleDelCiclo \/ VskDesconecta
  BY <1>0, <1>19 DEF SaleDelCiclo, VskDesconecta, ConSector, SelectoresJuntos,
                     HilosConDisco, Procesos,
               InvTipos, TypeOK, TipoTablas, TipoControl, TipoHilos, TipoHistoria
<1>20. CASE UNCHANGED vars
  BY <1>0, <1>20 DEF vars, ConSector, SelectoresJuntos, HilosConDisco,
               InvTipos, TypeOK, TipoTablas, TipoControl, TipoHilos, TipoHistoria
<1>21. ASSUME NEW par \in Pares, VskPut(par) PROVE InvTipos'
  <2>. DEFINE v == Len(escritas) + 1
              m == Put(<<"put", v>>, par[1], par[2], [sec |-> par[1], ver |-> v],
                       [sec |-> par[2], ver |-> v])
              f == [c \in Conexiones |->
                      IF \E i \in ConHilo(sDiscos, c) : RecibePut(i, par)
                      THEN <<m>> ELSE <<>>]
  <2>1. par \in Sectores \X Sectores /\ par[1] \in Int /\ par[2] \in Int
    BY EntornoAssumption DEF Sectores
  <2>2. v \in Nat
    BY <1>0, LenProperties DEF TipoHistoria
  <2>3. m \in AlDisco
    <3>1. <<"put", v>> \in Ids
      BY <2>2 DEF Ids
    <3>2. [sec |-> par[1], ver |-> v] \in Buffers /\ [sec |-> par[2], ver |-> v] \in Buffers
      BY <2>1, <2>2 DEF Buffers, Contenidos
    <3>. QED BY <2>1, <3>1, <3>2, MensajesTipo
  <2>4. f \in [Conexiones -> Seq(AlDisco)]
    BY <2>3
  <2>5. aDisco' \in [Conexiones -> Seq(AlDisco)] /\ proceso' \in Procesos
    BY <1>0, <1>21, <2>4, EnviarTipo DEF VskPut
  <2>6. escritas' \in Seq(Sectores \X Sectores)
    BY <1>0, <1>21, <2>1, AppendProperties DEF VskPut, TipoHistoria
  <2>. QED BY <1>0, <1>21, <2>5, <2>6
           DEF VskPut, Termina, ConSector, SelectoresJuntos, HilosConDisco,
               InvTipos, TypeOK, TipoTablas, TipoControl, TipoHilos, TipoHistoria
<1>22. ASSUME NEW par \in Pares, VskGet(par) PROVE InvTipos'
  <2>0. /\ fase' = "cierre"
        /\ UNCHANGED <<tabla, cola, cliente, hilo, deDisco, datos, escritas,
                       ultimo, nComandos, nCaidas>>
    BY <1>22 DEF VskGet, Termina
  <2>1. CASE UNCHANGED <<pedidos, selector, lecturas, respuestas, aDisco, proceso>>
    BY <1>0, <2>0, <2>1 DEF ConSector, SelectoresJuntos, HilosConDisco,
               InvTipos, TypeOK, TipoTablas, TipoControl, TipoHilos, TipoHistoria
  <2>2. ASSUME NEW t1 \in Selectores, NEW t2 \in Selectores,
               ElegirDisco(sDiscos, sel1, sel2, t1, t2), sel1' = t1, sel2' = t2,
               IF t2 < 0 THEN UNCHANGED <<pedidos, lecturas, respuestas,
                                          aDisco, proceso>>
                         ELSE Repartir(par, t1, t2)
        PROVE  InvTipos'
    <3>1. (t1 = -1 => t2 = -1) /\ (t2 >= 0 => t1 \in Pos /\ t2 \in Pos)
      BY <1>0, <2>2, ElegirTipo DEF TipoControl, SelectoresJuntos
    <3>2. t2 \in Int
      BY NAssumption DEF Selectores
    <3>3. /\ pedidos' \in [Entradas -> Pedido]
          /\ aDisco' \in [Conexiones -> Seq(AlDisco)] /\ proceso' \in Procesos
          /\ lecturas' \in Seq([s1 : Sectores, s2 : Sectores, v1 : Nat, v2 : Nat])
          /\ respuestas' \in Seq(Seq([d1 : Buffers, d2 : Buffers]))
      <4>1. CASE t2 < 0
        BY <1>0, <2>2, <4>1 DEF TipoHistoria
      <4>2. CASE ~(t2 < 0)
        <5>1. t1 \in Pos /\ t2 \in Pos
          BY <3>1, <3>2, <4>2
        <5>2. Repartir(par, t1, t2)
          BY <2>2, <4>2
        <5>. QED BY <5>1, <5>2, RepartirTipo
      <4>. QED BY <4>1, <4>2
    <3>. QED BY <1>0, <2>0, <2>2, <3>1, <3>3
             DEF ConSector, SelectoresJuntos, HilosConDisco,
               InvTipos, TypeOK, TipoTablas, TipoControl, TipoHilos, TipoHistoria
  <2>. QED BY <1>22, <2>1, <2>2 DEF VskGet
<1>. QED BY <1>1, <1>2, <1>3, <1>4, <1>5, <1>6, <1>7, <1>8, <1>9, <1>10, <1>11, <1>12,
            <1>13, <1>14, <1>15, <1>16, <1>17, <1>18, <1>19, <1>20, <1>21, <1>22
         DEF Next, Respuesta, Consola, Vsk

LEMMA SpecTipos == Spec => []InvTipos
  BY InitTipos, PasoTipos, PTL DEF Spec

\* Whatever the number of disks, places, sockets and commands, every variable
\* keeps its type, and no read, of the VSK or of a synchronisation, is sent to
\* a disk for a sector that does not exist or through a place out of the table.
THEOREM TiposCorrectos == Spec => []TypeOK
<1>1. InvTipos => TypeOK
  BY DEF InvTipos
<1>. QED BY <1>1, SpecTipos, PTL

-----------------------------------------------------------------------------
(* Expected disks.  The substate that opens the service is a value stored     *)
(* some steps before: it stays true because no step makes a disk expected.    *)

Listo == {"INICIALIZADO_SINCRONIZADO", "INICIALIZADO_SINCRONIZANDO",
          "FUERASERVICIO_SINCRONIZADO"}

InvEspera ==
    estadoActual = "FUNCIONAL" \/ cliente \/ subestado \in Listo
        => EnEspera(sDiscos) = {}

LEMMA FueraDeServicioListo ==
    ASSUME NEW e, SubestadoFueraDeServicio(e) \in Listo
    PROVE  EnEspera(e) = {}
  BY DEF SubestadoFueraDeServicio, Listo

LEMMA CorrerEntradas ==
    \A q \in [Pos -> EntradaCola] : Correr(q) \in [Pos -> EntradaCola]
  BY NAssumption DEF Correr, Pos

\* No step makes a disk to be waited for.
LEMMA EsperaNoCrece ==
    ASSUME InvTipos, [Next]_vars
    PROVE  EnEspera(sDiscos') \subseteq EnEspera(sDiscos)
<1>0. /\ sDiscos \in [Pos -> Lugar] /\ cola \in [Pos -> EntradaCola] /\ 0 \in Pos
      /\ nComandos \in Nat
  BY NAssumption DEF InvTipos, TypeOK, TipoTablas, TipoControl, Pos
<1>. USE DEF tabla
<1>1. CASE UNCHANGED sDiscos
  BY <1>1
<1>2. ASSUME NEW e \in [Pos -> Lugar], NEW q \in [Pos -> EntradaCola],
             SincronizarDisco(e, q)
      PROVE  EnEspera(sDiscos') \subseteq EnEspera(e)
  <2>1. q[0].dest \in Pos
    BY <1>0 DEF EntradaCola
  <2>. QED BY <1>2, <2>1, NadieNuevoEnEspera DEF SincronizarDisco
<1>3. ASSUME NEW d \in Discos, HandshakeDisco(d)
      PROVE  EnEspera(sDiscos') \subseteq EnEspera(sDiscos)
  BY <1>0, <1>1, <1>3, NadieNuevoEnEspera
     DEF HandshakeDisco, HandshakeAceptado, HandshakeRechazado
<1>4. ASSUME NEW c \in Conexiones, AsociarHilo(c)
      PROVE  EnEspera(sDiscos') \subseteq EnEspera(sDiscos)
  BY <1>0, <1>1, <1>4, NadieNuevoEnEspera DEF AsociarHilo
<1>5. ASSUME NEW c \in Conexiones, Desconexion(c)
      PROVE  EnEspera(sDiscos') \subseteq EnEspera(sDiscos)
  BY <1>0, <1>1, <1>5, NadieNuevoEnEspera DEF Desconexion
<1>6. ASSUME NEW c \in Conexiones, RespuestaSincronizacion(c)
      PROVE  EnEspera(sDiscos') \subseteq EnEspera(sDiscos)
  <2>1. cola[0].dest \in Pos
    BY <1>0 DEF EntradaCola
  <2>2. \/ UNCHANGED sDiscos
        \/ sDiscos' = PonerEstado(sDiscos, cola[0].dest, "SINCRONIZADO")
    BY <1>6 DEF RespuestaSincronizacion, Continuar
  <2>. QED BY <1>0, <1>1, <2>1, <2>2, NadieNuevoEnEspera
<1>7. ASSUME NEW d \in Discos, ConsolaAgregar(d)
      PROVE  EnEspera(sDiscos') \subseteq EnEspera(sDiscos)
  <2>1. ASSUME NEW i \in Pos, AgregarPrimero(i)
        PROVE  EnEspera(sDiscos') \subseteq EnEspera(sDiscos)
    BY <1>0, <2>1, NadieNuevoEnEspera DEF AgregarPrimero
  <2>2. ASSUME NEW i \in Pos, NEW o \in Pos, AgregarSincroniza(i, o)
        PROVE  EnEspera(sDiscos') \subseteq EnEspera(sDiscos)
    <3>. DEFINE e == PonerEstado(sDiscos, i, "SINCRONIZANDO")
                entrada == [id |-> IdConsola, act |-> 0, orig |-> o, dest |-> i]
    <3>1. e \in [Pos -> Lugar] /\ EnEspera(e) \subseteq EnEspera(sDiscos)
      BY <1>0, TablaTipo, NadieNuevoEnEspera DEF EstadosDisco
    <3>2. CASE EnCurso
      BY <2>2, <3>1, <3>2 DEF AgregarSincroniza
    <3>3. CASE ~EnCurso
      <4>1. PICK k \in Pos : SincronizarDisco(e, Cargar(Correr(cola), k, entrada))
        BY <2>2, <3>3 DEF AgregarSincroniza
      <4>2. entrada \in EntradaCola
        BY <1>0 DEF EntradaCola, IdConsola, Ids
      <4>. HIDE DEF entrada, e
      <4>3. Cargar(Correr(cola), k, entrada) \in [Pos -> EntradaCola]
        BY <1>0, <4>2, CorrerEntradas DEF Cargar
      <4>. QED BY <1>2, <3>1, <4>1, <4>3
    <3>. QED BY <3>2, <3>3
  <2>. QED BY <1>1, <1>7, <2>1, <2>2 DEF ConsolaAgregar, AgregarNada
<1>8. ASSUME NEW d \in Discos, ConsolaEliminar(d)
      PROVE  EnEspera(sDiscos') \subseteq EnEspera(sDiscos)
  BY <1>0, <1>1, <1>8, NadieNuevoEnEspera DEF ConsolaEliminar
<1>9. CASE Cierre
  <2>1. UNCHANGED sDiscos \/ EnviarOtroASincronizar
    BY <1>9 DEF Cierre
  <2>2. CASE EnviarOtroASincronizar
    <3>. DEFINE q == IF EnCurso THEN cola ELSE Correr(cola)
    <3>1. q \in [Pos -> EntradaCola]
      BY <1>0, CorrerEntradas
    <3>2. UNCHANGED sDiscos \/ SincronizarDisco(sDiscos, q)
      BY <2>2 DEF EnviarOtroASincronizar
    <3>. QED BY <1>0, <1>1, <1>2, <3>1, <3>2
  <2>. QED BY <1>1, <2>1, <2>2
<1>10. CASE \E c \in Conexiones : \/ ProtocoloIncorrecto(c) \/ RespuestaDos(c)
                                  \/ RespuestaUno(c) \/ RespuestaPut(c) \/ HiloInicia(c)
                                  \/ DiscoAtiende(c) \/ DiscoCae(c)
  BY <1>1, <1>10 DEF ProtocoloIncorrecto, RespuestaDos, RespuestaUno, RespuestaPut,
                     HiloInicia, DiscoAtiende, DiscoCae
<1>11. CASE \/ ConsolaIniciar \/ ConsolaDetener \/ ConsolaEstado \/ ConsolaSalir
            \/ Vsk \/ SaleDelCiclo
  BY <1>1, <1>11 DEF ConsolaIniciar, ConsolaDetener, ConsolaEstado, ConsolaSalir, Vsk,
                     VskGet, VskPut, VskDesconecta, SaleDelCiclo
<1>12. CASE UNCHANGED vars
  BY <1>1, <1>12 DEF vars
<1>. QED BY <1>3, <1>4, <1>5, <1>6, <1>7, <1>8, <1>9, <1>10, <1>11, <1>12
         DEF Next, Respuesta, Consola

\* What each step does to the fields the invariant reads besides the table.
LEMMA ServicioPaso ==
    ASSUME [Next]_vars
    PROVE  /\ \/ estadoActual' = "FUNCIONAL" => estadoActual = "FUNCIONAL"
              \/ /\ SubestadoFueraDeServicio(sDiscos) \in Listo
                 /\ UNCHANGED sDiscos
           /\ cliente' => cliente \/ PideCliente
           /\ \/ UNCHANGED subestado
              \/ subestado' = MostrarEstado(sDiscos', estadoActual)
              \/ /\ subestado' = SubestadoFueraDeServicio(sDiscos)
                 /\ UNCHANGED sDiscos
              \/ /\ SubestadoFueraDeServicio(sDiscos) \in Listo
                 /\ UNCHANGED sDiscos
<1>. USE DEF tabla
<1>1. ASSUME NEW d \in Discos, HandshakeDisco(d) \/ ConsolaEliminar(d)
      PROVE  /\ UNCHANGED <<estadoActual, cliente>>
             /\ UNCHANGED subestado \/ subestado' = MostrarEstado(sDiscos', estadoActual)
  BY <1>1 DEF HandshakeDisco, ConsolaEliminar, Refrescar
<1>2. ASSUME NEW d \in Discos, ConsolaAgregar(d)
      PROVE  /\ UNCHANGED <<estadoActual, cliente>>
             /\ UNCHANGED subestado \/ subestado' = MostrarEstado(sDiscos', estadoActual)
  BY <1>2 DEF ConsolaAgregar, AgregarNada, AgregarPrimero, AgregarSincroniza, Refrescar
<1>3. ASSUME NEW c \in Conexiones, Respuesta(c) \/ HiloInicia(c) \/ DiscoAtiende(c) \/ DiscoCae(c)
      PROVE  /\ UNCHANGED <<estadoActual, cliente>>
             /\ UNCHANGED subestado \/ subestado' = MostrarEstado(sDiscos', estadoActual)
  <2>1. CASE RespuestaSincronizacion(c)
    BY <2>1 DEF RespuestaSincronizacion, Continuar, Refrescar
  <2>2. CASE AsociarHilo(c) \/ Desconexion(c)
    BY <2>2 DEF AsociarHilo, Desconexion, Refrescar
  <2>3. CASE ProtocoloIncorrecto(c) \/ RespuestaDos(c) \/ RespuestaUno(c) \/ RespuestaPut(c)
    BY <2>3 DEF ProtocoloIncorrecto, RespuestaDos, RespuestaUno, RespuestaPut
  <2>4. CASE HiloInicia(c) \/ DiscoAtiende(c) \/ DiscoCae(c)
    BY <2>4 DEF HiloInicia, DiscoAtiende, DiscoCae
  <2>. QED BY <1>3, <2>1, <2>2, <2>3, <2>4 DEF Respuesta
<1>4. CASE ConsolaIniciar
  BY <1>4 DEF ConsolaIniciar, Listo
<1>5. CASE ConsolaDetener
  BY <1>5 DEF ConsolaDetener
<1>6. CASE ConsolaEstado
  BY <1>6 DEF ConsolaEstado, Refrescar
<1>7. CASE Vsk \/ SaleDelCiclo \/ ConsolaSalir
  <2>1. ASSUME NEW par \in Pares, VskGet(par) \/ VskPut(par)
        PROVE  UNCHANGED <<estadoActual, subestado, cliente>>
    <3>1. CASE VskGet(par)
      BY <3>1 DEF VskGet
    <3>2. CASE VskPut(par)
      BY <3>2 DEF VskPut
    <3>. QED BY <2>1, <3>1, <3>2
  <2>2. CASE VskDesconecta \/ SaleDelCiclo \/ ConsolaSalir
    BY <2>2 DEF VskDesconecta, SaleDelCiclo, ConsolaSalir
  <2>. QED BY <1>7, <2>1, <2>2 DEF Vsk
<1>8. CASE Cierre
  BY <1>8 DEF Cierre
<1>9. CASE UNCHANGED vars
  BY <1>9 DEF vars
<1>10. CASE \/ \E d \in Discos : \/ HandshakeDisco(d) \/ ConsolaAgregar(d)
                                  \/ ConsolaEliminar(d)
            \/ \E c \in Conexiones :
                  Respuesta(c) \/ HiloInicia(c) \/ DiscoAtiende(c) \/ DiscoCae(c)
  BY <1>1, <1>2, <1>3, <1>10
<1>. QED BY <1>4, <1>5, <1>6, <1>7, <1>8, <1>9, <1>10 DEF Next, Consola

LEMMA EsperaPaso == InvTipos /\ InvEspera /\ [Next]_vars => InvEspera'
<1>. SUFFICES ASSUME InvTipos, InvEspera, [Next]_vars,
                     estadoActual' = "FUNCIONAL" \/ cliente' \/ subestado' \in Listo
              PROVE  EnEspera(sDiscos') = {}
  BY DEF InvEspera, EnEspera, EnEstado
<1>1. EnEspera(sDiscos') \subseteq EnEspera(sDiscos)
  BY EsperaNoCrece
<1>2. CASE EnEspera(sDiscos) = {}
  BY <1>1, <1>2
<1>3. CASE /\ estadoActual # "FUNCIONAL" /\ ~cliente /\ subestado \notin Listo
  <2>1. ~PideCliente
    BY <1>3 DEF PideCliente, Listo
  <2>2. CASE SubestadoFueraDeServicio(sDiscos) \in Listo
    BY <1>1, <2>2, FueraDeServicioListo
  <2>3. CASE SubestadoFueraDeServicio(sDiscos) \notin Listo
    <3>1. subestado' = MostrarEstado(sDiscos', estadoActual) /\ subestado' \in Listo
      BY <1>3, <2>1, <2>3, ServicioPaso
    <3>2. estadoActual = "FUERASERVICIO"
      BY <1>3 DEF InvTipos, TypeOK, TipoControl, EstadosArray
    <3>. QED BY <3>1, <3>2, FueraDeServicioListo DEF MostrarEstado
  <2>. QED BY <2>2, <2>3
<1>. QED BY <1>2, <1>3 DEF InvEspera

\* The array is put in service, and connects to the VSK, with no expected disk
\* missing, whatever disks came and went since the substate was computed.
THEOREM ServicioSinEspera == Spec => []EnServicioSinEspera
<1>1. Init => InvEspera
  BY FueraDeServicioListo DEF Init, InvEspera
<1>2. InvEspera => EnServicioSinEspera
  BY DEF InvEspera, EnServicioSinEspera
<1>. QED BY <1>1, <1>2, SpecTipos, EsperaPaso, PTL DEF Spec

-----------------------------------------------------------------------------
(* The queue of disks to synchronise: its entries are the first ones.         *)

Contigua(q) == \A i, j \in Pos : i < j /\ q[i].id = NULO => q[j].id = NULO

LEMMA CorrerContigua ==
    ASSUME NEW q \in [Pos -> EntradaCola],
           \A i, j \in Pos : 0 < i /\ i < j /\ q[i].id = NULO => q[j].id = NULO
    PROVE  Contigua(Correr(q))
<1>. SUFFICES ASSUME NEW i \in Pos, NEW j \in Pos, i < j, Correr(q)[i].id = NULO
              PROVE  Correr(q)[j].id = NULO
  BY DEF Contigua
<1>1. /\ i + 1 \in Pos /\ 0 < i + 1 /\ Correr(q)[i] = q[i + 1]
      /\ i + 1 < j + 1 /\ j \in Int /\ N \in Int
  BY NAssumption DEF Correr, Pos
<1>2. CASE j = N - 1
  <2>1. Correr(q)[j] = q[j] /\ (i + 1 = j \/ i + 1 < j)
    BY <1>1, <1>2 DEF Correr, Pos
  <2>. QED BY <1>1, <2>1
<1>3. CASE j # N - 1
  <2>1. Correr(q)[j] = q[j + 1] /\ j + 1 \in Pos
    BY <1>1, <1>3 DEF Correr, Pos
  <2>. QED BY <1>1, <2>1
<1>. QED BY <1>2, <1>3

LEMMA CargarContigua ==
    ASSUME NEW q \in [Pos -> EntradaCola], Contigua(q), NEW x, x.id # NULO,
           NEW k \in Pos, EsPrimero(k, Vacias(q))
    PROVE  Contigua(Cargar(q, k, x))
<1>1. \A i \in Pos : i < k => q[i].id # NULO
  BY NAssumption DEF EsPrimero, Vacias, Pos
<1>2. \A i \in Pos : Cargar(q, k, x)[i] = IF i = k THEN x ELSE q[i]
  BY DEF Cargar
<1>. QED BY <1>1, <1>2, NAssumption DEF Contigua, EsPrimero, Vacias, Pos

LEMMA ActContigua ==
    ASSUME NEW q \in [Pos -> EntradaCola], Contigua(q), NEW a \in Int
    PROVE  Contigua([q EXCEPT ![0].act = a])
<1>1. \A i \in Pos : [q EXCEPT ![0].act = a][i].id = q[i].id
  BY DEF EntradaCola
<1>. QED BY <1>1 DEF Contigua

LEMMA ColaPaso == InvTipos /\ ColaContigua /\ [Next]_vars => ColaContigua'
<1>. SUFFICES ASSUME InvTipos, Contigua(cola), [Next]_vars
              PROVE  Contigua(cola')
  BY DEF ColaContigua, Contigua
<1>0. /\ cola \in [Pos -> EntradaCola] /\ 0 \in Pos /\ 1 \in Int
      /\ nComandos \in Nat
      /\ \A i \in Pos : 0 <= i
  BY NAssumption DEF InvTipos, TypeOK, TipoTablas, TipoControl, Pos
<1>1. CASE UNCHANGED cola
  BY <1>1
<1>2. Correr(cola) \in [Pos -> EntradaCola] /\ Contigua(Correr(cola))
  BY <1>0, CorrerEntradas, CorrerContigua DEF Contigua
<1>3. ASSUME NEW e, NEW q \in [Pos -> EntradaCola], Contigua(q), SincronizarDisco(e, q)
      PROVE  Contigua(cola')
  BY <1>0, <1>3, ActContigua DEF SincronizarDisco
<1>4. ASSUME NEW d \in Discos, ConsolaAgregar(d)
      PROVE  Contigua(cola')
  <2>1. ASSUME NEW i \in Pos, NEW o \in Pos, AgregarSincroniza(i, o)
        PROVE  Contigua(cola')
    <3>. DEFINE entrada == [id |-> IdConsola, act |-> 0, orig |-> o, dest |-> i]
    <3>1. entrada \in EntradaCola /\ entrada.id # NULO
      BY <1>0, IdsAssumption DEF EntradaCola, IdConsola, Ids
    <3>2. CASE EnCurso
      <4>1. \/ UNCHANGED cola
            \/ \E k \in Pos : EsPrimero(k, Vacias(cola)) /\ cola' = Cargar(cola, k, entrada)
        BY <2>1, <3>2 DEF AgregarSincroniza, ColaLlena
      <4>. HIDE DEF entrada
      <4>. QED BY <1>0, <1>1, <3>1, <4>1, CargarContigua
    <3>3. CASE ~EnCurso
      <4>1. PICK k \in Pos :
                /\ EsPrimero(k, Vacias(Correr(cola)))
                /\ SincronizarDisco(PonerEstado(sDiscos, i, "SINCRONIZANDO"),
                                    Cargar(Correr(cola), k, entrada))
        BY <2>1, <3>3 DEF AgregarSincroniza
      <4>. HIDE DEF entrada
      <4>2. Contigua(Cargar(Correr(cola), k, entrada))
        BY <1>2, <3>1, <4>1, CargarContigua
      <4>3. Cargar(Correr(cola), k, entrada) \in [Pos -> EntradaCola]
        BY <1>2, <3>1 DEF Cargar
      <4>. QED BY <1>3, <4>1, <4>2, <4>3
    <3>. QED BY <3>2, <3>3
  <2>. QED BY <1>1, <1>4, <2>1 DEF ConsolaAgregar, AgregarNada, AgregarPrimero
<1>5. ASSUME NEW c \in Conexiones, RespuestaSincronizacion(c)
      PROVE  Contigua(cola')
  <2>. DEFINE avanza == [cola EXCEPT ![0].act = cola[0].act + 2]
              vacia == [avanza EXCEPT ![0].id = NULO]
  <2>1. cola' = avanza \/ cola' = Correr(vacia)
    BY <1>5 DEF RespuestaSincronizacion, Continuar
  <2>2. cola[0].act + 2 \in Int
    BY <1>0 DEF EntradaCola
  <2>3. avanza \in [Pos -> EntradaCola] /\ Contigua(avanza)
    <3>1. [cola[0] EXCEPT !.act = cola[0].act + 2] \in EntradaCola
      BY <1>0, <2>2 DEF EntradaCola
    <3>2. avanza \in [Pos -> EntradaCola]
      BY <1>0, <3>1
    <3>3. Contigua(avanza)
      BY <1>0, <2>2, ActContigua
    <3>. QED BY <3>2, <3>3
  <2>. HIDE DEF avanza
  <2>4. vacia \in [Pos -> EntradaCola]
    <3>1. [avanza[0] EXCEPT !.id = NULO] \in EntradaCola
      BY <1>0, <2>3 DEF EntradaCola
    <3>. QED BY <1>0, <2>3, <3>1 DEF EntradaCola
  <2>5. \A i \in Pos : i > 0 => vacia[i] = avanza[i]
    BY <2>3
  <2>6. \A i, j \in Pos : 0 < i /\ i < j /\ vacia[i].id = NULO => vacia[j].id = NULO
    BY <2>3, <2>5 DEF Contigua, Pos
  <2>. HIDE DEF vacia
  <2>. QED BY <2>1, <2>3, <2>4, <2>6, CorrerContigua
<1>6. CASE Cierre
  <2>1. UNCHANGED cola \/ EnviarOtroASincronizar
    BY <1>6 DEF Cierre
  <2>2. CASE EnviarOtroASincronizar
    <3>. DEFINE q == IF EnCurso THEN cola ELSE Correr(cola)
    <3>1. q \in [Pos -> EntradaCola] /\ Contigua(q)
      BY <1>0, <1>2
    <3>2. cola' = q \/ SincronizarDisco(sDiscos, q)
      BY <2>2 DEF EnviarOtroASincronizar
    <3>. HIDE DEF q
    <3>. QED BY <1>3, <3>1, <3>2
  <2>. QED BY <1>1, <2>1, <2>2
<1>7. CASE \/ \E d \in Discos : HandshakeDisco(d) \/ ConsolaEliminar(d)
           \/ \E c \in Conexiones : \/ AsociarHilo(c) \/ Desconexion(c)
                                     \/ ProtocoloIncorrecto(c) \/ RespuestaDos(c)
                                     \/ RespuestaUno(c) \/ RespuestaPut(c)
  BY <1>1, <1>7 DEF HandshakeDisco, ConsolaEliminar, AsociarHilo, Desconexion,
                    ProtocoloIncorrecto, RespuestaDos, RespuestaUno, RespuestaPut
<1>8. CASE \/ \E c \in Conexiones : HiloInicia(c) \/ DiscoAtiende(c) \/ DiscoCae(c)
           \/ ConsolaIniciar \/ ConsolaDetener \/ ConsolaEstado \/ ConsolaSalir
           \/ SaleDelCiclo
  BY <1>1, <1>8 DEF HiloInicia, DiscoAtiende, DiscoCae, ConsolaIniciar, ConsolaDetener,
                    ConsolaEstado, ConsolaSalir, SaleDelCiclo
<1>9. CASE Vsk
  BY <1>1, <1>9 DEF Vsk, VskGet, VskPut, VskDesconecta
<1>10. CASE UNCHANGED vars
  BY <1>1, <1>10 DEF vars
<1>. QED BY <1>4, <1>5, <1>6, <1>7, <1>8, <1>9, <1>10 DEF Next, Respuesta, Consola

\* The entries of the queue are always its first ones, whatever disks the
\* operator adds while others wait: a shift never loses one, and the test for
\* an empty entry 0 does tell that nothing is to be synchronised.
THEOREM ColaSinHuecos == Spec => []ColaContigua
<1>1. Init => ColaContigua
  BY DEF Init, ColaInicial, ColaContigua
<1>. QED BY <1>1, SpecTipos, ColaPaso, PTL DEF Spec

-----------------------------------------------------------------------------
(* The table of disks: one place for each disk, and the socket of a place     *)
(* leads to the disk it names.  The route is built in four steps (handshake,  *)
(* thread, HILO, association), so the invariant says what each of them leaves *)
(* for the next one.                                                          *)

\* A place with no name has no sockets, and asignarDisco may take it.
LugarLibre == \A i \in Pos :
    /\ sDiscos[i].nombre = NULO <=> sDiscos[i].disco = DISPONIBLE
    /\ sDiscos[i].nombre = NULO => sDiscos[i].hilo = DISPONIBLE

\* Nothing is known of a socket before its bridge exists.
LibreIntacta == \A c \in Conexiones : hilo[c].fase = "libre" =>
    deDisco[c] = <<>> /\ \A i \in Pos : sDiscos[i].hilo # c

\* The place a bridge will read its name from was not given away.
NuevaEnSuLugar == \A c \in Conexiones : hilo[c].fase = "nueva" =>
    sDiscos[hilo[c].pos].nombre \in {NULO, hilo[c].disco}

\* A bridge announces the disk it serves.
HiloDice(s, d) == \A k \in 1..Len(s) : s[k].t = "HILO" => s[k].nombre = d
HiloDiceSuDisco == \A c \in Conexiones : HiloDice(deDisco[c], hilo[c].disco)

InvTabla == /\ LugarLibre /\ NombresUnicos /\ RutaCorrecta
            /\ LibreIntacta /\ NuevaEnSuLugar /\ HiloDiceSuDisco

LEMMA HiloDiceCanal ==
    ASSUME NEW s \in Seq(DelDisco), NEW d, HiloDice(s, d)
    PROVE  /\ HiloDice(<<>>, d)
           /\ s # <<>> => HiloDice(Tail(s), d)
           /\ s # <<>> => HiloDice(<<[t |-> "BASURA"]>> \o Tail(s), d)
           /\ \A m : (m.t = "HILO" => m.nombre = d) => HiloDice(Append(s, m), d)
<1>1. HiloDice(<<>>, d)
  BY DEF HiloDice
<1>2. ASSUME s # <<>>
      PROVE  HiloDice(Tail(s), d)
  <2>1. /\ Tail(s) \in Seq(DelDisco) /\ Len(Tail(s)) = Len(s) - 1 /\ Len(s) \in Nat
        /\ \A k \in 1..Len(Tail(s)) : Tail(s)[k] = s[k + 1]
    BY <1>2
  <2>. QED BY <2>1 DEF HiloDice
<1>3. ASSUME s # <<>>
      PROVE  HiloDice(<<[t |-> "BASURA"]>> \o Tail(s), d)
  <2>. DEFINE b == [t |-> "BASURA"]
              r == <<b>> \o Tail(s)
  <2>1. /\ Len(r) = Len(Tail(s)) + 1 /\ Len(Tail(s)) \in Nat
        /\ r[1] = b
        /\ \A k \in 1..Len(r) : k > 1 => r[k] = Tail(s)[k - 1]
    BY <1>3
  <2>2. b.t # "HILO"
    OBVIOUS
  <2>. HIDE DEF b, r
  <2>3. HiloDice(r, d)
    BY <1>2, <1>3, <2>1, <2>2 DEF HiloDice
  <2>. QED BY <2>3 DEF r, b
<1>4. ASSUME NEW m, m.t = "HILO" => m.nombre = d
      PROVE  HiloDice(Append(s, m), d)
  <2>1. /\ Len(Append(s, m)) = Len(s) + 1 /\ Len(s) \in Nat
        /\ Append(s, m)[Len(s) + 1] = m
        /\ \A k \in 1..Len(s) : Append(s, m)[k] = s[k]
    OBVIOUS
  <2>. QED BY <1>4, <2>1 DEF HiloDice
<1>. QED BY <1>1, <1>2, <1>3, <1>4

\* What most steps do to the table: a place keeps its name and sockets or is
\* freed; a bridge does not start again; no new announcement is sent.
LugaresSiguen == \A i \in Pos :
    \/ sDiscos'[i] = LugarVacio
    \/ /\ sDiscos'[i].nombre = sDiscos[i].nombre
       /\ sDiscos'[i].disco = sDiscos[i].disco
       /\ sDiscos'[i].hilo = sDiscos[i].hilo

HilosSiguen == \A c \in Conexiones :
    /\ hilo'[c].disco = hilo[c].disco /\ hilo'[c].pos = hilo[c].pos
    /\ hilo'[c].fase \in {"libre", "nueva"} => hilo'[c].fase = hilo[c].fase

CanalesSiguen == \A c \in Conexiones :
    /\ HiloDice(deDisco[c], hilo[c].disco) => HiloDice(deDisco'[c], hilo[c].disco)
    /\ hilo[c].fase = "libre" /\ deDisco[c] = <<>> => deDisco'[c] = <<>>

LEMMA TablaSigue ==
    ASSUME InvTipos, InvTabla, LugaresSiguen, HilosSiguen, CanalesSiguen
    PROVE  InvTabla'
<1>1. /\ LugarVacio.nombre = NULO /\ LugarVacio.disco = DISPONIBLE
      /\ LugarVacio.hilo = DISPONIBLE /\ DISPONIBLE \notin Conexiones
  BY ValoresAssumption DEF LugarVacio
<1>2. LugarLibre'
  BY <1>1 DEF InvTabla, LugarLibre, LugaresSiguen
<1>3. NombresUnicos'
  BY <1>1 DEF InvTabla, NombresUnicos, LugaresSiguen
<1>4. RutaCorrecta'
  BY <1>1 DEF InvTabla, RutaCorrecta, LugaresSiguen, HilosSiguen
<1>5. LibreIntacta'
  BY <1>1 DEF InvTabla, LibreIntacta, LugaresSiguen, HilosSiguen, CanalesSiguen
<1>6. NuevaEnSuLugar'
  <2>1. \A c \in Conexiones : hilo[c].pos \in Pos
    BY DEF InvTipos, TypeOK, TipoHilos, Hilos
  <2>. QED BY <1>1, <2>1 DEF InvTabla, NuevaEnSuLugar, LugaresSiguen, HilosSiguen
<1>7. HiloDiceSuDisco'
  BY DEF InvTabla, HiloDiceSuDisco, HilosSiguen, CanalesSiguen
<1>. QED BY <1>2, <1>3, <1>4, <1>5, <1>6, <1>7 DEF InvTabla

LEMMA EstadoSigue ==
    ASSUME NEW e \in [Pos -> Lugar], NEW i \in Pos, NEW s
    PROVE  \A j \in Pos : /\ PonerEstado(e, i, s)[j].nombre = e[j].nombre
                          /\ PonerEstado(e, i, s)[j].disco = e[j].disco
                          /\ PonerEstado(e, i, s)[j].hilo = e[j].hilo
  BY DEF PonerEstado, Lugar

LEMMA HandshakeTabla ==
    ASSUME InvTipos, InvTabla, NEW d \in Discos, HandshakeDisco(d)
    PROVE  InvTabla'
<1>0. /\ sDiscos \in [Pos -> Lugar] /\ hilo \in [Conexiones -> Hilos]
      /\ UNCHANGED deDisco
  BY DEF InvTipos, TypeOK, TipoTablas, TipoHilos, HandshakeDisco
<1>1. CASE UNCHANGED <<sDiscos, hilo>>
  <2>1. LugaresSiguen /\ HilosSiguen /\ CanalesSiguen
    BY <1>0, <1>1 DEF LugaresSiguen, HilosSiguen, CanalesSiguen
  <2>. QED BY <2>1, TablaSigue
<1>2. ASSUME NEW c \in Conexiones, NEW i \in Pos,
             hilo[c].fase = "libre", HandshakeAceptado(d, c, i)
      PROVE  InvTabla'
  <2>0. /\ deDisco[c] = <<>> /\ \A j \in Pos : sDiscos[j].hilo # c
        /\ d # NULO /\ DISPONIBLE \notin Conexiones
    BY <1>2, ValoresAssumption DEF InvTabla, LibreIntacta
  <2>1. /\ sDiscos'[i].nombre = d /\ sDiscos'[i].disco = c
        /\ \A j \in Pos : sDiscos'[j].hilo = sDiscos[j].hilo
        /\ \A j \in Pos : j # i => sDiscos'[j] = sDiscos[j]
    BY <1>0, <1>2 DEF HandshakeAceptado, AsignarDisco, Lugar
  <2>2. /\ hilo'[c] = [fase |-> "nueva", pos |-> i, disco |-> d]
        /\ \A x \in Conexiones : x # c => hilo'[x] = hilo[x]
    BY <1>0, <1>2 DEF HandshakeAceptado
  <2>3. \A j \in Pos : j # i => sDiscos[j].nombre # d
    BY <1>2, <2>0 DEF HandshakeAceptado, EsAsignado, EsPrimero, Nombrados,
                      InvTabla, NombresUnicos
  <2>4. sDiscos[i].nombre = d \/ sDiscos[i].nombre = NULO
    BY <1>2 DEF HandshakeAceptado, EsAsignado, EsPrimero, Nombrados,
                Disponibles, InvTabla, LugarLibre
  <2>5. LugarLibre'
    BY <2>0, <2>1 DEF InvTabla, LugarLibre
  <2>6. NombresUnicos'
    BY <2>1, <2>3 DEF InvTabla, NombresUnicos
  <2>7. RutaCorrecta'
    <3>. SUFFICES ASSUME NEW j \in Pos, NEW x \in Conexiones, sDiscos'[j].hilo = x
                  PROVE  sDiscos'[j].nombre = hilo'[x].disco
      BY DEF RutaCorrecta
    <3>1. sDiscos[j].hilo = x /\ x # c /\ hilo'[x] = hilo[x]
      BY <2>0, <2>1, <2>2
    <3>2. sDiscos[j].nombre = hilo[x].disco
      BY <3>1 DEF InvTabla, RutaCorrecta
    <3>3. sDiscos[i].nombre = NULO => sDiscos[i].hilo # x
      BY <2>0 DEF InvTabla, LugarLibre
    <3>. QED BY <2>1, <2>4, <3>1, <3>2, <3>3
  <2>8. LibreIntacta'
    BY <1>0, <2>1, <2>2 DEF InvTabla, LibreIntacta
  <2>9. NuevaEnSuLugar'
    <3>. SUFFICES ASSUME NEW x \in Conexiones, hilo'[x].fase = "nueva"
                  PROVE  sDiscos'[hilo'[x].pos].nombre \in {NULO, hilo'[x].disco}
      BY DEF NuevaEnSuLugar
    <3>1. CASE x = c
      BY <2>1, <2>2, <3>1
    <3>2. CASE x # c
      <4>1. hilo'[x] = hilo[x] /\ hilo[x].pos \in Pos
        BY <1>0, <2>2, <3>2 DEF Hilos
      <4>2. hilo[x].pos = i => hilo[x].disco = d
        BY <1>2, <4>1 DEF HandshakeAceptado, Ocupable
      <4>3. sDiscos[hilo[x].pos].nombre \in {NULO, hilo[x].disco}
        BY <4>1 DEF InvTabla, NuevaEnSuLugar
      <4>. QED BY <2>1, <4>1, <4>2, <4>3
    <3>. QED BY <3>1, <3>2
  <2>10. HiloDiceSuDisco'
    <3>. SUFFICES ASSUME NEW x \in Conexiones
                  PROVE  HiloDice(deDisco'[x], hilo'[x].disco)
      BY DEF HiloDiceSuDisco
    <3>1. CASE x = c
      BY <1>0, <2>0, <3>1 DEF HiloDice
    <3>2. CASE x # c
      BY <1>0, <2>2, <3>2 DEF InvTabla, HiloDiceSuDisco
    <3>. QED BY <3>1, <3>2
  <2>. QED BY <2>5, <2>6, <2>7, <2>8, <2>9, <2>10 DEF InvTabla
<1>. QED BY <1>1, <1>2 DEF HandshakeDisco, HandshakeRechazado

LEMMA AsociarTabla ==
    ASSUME InvTipos, InvTabla, NEW c \in Conexiones, AsociarHilo(c)
    PROVE  InvTabla'
<1>. DEFINE d == Head(deDisco[c]).nombre
<1>0. /\ sDiscos \in [Pos -> Lugar] /\ hilo \in [Conexiones -> Hilos]
      /\ deDisco \in [Conexiones -> Seq(DelDisco)]
      /\ Llega(c, "HILO") /\ Recibir(c) /\ UNCHANGED hilo
  BY DEF InvTipos, TypeOK, TipoTablas, TipoHilos, AsociarHilo
<1>1. deDisco[c] # <<>> /\ Head(deDisco[c]).t = "HILO"
  BY <1>0 DEF Llega
<1>2. Head(deDisco[c]) = deDisco[c][1] /\ 1 \in 1..Len(deDisco[c])
  BY <1>0, <1>1
<1>3. hilo[c].disco = d
  BY <1>1, <1>2 DEF InvTabla, HiloDiceSuDisco, HiloDice
<1>4. HilosSiguen
  BY <1>0 DEF HilosSiguen
<1>5. CanalesSiguen
  <2>1. \A x \in Conexiones : deDisco'[x] = IF x = c THEN Tail(deDisco[c]) ELSE deDisco[x]
    BY <1>0 DEF Recibir
  <2>. QED BY <1>0, <1>1, <2>1, HiloDiceCanal DEF CanalesSiguen
<1>6. CASE UNCHANGED sDiscos
  <2>1. LugaresSiguen
    BY <1>6 DEF LugaresSiguen
  <2>. QED BY <1>4, <1>5, <2>1, TablaSigue
<1>7. ASSUME NEW i \in Pos, EsPrimero(i, Nombrados(sDiscos, d)),
             sDiscos' = AsociarSocketHilo(sDiscos, c, i)
      PROVE  InvTabla'
  <2>1. /\ sDiscos[i].nombre = d /\ sDiscos[i].nombre # NULO
    <3>1. d \in Discos
      BY <1>0, RecibidoTipo, ClaseMensaje
    <3>. QED BY <1>7, <3>1, ValoresAssumption DEF EsPrimero, Nombrados
  <2>. HIDE DEF d
  <2>2. /\ \A j \in Pos : sDiscos'[j].nombre = sDiscos[j].nombre
        /\ \A j \in Pos : sDiscos'[j].disco = sDiscos[j].disco
        /\ \A j \in Pos : j # i => sDiscos'[j].hilo = sDiscos[j].hilo
        /\ sDiscos'[i].hilo = c
    BY <1>0, <1>7 DEF AsociarSocketHilo, Lugar
  <2>3. hilo[c].fase # "libre"
    BY <1>1 DEF InvTabla, LibreIntacta
  <2>4. LugarLibre'
    BY <2>1, <2>2 DEF InvTabla, LugarLibre
  <2>5. NombresUnicos'
    BY <2>2 DEF InvTabla, NombresUnicos
  <2>6. RutaCorrecta'
    BY <1>0, <1>3, <2>1, <2>2 DEF InvTabla, RutaCorrecta
  <2>7. LibreIntacta'
    BY <1>0, <1>5, <2>2, <2>3 DEF InvTabla, LibreIntacta, CanalesSiguen
  <2>8. NuevaEnSuLugar'
    BY <1>0, <2>2 DEF InvTabla, NuevaEnSuLugar, Hilos
  <2>9. HiloDiceSuDisco'
    BY <1>0, <1>5 DEF InvTabla, HiloDiceSuDisco, CanalesSiguen
  <2>. QED BY <2>4, <2>5, <2>6, <2>7, <2>8, <2>9 DEF InvTabla
<1>. QED BY <1>6, <1>7 DEF AsociarHilo

LEMMA IniciaTabla ==
    ASSUME InvTipos, InvTabla, NEW c \in Conexiones, HiloInicia(c)
    PROVE  InvTabla'
<1>. DEFINE n == sDiscos[hilo[c].pos].nombre
            m == [t |-> "HILO", nombre |-> n]
<1>0. /\ sDiscos \in [Pos -> Lugar] /\ hilo \in [Conexiones -> Hilos]
      /\ deDisco \in [Conexiones -> Seq(DelDisco)]
      /\ hilo[c].fase = "nueva" /\ UNCHANGED sDiscos
  BY DEF InvTipos, TypeOK, TipoTablas, TipoHilos, HiloInicia, tabla
<1>1. LugaresSiguen
  BY <1>0 DEF LugaresSiguen
<1>2. CASE UNCHANGED <<hilo, deDisco>>
  <2>1. HilosSiguen /\ CanalesSiguen
    BY <1>2 DEF HilosSiguen, CanalesSiguen
  <2>. QED BY <1>1, <2>1, TablaSigue
<1>3. CASE /\ n # NULO
           /\ hilo' = [hilo EXCEPT ![c].fase = "activa"]
           /\ Contestar(c, m)
  <2>1. n = hilo[c].disco
    BY <1>0, <1>3 DEF InvTabla, NuevaEnSuLugar
  <2>2. HilosSiguen
    BY <1>0, <1>3 DEF HilosSiguen, Hilos
  <2>3. m.nombre = hilo[c].disco
    BY <2>1
  <2>. HIDE DEF m
  <2>4. \A x \in Conexiones :
            deDisco'[x] = IF x = c THEN Append(deDisco[c], m) ELSE deDisco[x]
    BY <1>0, <1>3 DEF Contestar
  <2>5. CanalesSiguen
    BY <1>0, <2>3, <2>4, HiloDiceCanal DEF CanalesSiguen
  <2>. QED BY <1>1, <2>2, <2>5, TablaSigue
<1>. QED BY <1>2, <1>3 DEF HiloInicia

\* The main thread reads from a socket, or closes it, and the table of disks
\* changes as LugaresSiguen allows.
LEMMA RespuestaTabla ==
    ASSUME InvTipos, InvTabla, NEW c \in Conexiones,
           Respuesta(c), ~AsociarHilo(c)
    PROVE  InvTabla'
<1>0. /\ sDiscos \in [Pos -> Lugar] /\ hilo \in [Conexiones -> Hilos]
      /\ deDisco \in [Conexiones -> Seq(DelDisco)]
      /\ cola[0].dest \in Pos
  <2>1. 0 \in Pos /\ cola \in [Pos -> EntradaCola]
    BY NAssumption DEF InvTipos, TypeOK, TipoTablas, Pos
  <2>2. cola[0].dest \in Pos
    BY <2>1 DEF EntradaCola
  <2>. QED BY <2>2 DEF InvTipos, TypeOK, TipoTablas, TipoHilos
<1>1. deDisco[c] # <<>>
  BY DEF Respuesta, AsociarHilo, Desconexion, ProtocoloIncorrecto, RespuestaSincronizacion,
         RespuestaDos, RespuestaUno, RespuestaPut, Llega
<1>2. CanalesSiguen
  <2>1. Recibir(c) \/ SinLeer(c) \/ deDisco' = [deDisco EXCEPT ![c] = <<>>]
    BY DEF Respuesta, AsociarHilo, Desconexion, ProtocoloIncorrecto,
           RespuestaSincronizacion, RespuestaDos, RespuestaUno, RespuestaPut
  <2>. DEFINE b == <<[t |-> "BASURA"]>> \o Tail(deDisco[c])
  <2>2. \/ deDisco'[c] = Tail(deDisco[c]) \/ deDisco'[c] = b \/ deDisco'[c] = <<>>
    BY <1>0, <2>1 DEF Recibir, SinLeer
  <2>3. \A x \in Conexiones : x # c => deDisco'[x] = deDisco[x]
    BY <1>0, <2>1 DEF Recibir, SinLeer
  <2>4. ASSUME HiloDice(deDisco[c], hilo[c].disco)
        PROVE  HiloDice(deDisco'[c], hilo[c].disco)
    <3>1. deDisco[c] \in Seq(DelDisco)
      BY <1>0
    <3>2. /\ HiloDice(<<>>, hilo[c].disco)
          /\ HiloDice(Tail(deDisco[c]), hilo[c].disco)
          /\ HiloDice(b, hilo[c].disco)
      BY <1>1, <2>4, <3>1, HiloDiceCanal
    <3>. HIDE DEF b
    <3>. QED BY <2>2, <3>2
  <2>. QED BY <1>1, <2>3, <2>4 DEF CanalesSiguen
<1>3. HilosSiguen
  <2>1. UNCHANGED hilo \/ hilo' = [hilo EXCEPT ![c].fase = "cerrada"]
    BY DEF Respuesta, AsociarHilo, Desconexion, ProtocoloIncorrecto,
           RespuestaSincronizacion, RespuestaDos, RespuestaUno, RespuestaPut
  <2>. QED BY <1>0, <2>1 DEF HilosSiguen, Hilos
<1>4. LugaresSiguen
  <2>1. CASE UNCHANGED sDiscos
    BY <2>1 DEF LugaresSiguen
  <2>2. CASE \E i \in Pos : sDiscos' = DesconectarLugar(sDiscos, i)
    BY <1>0, <2>2 DEF DesconectarLugar, LugaresSiguen
  <2>3. CASE sDiscos' = PonerEstado(sDiscos, cola[0].dest, "SINCRONIZADO")
    BY <1>0, <2>3, EstadoSigue DEF LugaresSiguen
  <2>. QED BY <2>1, <2>2, <2>3
           DEF Respuesta, AsociarHilo, Desconexion, ProtocoloIncorrecto,
               RespuestaSincronizacion, Continuar, RespuestaDos, RespuestaUno,
               RespuestaPut, tabla
<1>. QED BY <1>2, <1>3, <1>4, TablaSigue

\* A disk serves a request, or goes away.
LEMMA DiscoTabla ==
    ASSUME InvTipos, InvTabla, NEW c \in Conexiones, DiscoAtiende(c) \/ DiscoCae(c)
    PROVE  InvTabla'
<1>0. /\ sDiscos \in [Pos -> Lugar] /\ hilo \in [Conexiones -> Hilos]
      /\ deDisco \in [Conexiones -> Seq(DelDisco)] /\ UNCHANGED sDiscos
  BY DEF InvTipos, TypeOK, TipoTablas, TipoHilos, DiscoAtiende, DiscoCae, tabla
<1>1. LugaresSiguen
  BY <1>0 DEF LugaresSiguen
<1>2. HilosSiguen
  <2>1. UNCHANGED hilo \/ hilo' = [hilo EXCEPT ![c].fase = "rota"]
    BY DEF DiscoAtiende, DiscoCae
  <2>. QED BY <1>0, <2>1 DEF HilosSiguen, Hilos
<1>3. CanalesSiguen
  <2>1. CASE UNCHANGED deDisco
    BY <2>1 DEF CanalesSiguen
  <2>2. ASSUME NEW m, m.t # "HILO", Contestar(c, m), hilo[c].fase = "activa"
        PROVE  CanalesSiguen
    <3>1. \A x \in Conexiones :
              deDisco'[x] = IF x = c THEN Append(deDisco[c], m) ELSE deDisco[x]
      BY <1>0, <2>2 DEF Contestar
    <3>. QED BY <1>0, <2>2, <3>1, HiloDiceCanal DEF CanalesSiguen
  <2>3. \A x, s : Servir(x, s).t # "HILO"
    BY DEF Servir
  <2>4. CASE DiscoAtiende(c)
    BY <2>1, <2>2, <2>3, <2>4 DEF DiscoAtiende
  <2>5. CASE DiscoCae(c)
    <3>. DEFINE m == [t |-> "EOF"]
    <3>1. m.t # "HILO" /\ Contestar(c, m) /\ hilo[c].fase = "activa"
      BY <2>5 DEF DiscoCae
    <3>. QED BY <2>2, <3>1
  <2>. QED BY <2>4, <2>5
<1>. QED BY <1>1, <1>2, <1>3, TablaSigue

\* A synchronisation that starts changes a state and nothing else.
LEMMA SincronizarSigue ==
    ASSUME NEW e \in [Pos -> Lugar], NEW q \in [Pos -> EntradaCola],
           SincronizarDisco(e, q)
    PROVE  \A j \in Pos : /\ sDiscos'[j].nombre = e[j].nombre
                          /\ sDiscos'[j].disco = e[j].disco
                          /\ sDiscos'[j].hilo = e[j].hilo
<1>1. q[0].dest \in Pos /\ sDiscos' = PonerEstado(e, q[0].dest, "SINCRONIZANDO")
  BY NAssumption DEF SincronizarDisco, EntradaCola, Pos
<1>. QED BY <1>1, EstadoSigue

LEMMA ConsolaTabla ==
    ASSUME InvTipos, InvTabla, NEW d \in Discos, ConsolaAgregar(d) \/ ConsolaEliminar(d)
    PROVE  InvTabla'
<1>0. /\ sDiscos \in [Pos -> Lugar] /\ hilo \in [Conexiones -> Hilos]
      /\ deDisco \in [Conexiones -> Seq(DelDisco)]
      /\ cola \in [Pos -> EntradaCola] /\ nComandos \in Nat
  BY DEF InvTipos, TypeOK, TipoTablas, TipoHilos, TipoControl
<1>1. CASE ConsolaAgregar(d)
  <2>1. HilosSiguen /\ CanalesSiguen
    BY <1>1 DEF ConsolaAgregar, HilosSiguen, CanalesSiguen
  <2>2. ASSUME NEW i \in Pos, NEW o \in Pos, AgregarSincroniza(i, o)
        PROVE  LugaresSiguen
    <3>. DEFINE e == PonerEstado(sDiscos, i, "SINCRONIZANDO")
                x == [id |-> IdConsola, act |-> 0, orig |-> o, dest |-> i]
    <3>1. x \in EntradaCola /\ e \in [Pos -> Lugar]
      BY <1>0, TablaTipo DEF EntradaCola, IdConsola, Ids, EstadosDisco
    <3>2. \A j \in Pos : /\ e[j].nombre = sDiscos[j].nombre
                         /\ e[j].disco = sDiscos[j].disco
                         /\ e[j].hilo = sDiscos[j].hilo
      BY <1>0 DEF PonerEstado, Lugar
    <3>3. \/ sDiscos' = e
          \/ \E k \in Pos : SincronizarDisco(e, Cargar(Correr(cola), k, x))
      BY <2>2 DEF AgregarSincroniza
    <3>. HIDE DEF e, x
    <3>4. \A k \in Pos : Cargar(Correr(cola), k, x) \in [Pos -> EntradaCola]
      BY <1>0, <3>1, CorrerEntradas DEF Cargar
    <3>. QED BY <3>1, <3>2, <3>3, <3>4, SincronizarSigue DEF LugaresSiguen
  <2>3. ASSUME NEW i \in Pos, sDiscos' = PonerEstado(sDiscos, i, "SINCRONIZADO")
        PROVE  LugaresSiguen
    BY <1>0, <2>3, EstadoSigue DEF LugaresSiguen
  <2>4. UNCHANGED sDiscos => LugaresSiguen
    BY DEF LugaresSiguen
  <2>5. LugaresSiguen
    BY <1>1, <2>2, <2>3, <2>4 DEF ConsolaAgregar, AgregarNada, AgregarPrimero, tabla
  <2>. QED BY <2>1, <2>5, TablaSigue
<1>2. CASE ConsolaEliminar(d)
  <2>1. CASE UNCHANGED <<sDiscos, hilo, deDisco>>
    <3>1. LugaresSiguen /\ HilosSiguen /\ CanalesSiguen
      BY <2>1 DEF LugaresSiguen, HilosSiguen, CanalesSiguen
    <3>. QED BY <3>1, TablaSigue
  <2>2. ASSUME NEW i \in Pos, sDiscos' = DesconectarLugar(sDiscos, i),
               \/ UNCHANGED <<hilo, deDisco>>
               \/ \E c \in Conexiones : EliminaPuente(c)
        PROVE  InvTabla'
    <3>1. LugaresSiguen
      BY <1>0, <2>2 DEF DesconectarLugar, LugaresSiguen
    <3>2. HilosSiguen
      <4>1. \/ UNCHANGED hilo
            \/ \E c \in Conexiones : hilo' = [hilo EXCEPT ![c].fase = "cerrada"]
        BY <2>2 DEF EliminaPuente
      <4>. QED BY <1>0, <4>1 DEF HilosSiguen, Hilos
    <3>3. CanalesSiguen
      BY <1>0, <2>2, HiloDiceCanal DEF EliminaPuente, CanalesSiguen
    <3>. QED BY <3>1, <3>2, <3>3, TablaSigue
  <2>. QED BY <1>2, <2>1, <2>2 DEF ConsolaEliminar, canales
<1>. QED BY <1>1, <1>2

LEMMA CierreTabla ==
    ASSUME InvTipos, InvTabla, Cierre
    PROVE  InvTabla'
<1>0. /\ sDiscos \in [Pos -> Lugar] /\ cola \in [Pos -> EntradaCola]
  BY DEF InvTipos, TypeOK, TipoTablas
<1>1. HilosSiguen /\ CanalesSiguen
  BY DEF Cierre, HilosSiguen, CanalesSiguen
<1>2. UNCHANGED sDiscos => LugaresSiguen
  BY DEF LugaresSiguen
<1>3. ASSUME EnviarOtroASincronizar
      PROVE  LugaresSiguen
  <2>. DEFINE q == IF EnCurso THEN cola ELSE Correr(cola)
  <2>1. q \in [Pos -> EntradaCola]
    BY <1>0, CorrerEntradas
  <2>2. UNCHANGED sDiscos \/ SincronizarDisco(sDiscos, q)
    BY <1>3 DEF EnviarOtroASincronizar
  <2>. HIDE DEF q
  <2>. QED BY <1>0, <2>1, <2>2, SincronizarSigue DEF LugaresSiguen
<1>4. LugaresSiguen
  BY <1>2, <1>3 DEF Cierre
<1>. QED BY <1>1, <1>4, TablaSigue

LEMMA TablaPaso == InvTipos /\ InvTabla /\ [Next]_vars => InvTabla'
<1>. SUFFICES ASSUME InvTipos, InvTabla, [Next]_vars
              PROVE  InvTabla'
  OBVIOUS
<1>1. ASSUME UNCHANGED <<sDiscos, hilo, deDisco>>
      PROVE  InvTabla'
  <2>1. LugaresSiguen /\ HilosSiguen /\ CanalesSiguen
    BY <1>1 DEF LugaresSiguen, HilosSiguen, CanalesSiguen
  <2>. QED BY <2>1, TablaSigue
<1>2. CASE \/ ConsolaIniciar \/ ConsolaDetener \/ ConsolaEstado \/ ConsolaSalir
           \/ SaleDelCiclo
  <2>1. UNCHANGED <<sDiscos, hilo, deDisco>>
    BY <1>2 DEF ConsolaIniciar, ConsolaDetener, ConsolaEstado, ConsolaSalir,
                SaleDelCiclo, tabla, canales
  <2>. QED BY <1>1, <2>1
<1>3. CASE Vsk
  <2>1. ASSUME NEW par \in Pares, VskGet(par) \/ VskPut(par)
        PROVE  UNCHANGED <<sDiscos, hilo, deDisco>>
    <3>1. CASE VskGet(par)
      BY <3>1 DEF VskGet, tabla
    <3>2. CASE VskPut(par)
      BY <3>2 DEF VskPut, tabla
    <3>. QED BY <2>1, <3>1, <3>2
  <2>2. VskDesconecta => UNCHANGED <<sDiscos, hilo, deDisco>>
    BY DEF VskDesconecta, tabla, canales
  <2>. QED BY <1>1, <1>3, <2>1, <2>2 DEF Vsk
<1>4. CASE UNCHANGED vars
  BY <1>1, <1>4 DEF vars
<1>5. CASE Cierre
  BY <1>5, CierreTabla
<1>6. CASE \E d \in Discos : HandshakeDisco(d) \/ ConsolaAgregar(d) \/ ConsolaEliminar(d)
  BY <1>6, HandshakeTabla, ConsolaTabla
<1>7. CASE \E c \in Conexiones :
              Respuesta(c) \/ HiloInicia(c) \/ DiscoAtiende(c) \/ DiscoCae(c)
  BY <1>7, AsociarTabla, RespuestaTabla, IniciaTabla, DiscoTabla
<1>. QED BY <1>2, <1>3, <1>4, <1>5, <1>6, <1>7 DEF Next, Consola

LEMMA TablaInicial == Init => InvTabla
<1>. SUFFICES ASSUME Init
              PROVE  InvTabla
  OBVIOUS
<1>0. /\ sDiscos = RespaldarLista
      /\ \A c \in Conexiones : hilo[c].fase = "libre" /\ deDisco[c] = <<>>
  BY DEF Init
<1>1. \A i \in Pos : i < Len(Esperados) =>
         /\ sDiscos[i].nombre = Esperados[Len(Esperados) - i]
         /\ sDiscos[i].nombre \in Discos
         /\ sDiscos[i].disco = RESERVADO /\ sDiscos[i].hilo = RESERVADO
  BY <1>0, EsperadosAssumption, NAssumption DEF RespaldarLista, Pos
<1>2. \A i \in Pos : ~(i < Len(Esperados)) =>
         /\ sDiscos[i].nombre = NULO
         /\ sDiscos[i].disco = DISPONIBLE /\ sDiscos[i].hilo = DISPONIBLE
  BY <1>0 DEF RespaldarLista, LugarVacio
<1>3. LugarLibre
  BY <1>1, <1>2, ValoresAssumption DEF LugarLibre
<1>4. NombresUnicos
  <2>. SUFFICES ASSUME NEW i \in Pos, NEW j \in Pos, sDiscos[i].nombre # NULO,
                       sDiscos[i].nombre = sDiscos[j].nombre
                PROVE  i = j
    BY DEF NombresUnicos
  <2>1. i < Len(Esperados) /\ j < Len(Esperados)
    BY <1>2
  <2>2. Esperados[Len(Esperados) - i] = Esperados[Len(Esperados) - j]
    BY <1>1, <2>1
  <2>3. /\ Len(Esperados) - i \in 1..Len(Esperados)
        /\ Len(Esperados) - j \in 1..Len(Esperados)
        /\ Len(Esperados) \in Nat /\ i \in Int /\ j \in Int
    BY <2>1, EsperadosAssumption, NAssumption DEF Pos
  <2>4. Len(Esperados) - i = Len(Esperados) - j
    BY <2>2, <2>3, EsperadosAssumption
  <2>. QED BY <2>3, <2>4
<1>5. \A i \in Pos : sDiscos[i].hilo \notin Conexiones
  BY <1>1, <1>2, ValoresAssumption
<1>6. RutaCorrecta /\ LibreIntacta
  BY <1>0, <1>5 DEF RutaCorrecta, LibreIntacta
<1>7. NuevaEnSuLugar
  BY <1>0 DEF NuevaEnSuLugar
<1>8. HiloDiceSuDisco
  BY <1>0 DEF HiloDiceSuDisco, HiloDice
<1>. QED BY <1>3, <1>4, <1>6, <1>7, <1>8 DEF InvTabla

\* A disk never has two places, however often it comes back under its name and
\* whichever places were freed meanwhile.
THEOREM UnLugarPorDisco == Spec => []NombresUnicos
<1>1. InvTabla => NombresUnicos
  BY DEF InvTabla
<1>. QED BY <1>1, TablaInicial, SpecTipos, TablaPaso, PTL DEF Spec

\* What is sent to a place reaches the disk it names, or no one: reads, writes
\* and synchronisations never cross over to another disk.
THEOREM RutaSegura == Spec => []RutaCorrecta
<1>1. InvTabla => RutaCorrecta
  BY DEF InvTabla
<1>. QED BY <1>1, TablaInicial, SpecTipos, TablaPaso, PTL DEF Spec

=============================================================================

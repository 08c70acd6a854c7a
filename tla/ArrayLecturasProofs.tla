------------------------ MODULE ArrayLecturasProofs ------------------------
(***************************************************************************)
(* Proofs about the reads of the VSK in the ARRAY process: each answer     *)
(* carries the two sectors its read asked for, each in its half, and no    *)
(* half comes back to a table that does not wait for it.                   *)
(***************************************************************************)
EXTENDS ArraySincProofs

-----------------------------------------------------------------------------
(* What an answer of synchronisation is taken for: the ids of the queue are   *)
(* of the console, whatever was in its memory, so the copy of a disk takes no *)
(* answer of a read and asks for none.                                        *)

LEMMA CorrerConsola ==
    ASSUME NEW q, DeConsola(q)
    PROVE  DeConsola(Correr(q))
<1>. SUFFICES ASSUME NEW i \in Pos
              PROVE  \E j \in Pos : Correr(q)[i] = q[j]
  BY DEF DeConsola
<1>1. CASE i = N - 1
  BY <1>1 DEF Correr
<1>2. CASE i # N - 1
  <2>1. i + 1 \in Pos /\ Correr(q)[i] = q[i + 1]
    BY <1>2, NAssumption DEF Correr, Pos
  <2>. QED BY <2>1
<1>. QED BY <1>1, <1>2

LEMMA CargarConsola ==
    ASSUME NEW q \in [Pos -> EntradaCola], DeConsola(q), nComandos \in Nat,
           NEW k \in Pos, NEW o \in Pos, NEW i \in Pos
    PROVE  LET x == [id |-> IdConsola, act |-> 0, orig |-> o, dest |-> i] IN
           Cargar(q, k, x) \in [Pos -> EntradaCola] /\ DeConsola(Cargar(q, k, x))
<1>1. PICK x : x = [id |-> IdConsola, act |-> 0, orig |-> o, dest |-> i]
  OBVIOUS
<1>2. x \in EntradaCola /\ x.id[1] = "consola"
  <2>1. IdConsola \in Ids /\ IdConsola[1] = "consola"
    BY DEF IdConsola, Ids
  <2>. QED BY <1>1, <2>1 DEF EntradaCola
<1>3. Cargar(q, k, x) \in [Pos -> EntradaCola] /\ DeConsola(Cargar(q, k, x))
  BY <1>2 DEF Cargar, DeConsola
<1>. QED BY <1>1, <1>3

LEMMA EmpezarConsola ==
    ASSUME NEW q \in [Pos -> EntradaCola], DeConsola(q), NEW e, SincronizarDisco(e, q)
    PROVE  DeConsola(cola')
<1>1. cola' = [q EXCEPT ![0].act = 1]
  BY DEF SincronizarDisco
<1>2. \A j \in Pos : cola'[j].id = q[j].id
  BY <1>1 DEF EntradaCola
<1>. QED BY <1>2 DEF DeConsola

LEMMA ConsolaPaso ==
    ASSUME InvTipos, DeConsola(cola), [Next]_vars
    PROVE  DeConsola(cola')
<1>0. cola \in [Pos -> EntradaCola] /\ 0 \in Pos /\ nComandos \in Nat
  BY NAssumption DEF InvTipos, TypeOK, TipoTablas, TipoControl, Pos
<1>1. CASE UNCHANGED cola
  BY <1>1
<1>2. CASE Callado \/ \E par \in Pares : VskGet(par) \/ VskPut(par)
  BY <1>1, <1>2
     DEF Callado, HandshakeDisco, ConsolaEliminar, AsociarHilo, Desconexion,
         ProtocoloIncorrecto, RespuestaDos, RespuestaUno, RespuestaPut, HiloInicia, DiscoCae,
         ConsolaIniciar, ConsolaDetener, ConsolaEstado, ConsolaSalir, VskDesconecta,
         SaleDelCiclo, vars, VskGet, VskPut
<1>3. ASSUME NEW d \in Discos, ConsolaAgregar(d)
      PROVE  DeConsola(cola')
  <2>1. ASSUME NEW i \in Pos, NEW o \in Pos, AgregarSincroniza(i, o)
        PROVE  DeConsola(cola')
    <3>1. PICK x : x = [id |-> IdConsola, act |-> 0, orig |-> o, dest |-> i]
      OBVIOUS
    <3>2. \A q \in [Pos -> EntradaCola] : DeConsola(q) => \A k \in Pos :
              Cargar(q, k, x) \in [Pos -> EntradaCola] /\ DeConsola(Cargar(q, k, x))
      BY <1>0, <3>1, CargarConsola
    <3>3. CASE EnCurso
      <4>1. UNCHANGED cola \/ \E k \in Pos : cola' = Cargar(cola, k, x)
        BY <2>1, <3>1, <3>3 DEF AgregarSincroniza, ColaLlena
      <4>. QED BY <1>0, <1>1, <3>2, <4>1
    <3>4. CASE ~EnCurso
      <4>1. PICK k \in Pos :
               SincronizarDisco(PonerEstado(sDiscos, i, "SINCRONIZANDO"),
                                Cargar(Correr(cola), k, x))
        BY <2>1, <3>1, <3>4 DEF AgregarSincroniza
      <4>2. /\ Cargar(Correr(cola), k, x) \in [Pos -> EntradaCola]
            /\ DeConsola(Cargar(Correr(cola), k, x))
        BY <1>0, <3>2, CorrerEntradas, CorrerConsola
      <4>. QED BY <4>1, <4>2, EmpezarConsola
    <3>. QED BY <3>3, <3>4
  <2>. QED BY <1>1, <1>3, <2>1 DEF ConsolaAgregar, AgregarNada, AgregarPrimero
<1>4. CASE Cierre
  <2>1. PICK q : q = IF EnCurso THEN cola ELSE Correr(cola)
    OBVIOUS
  <2>2. q \in [Pos -> EntradaCola] /\ DeConsola(q)
    BY <1>0, <2>1, CorrerEntradas, CorrerConsola
  <2>3. cola' = cola \/ cola' = q \/ SincronizarDisco(sDiscos, q)
    BY <1>4, <2>1 DEF Cierre, EnviarOtroASincronizar
  <2>. QED BY <2>2, <2>3, EmpezarConsola
<1>5. ASSUME NEW c \in Conexiones, RespuestaSincronizacion(c)
      PROVE  DeConsola(cola')
  <2>1. PICK z : z = [cola EXCEPT ![0].act = cola[0].act + 2]
    OBVIOUS
  <2>2. PICK y : y = [z EXCEPT ![0].id = NULO]
    OBVIOUS
  <2>3. cola' = z \/ cola' = Correr(y)
    BY <1>5, <2>1, <2>2 DEF RespuestaSincronizacion, Continuar
  <2>4. \A j \in Pos : z[j].id = cola[j].id
    BY <1>0, <2>1 DEF EntradaCola
  <2>5. \A j \in Pos : y[j].id = NULO \/ y[j].id = z[j].id
    BY <1>0, <2>1, <2>2 DEF EntradaCola
  <2>6. DeConsola(z) /\ DeConsola(y)
    BY <2>4, <2>5 DEF DeConsola
  <2>. QED BY <2>3, <2>6, CorrerConsola
<1>6. CASE \E c \in Conexiones : DiscoAtiende(c)
  BY <1>1, <1>6 DEF DiscoAtiende
<1>. QED BY <1>2, <1>3, <1>4, <1>5, <1>6 DEF Next, Respuesta, Consola, Vsk, Callado

-----------------------------------------------------------------------------
(* A buffer that was never filled reaches no disk and no answer.              *)

Lleno(m) == /\ m.t \in {"PUT", "RTA", "RTAb"} => m.d1 \in Contenidos
            /\ m.t \in {"PUT", "RTA"} => m.d2 \in Contenidos

CanalesLlenos ==
    \A p \in Clases, c \in Conexiones, v \in Sentidos, k \in Nat :
        Trae(c, v, k) /\ De(Canal(c, v)[k], p) => Lleno(Canal(c, v)[k])

DatosLlenos == \A d \in Discos, s \in Sectores : datos[d][s] \in Contenidos

Llenos == CanalesLlenos /\ DatosLlenos

\* What a synchronisation sends.
SoloDeConsola(f) == \A c \in Conexiones : \A k \in 1..Len(f[c]) :
    f[c][k].id[1] = "consola" /\ Lleno(f[c][k])

EnviaSinc == \/ UNCHANGED aDisco
             \/ \E f \in [Conexiones -> Seq(AlDisco)] :
                   SoloDeConsola(f) /\ \E sigue : Enviar(f, sigue)

LEMMA EmpezarEnvia ==
    ASSUME NEW q \in [Pos -> EntradaCola], DeConsola(q), q[0].id # NULO,
           NEW e, SincronizarDisco(e, q)
    PROVE  EnviaSinc
<1>0. 0 \in Pos /\ 0 \in Sectores /\ 1 \in Sectores
  BY NAssumption, TotalAssumption DEF Pos, Sectores
<1>1. q[0].id \in Ids /\ q[0].id[1] = "consola"
  BY <1>0 DEF EntradaCola, DeConsola
<1>2. PICK m : m = Get2(q[0].id, 0, 1)
  OBVIOUS
<1>3. m \in AlDisco
  BY <1>0, <1>1, <1>2, MensajesTipo
<1>4. m.id[1] = "consola" /\ Lleno(m)
  BY <1>1, <1>2 DEF Get2, Lleno
<1>5. PICK f : f = Por(e[q[0].orig].hilo, m)
  OBVIOUS
<1>6. /\ f \in [Conexiones -> Seq(AlDisco)]
      /\ \A c \in Conexiones : \A k \in 1..Len(f[c]) : f[c][k] = m
  BY <1>3, <1>5, PorMensajes
<1>7. Enviar(f, proceso)
  BY <1>2, <1>5 DEF SincronizarDisco
<1>8. SoloDeConsola(f)
  BY <1>4, <1>6 DEF SoloDeConsola
<1>. QED BY <1>6, <1>7, <1>8 DEF EnviaSinc

LEMMA AgregarEnvia ==
    ASSUME InvTipos, DeConsola(cola), NEW d \in Discos, ConsolaAgregar(d)
    PROVE  EnviaSinc
<1>0. cola \in [Pos -> EntradaCola] /\ 0 \in Pos /\ nComandos \in Nat
  BY NAssumption DEF InvTipos, TypeOK, TipoTablas, TipoControl, Pos
<1>1. ASSUME NEW i \in Pos, NEW o \in Pos, AgregarSincroniza(i, o)
      PROVE  EnviaSinc
  <2>1. PICK x : x = [id |-> IdConsola, act |-> 0, orig |-> o, dest |-> i]
    OBVIOUS
  <2>2. CASE EnCurso
    BY <1>1, <2>2 DEF AgregarSincroniza, ColaLlena, EnviaSinc
  <2>3. CASE ~EnCurso
    <3>1. PICK k \in Pos :
             /\ EsPrimero(k, Vacias(Correr(cola)))
             /\ SincronizarDisco(PonerEstado(sDiscos, i, "SINCRONIZANDO"),
                                 Cargar(Correr(cola), k, x))
      BY <1>1, <2>1, <2>3 DEF AgregarSincroniza
    <3>2. PICK q : q = Cargar(Correr(cola), k, x)
      OBVIOUS
    <3>3. q \in [Pos -> EntradaCola] /\ DeConsola(q) /\ Correr(cola) \in [Pos -> EntradaCola]
      BY <1>0, <2>1, <3>2, CargarConsola, CorrerEntradas, CorrerConsola
    <3>4. q[0].id # NULO
      <4>1. x.id # NULO
        BY <1>0, <2>1, IdsAssumption DEF IdConsola, Ids
      <4>2. CASE k = 0
        BY <1>0, <3>2, <3>3, <4>1, <4>2 DEF Cargar
      <4>3. CASE k # 0
        <5>1. ~(k <= 0)
          BY <4>3, NAssumption DEF Pos
        <5>2. 0 \notin Vacias(Correr(cola))
          <6>. SUFFICES ASSUME 0 \in Vacias(Correr(cola))
                        PROVE  FALSE
            OBVIOUS
          <6>. QED BY <3>1, <5>1 DEF EsPrimero
        <5>. QED BY <1>0, <3>2, <3>3, <4>3, <5>2 DEF Cargar, Vacias
      <4>. QED BY <4>2, <4>3
    <3>. QED BY <3>1, <3>2, <3>3, <3>4, EmpezarEnvia
  <2>. QED BY <2>2, <2>3
<1>. QED BY <1>1 DEF ConsolaAgregar, AgregarNada, AgregarPrimero, EnviaSinc

LEMMA CierreEnvia ==
    ASSUME InvTipos, DeConsola(cola), Cierre
    PROVE  EnviaSinc
<1>0. cola \in [Pos -> EntradaCola]
  BY DEF InvTipos, TypeOK, TipoTablas
<1>1. PICK q : q = IF EnCurso THEN cola ELSE Correr(cola)
  OBVIOUS
<1>2. q \in [Pos -> EntradaCola] /\ DeConsola(q)
  BY <1>0, <1>1, CorrerEntradas, CorrerConsola
<1>3. aDisco' = aDisco \/ (q[0].id # NULO /\ SincronizarDisco(sDiscos, q))
  BY <1>1 DEF Cierre, EnviarOtroASincronizar
<1>. QED BY <1>2, <1>3, EmpezarEnvia DEF EnviaSinc

\* An answer that is taken for one of the synchronisation.
LEMMA RespuestaSincEs ==
    ASSUME InvTipos, DeConsola(cola), NEW c \in Conexiones, RespuestaSincronizacion(c)
    PROVE  /\ deDisco[c] # <<>> /\ Recibir(c)
           /\ Head(deDisco[c]) \in [t : {"RTA"}, id : Ids, d1 : Buffers, d2 : Buffers]
           /\ Trae(c, "vuelta", 1) /\ Canal(c, "vuelta")[1] = Head(deDisco[c])
           /\ Head(deDisco[c]).id = cola[0].id /\ cola[0].act \in Nat
           /\ Head(deDisco[c]).id[1] = "consola"
<1>0. /\ deDisco \in [Conexiones -> Seq(DelDisco)] /\ 0 \in Pos
  BY NAssumption DEF InvTipos, TypeOK, TipoHilos, Pos
<1>1. Llega(c, "RTA") /\ Recibir(c) /\ EnSincronizacion(Head(deDisco[c]).id)
  BY DEF RespuestaSincronizacion
<1>2. PICK m : m = Head(deDisco[c])
  OBVIOUS
<1>3. m \in DelDisco /\ m.t = "RTA" /\ deDisco[c] # <<>>
  BY <1>0, <1>1, <1>2, RecibidoTipo DEF Llega
<1>4. m \in [t : {"RTA"}, id : Ids, d1 : Buffers, d2 : Buffers]
  BY <1>3, ClaseMensaje
<1>5. m.id = cola[0].id /\ m.id # NULO
  BY <1>1, <1>2, <1>4, IdsAssumption DEF EnSincronizacion
<1>6. m.id[1] = "consola" /\ cola[0].act \in Nat
  BY <1>0, <1>5 DEF DeConsola, InvTipos, ConSector
<1>7. 1 \in 1..Len(deDisco[c]) /\ deDisco[c][1] = m
  <2>1. deDisco[c] \in Seq(DelDisco)
    BY <1>0
  <2>. QED BY <1>2, <1>3, <2>1
<1>. QED BY <1>1, <1>2, <1>3, <1>4, <1>5, <1>6, <1>7 DEF Trae, Canal

LEMMA RespuestaEnvia ==
    ASSUME InvTipos, DeConsola(cola), CanalesLlenos,
           NEW c \in Conexiones, RespuestaSincronizacion(c)
    PROVE  EnviaSinc
<1>1. PICK m : m = Head(deDisco[c])
  OBVIOUS
<1>2. PICK q : q = cola[0]
  OBVIOUS
<1>3. /\ m \in [t : {"RTA"}, id : Ids, d1 : Buffers, d2 : Buffers]
      /\ Trae(c, "vuelta", 1) /\ Canal(c, "vuelta")[1] = m
      /\ q.act \in Nat /\ m.id[1] = "consola"
  BY <1>1, <1>2, RespuestaSincEs
<1>4. m.d1 \in Contenidos /\ m.d2 \in Contenidos
  <2>1. De(m, "consola") /\ "consola" \in Clases /\ "vuelta" \in Sentidos /\ 1 \in Nat
    BY <1>3 DEF De, Clases, Sentidos
  <2>2. Lleno(m)
    BY <1>3, <2>1 DEF CanalesLlenos
  <2>. QED BY <1>3, <2>2 DEF Lleno
<1>5. PICK w : w = Put(m.id, q.act - 1, q.act, m.d1, m.d2)
  OBVIOUS
<1>6. w \in AlDisco /\ w.id[1] = "consola" /\ Lleno(w)
  <2>1. m.id \in Ids /\ m.d1 \in Buffers /\ m.d2 \in Buffers /\ q.act - 1 \in Int /\ q.act \in Int
    BY <1>3
  <2>2. w \in AlDisco
    BY <1>5, <2>1, MensajesTipo
  <2>. QED BY <1>3, <1>4, <1>5, <2>2 DEF Put, Lleno
<1>7. PICK g : g = Por(sDiscos[q.dest].hilo, w)
  OBVIOUS
<1>8. /\ g \in [Conexiones -> Seq(AlDisco)]
      /\ \A e \in Conexiones : \A k \in 1..Len(g[e]) : g[e][k] = w
  BY <1>6, <1>7, PorMensajes
<1>9. Continuar(m)
  BY <1>1 DEF RespuestaSincronizacion
<1>10. CASE HaySector(q.act + 1)
  <2>1. PICK s : s = Get2(m.id, q.act + 1, CalcularCHS(q.act + 2, q.act))
    OBVIOUS
  <2>2. q.act + 1 \in Sectores /\ CalcularCHS(q.act + 2, q.act) \in Sectores
    BY <1>3, <1>10, TotalAssumption DEF HaySector, CalcularCHS, Sectores
  <2>3. s \in AlDisco /\ s.id[1] = "consola" /\ Lleno(s)
    <3>1. s \in AlDisco
      BY <1>3, <2>1, <2>2, MensajesTipo
    <3>. QED BY <1>3, <2>1, <3>1 DEF Get2, Lleno
  <2>4. PICK y : y = Por(sDiscos[q.orig].hilo, s)
    OBVIOUS
  <2>5. /\ y \in [Conexiones -> Seq(AlDisco)]
        /\ \A e \in Conexiones : \A k \in 1..Len(y[e]) : y[e][k] = s
    BY <2>3, <2>4, PorMensajes
  <2>6. PICK f : f = Luego(g, y)
    OBVIOUS
  <2>7. f \in [Conexiones -> Seq(AlDisco)] /\ EsJunta(f, g, y)
    BY <1>8, <2>5, <2>6, LuegoMensajes
  <2>8. Enviar(f, proceso)
    BY <1>2, <1>5, <1>7, <1>9, <1>10, <2>1, <2>4, <2>6 DEF Continuar
  <2>9. ASSUME NEW e \in Conexiones, NEW k \in 1..Len(f[e])
        PROVE  f[e][k] = w \/ f[e][k] = s
    <3>1. CASE k \in 1..Len(g[e]) /\ f[e][k] = g[e][k]
      BY <1>8, <3>1
    <3>2. CASE \E l \in 1..Len(y[e]) : k = Len(g[e]) + l /\ f[e][k] = y[e][l]
      BY <2>5, <3>2
    <3>. QED BY <2>7, <2>9, <3>1, <3>2 DEF EsJunta
  <2>10. SoloDeConsola(f)
    BY <1>6, <2>3, <2>9 DEF SoloDeConsola
  <2>. QED BY <2>7, <2>8, <2>10 DEF EnviaSinc
<1>11. CASE ~HaySector(q.act + 1)
  <2>1. Enviar(g, proceso)
    BY <1>2, <1>5, <1>7, <1>9, <1>11 DEF Continuar
  <2>2. SoloDeConsola(g)
    BY <1>6, <1>8 DEF SoloDeConsola
  <2>. QED BY <1>8, <2>1, <2>2 DEF EnviaSinc
<1>. QED BY <1>10, <1>11

\* A message that is in a channel of p after a step was in that channel before.
LEMMA VinoDe ==
    ASSUME NEW p, CanalesConservan(p), NEW c \in Conexiones, NEW v \in Sentidos
    PROVE  \E j \in Nat : \A k \in Nat : (Trae(c, v, k)' /\ De(Canal(c, v)'[k], p)) =>
              Trae(c, v, k + j) /\ Canal(c, v)[k + j] = Canal(c, v)'[k]
<1>1. PICK j \in Nat : Conserva(Canal(c, v), Canal(c, v)', j, p)
  BY DEF CanalesConservan, Viene, Canal
<1>. QED BY <1>1 DEF Conserva, Trae

LEMMA LlenosSiguen ==
    ASSUME CanalesLlenos, \A p \in Clases : CanalesConservan(p)
    PROVE  CanalesLlenos'
<1>. SUFFICES ASSUME NEW p \in Clases, NEW c \in Conexiones, NEW v \in Sentidos, NEW k \in Nat,
                     Trae(c, v, k)', De(Canal(c, v)'[k], p)
              PROVE  Lleno(Canal(c, v)'[k])
  BY DEF CanalesLlenos
<1>1. CanalesConservan(p)
  OBVIOUS
<1>2. PICK j \in Nat : Trae(c, v, k + j) /\ Canal(c, v)[k + j] = Canal(c, v)'[k]
  BY <1>1, VinoDe
<1>3. k + j \in Nat
  OBVIOUS
<1>. QED BY <1>2, <1>3 DEF CanalesLlenos

\* What is sent is filled, and nothing is added to what the disks answered.
LEMMA LlenosEnvian ==
    ASSUME InvTipos, CanalesLlenos, NEW f \in [Conexiones -> Seq(AlDisco)], NEW sigue,
           Enviar(f, sigue), \A c \in Conexiones : \A k \in 1..Len(f[c]) : Lleno(f[c][k]),
           \A p : \A c \in Conexiones : Viene(deDisco[c], deDisco'[c], p)
    PROVE  CanalesLlenos'
<1>. SUFFICES ASSUME NEW p \in Clases, NEW c \in Conexiones, NEW v \in Sentidos, NEW k \in Nat,
                     Trae(c, v, k)', De(Canal(c, v)'[k], p)
              PROVE  Lleno(Canal(c, v)'[k])
  BY DEF CanalesLlenos
<1>1. CASE v = "ida"
  <2>1. k \in 1..Len(aDisco'[c]) /\ De(aDisco'[c][k], p) /\ Canal(c, v)' = aDisco'[c]
    BY <1>1 DEF Trae, Canal
  <2>2. aDisco \in [Conexiones -> Seq(AlDisco)]
    BY DEF InvTipos, TypeOK, TipoHilos
  <2>3. \/ k \in 1..Len(aDisco[c]) /\ aDisco'[c][k] = aDisco[c][k]
        \/ \E l \in 1..Len(f[c]) : aDisco'[c][k] = f[c][l]
    BY <2>1, <2>2, EnviarOrigen
  <2>4. CASE k \in 1..Len(aDisco[c]) /\ aDisco'[c][k] = aDisco[c][k]
    BY <1>1, <2>1, <2>4 DEF CanalesLlenos, Trae, Canal
  <2>5. CASE \E l \in 1..Len(f[c]) : aDisco'[c][k] = f[c][l]
    BY <2>1, <2>5
  <2>. QED BY <2>3, <2>4, <2>5
<1>2. CASE v = "vuelta"
  <2>1. k \in 1..Len(deDisco'[c]) /\ De(deDisco'[c][k], p) /\ Canal(c, v)' = deDisco'[c]
    BY <1>2 DEF Trae, Canal
  <2>2. PICK j \in Nat : Conserva(deDisco[c], deDisco'[c], j, p)
    BY DEF Viene
  <2>3. k + j \in 1..Len(deDisco[c]) /\ deDisco[c][k + j] = deDisco'[c][k] /\ k + j \in Nat
    BY <2>1, <2>2 DEF Conserva
  <2>4. Trae(c, v, k + j) /\ Canal(c, v)[k + j] = Canal(c, v)'[k]
    BY <1>2, <2>1, <2>3 DEF Trae, Canal
  <2>. QED BY <2>3, <2>4 DEF CanalesLlenos
<1>. QED BY <1>1, <1>2 DEF Sentidos

\* What a disk makes of a request.
LEMMA ServirEs ==
    ASSUME NEW m \in AlDisco, NEW s \in [Sectores -> Buffers]
    PROVE  /\ m.t \in {"PUT", "GET1", "GET2"}
           /\ m.t = "PUT" => Servir(m, s).t = "PUT_OK"
           /\ m.t = "GET1" => /\ m.s1 \in Sectores
                              /\ Servir(m, s) = [t |-> "RTAb", id |-> m.id, d1 |-> s[m.s1]]
           /\ m.t = "GET2" => /\ m.s1 \in Sectores /\ m.s2 \in Sectores
                              /\ Servir(m, s) = [t |-> "RTA", id |-> m.id, d1 |-> s[m.s1],
                                                 d2 |-> s[m.s2]]
<1>1. CASE m \in Pedidos1
  BY <1>1 DEF Servir, Pedidos1
<1>2. CASE m \in Pedidos2
  BY <1>2 DEF Servir, Pedidos2
<1>3. CASE m \in Escrituras
  BY <1>3 DEF Servir, Escrituras
<1>. QED BY <1>1, <1>2, <1>3 DEF AlDisco

\* A message with no class is not of a synchronisation, a read or a write.
LEMMA DePut == \A m : m.t = "PUT" => De(m, "put")
  BY DEF De

LEMMA DiscoLlenos ==
    ASSUME InvTipos, Llenos, NEW c \in Conexiones, DiscoAtiende(c)
    PROVE  Llenos'
<1>0. /\ aDisco \in [Conexiones -> Seq(AlDisco)] /\ deDisco \in [Conexiones -> Seq(DelDisco)]
      /\ datos \in [Discos -> [Sectores -> Buffers]]
  BY DEF InvTipos, TypeOK, TipoHilos
<1>1. PICK d : d = hilo[c].disco
  OBVIOUS
<1>2. PICK m : m = aDisco[c][1]
  OBVIOUS
<1>3. /\ aDisco[c] # <<>> /\ 1 \in 1..Len(aDisco[c]) /\ Head(aDisco[c]) = m
      /\ \A e \in Conexiones : \A k \in 1..Len(aDisco'[e]) :
            IF e = c THEN k + 1 \in 1..Len(aDisco[c]) /\ aDisco'[c][k] = aDisco[c][k + 1]
                     ELSE k \in 1..Len(aDisco[e]) /\ aDisco'[e][k] = aDisco[e][k]
      /\ \A e \in Conexiones : \A k \in 1..Len(deDisco'[e]) :
            \/ k \in 1..Len(deDisco[e]) /\ deDisco'[e][k] = deDisco[e][k]
            \/ /\ e = c /\ k = Len(deDisco[c]) + 1 /\ hilo[c].fase = "activa"
               /\ deDisco'[c][k] = Servir(m, datos[d])
  BY <1>1, <1>2, DiscoOrigen
<1>4. m \in AlDisco
  <2>1. aDisco[c] \in Seq(AlDisco)
    BY <1>0
  <2>. QED BY <1>2, <1>3, <2>1
<1>5. m.t = "PUT" => m.d1 \in Contenidos /\ m.d2 \in Contenidos
  <2>. SUFFICES ASSUME m.t = "PUT"
                PROVE  m.d1 \in Contenidos /\ m.d2 \in Contenidos
    OBVIOUS
  <2>1. Trae(c, "ida", 1) /\ Canal(c, "ida")[1] = m /\ "ida" \in Sentidos /\ "put" \in Clases
    BY <1>2, <1>3 DEF Trae, Canal, Sentidos, Clases
  <2>2. Lleno(m)
    BY <2>1, DePut DEF Llenos, CanalesLlenos
  <2>. QED BY <2>2 DEF Lleno
<1>6. d \in Discos => datos[d] \in [Sectores -> Buffers]
                      /\ \A s \in Sectores : datos[d][s] \in Contenidos
  BY <1>0 DEF Llenos, DatosLlenos
<1>7. DatosLlenos'
  <2>1. datos' = [datos EXCEPT ![d] = Grabar(m, datos[d])]
    BY <1>1, <1>3 DEF DiscoAtiende
  <2>2. d \in Discos => \A s \in Sectores : Grabar(m, datos[d])[s] \in Contenidos
    BY <1>5, <1>6 DEF Grabar
  <2>. QED BY <1>0, <2>1, <2>2 DEF Llenos, DatosLlenos
<1>8. CanalesLlenos'
  <2>. SUFFICES ASSUME NEW p \in Clases, NEW e \in Conexiones, NEW v \in Sentidos, NEW k \in Nat,
                       Trae(e, v, k)', De(Canal(e, v)'[k], p)
                PROVE  Lleno(Canal(e, v)'[k])
    BY DEF CanalesLlenos
  <2>1. CASE v = "ida"
    <3>1. k \in 1..Len(aDisco'[e]) /\ De(aDisco'[e][k], p) /\ Canal(e, v)' = aDisco'[e]
      BY <2>1 DEF Trae, Canal
    <3>2. PICK l \in Nat : l \in 1..Len(aDisco[e]) /\ aDisco'[e][k] = aDisco[e][l]
      <4>1. CASE e = c
        <5>1. k + 1 \in Nat /\ k + 1 \in 1..Len(aDisco[c]) /\ aDisco'[c][k] = aDisco[c][k + 1]
          BY <1>3, <3>1, <4>1
        <5>. QED BY <4>1, <5>1
      <4>2. CASE e # c
        BY <1>3, <3>1, <4>2
      <4>. QED BY <4>1, <4>2
    <3>3. Trae(e, v, l) /\ Canal(e, v)[l] = Canal(e, v)'[k]
      BY <2>1, <3>1, <3>2 DEF Trae, Canal
    <3>. QED BY <3>2, <3>3 DEF Llenos, CanalesLlenos
  <2>2. CASE v = "vuelta"
    <3>1. k \in 1..Len(deDisco'[e]) /\ De(deDisco'[e][k], p) /\ Canal(e, v)' = deDisco'[e]
      BY <2>2 DEF Trae, Canal
    <3>2. CASE k \in 1..Len(deDisco[e]) /\ deDisco'[e][k] = deDisco[e][k]
      <4>1. Trae(e, v, k) /\ Canal(e, v)[k] = Canal(e, v)'[k]
        BY <2>2, <3>1, <3>2 DEF Trae, Canal
      <4>. QED BY <4>1 DEF Llenos, CanalesLlenos
    <3>3. CASE hilo[c].fase = "activa" /\ deDisco'[e][k] = Servir(m, datos[d])
      <4>1. d \in Discos
        BY <1>1, <3>3 DEF InvTipos, HilosConDisco
      <4>2. Lleno(Servir(m, datos[d]))
        BY <1>4, <1>6, <4>1, ServirEs DEF Lleno
      <4>. QED BY <3>1, <3>3, <4>2
    <3>. QED BY <1>3, <3>1, <3>2, <3>3
  <2>. QED BY <2>1, <2>2 DEF Sentidos
<1>. QED BY <1>7, <1>8 DEF Llenos

LEMMA LeidoViene ==
    ASSUME InvTipos, UNCHANGED deDisco \/ \E c \in Conexiones : deDisco[c] # <<>> /\ Recibir(c)
    PROVE  \A p : \A c \in Conexiones : Viene(deDisco[c], deDisco'[c], p)
<1>1. deDisco \in [Conexiones -> Seq(DelDisco)]
  BY DEF InvTipos, TypeOK, TipoHilos
<1>2. CASE UNCHANGED deDisco
  BY <1>1, <1>2, VieneMismo
<1>3. ASSUME NEW c \in Conexiones, deDisco[c] # <<>>, Recibir(c)
      PROVE  \A p : \A d \in Conexiones : Viene(deDisco[d], deDisco'[d], p)
  BY <1>1, <1>3, RecibirViene
<1>. QED BY <1>2, <1>3

\* The copy of a disk makes no message of a read.
LEMMA SincConserva ==
    ASSUME InvTipos, DeConsola(cola), CanalesLlenos,
           \/ \E d \in Discos : ConsolaAgregar(d)
           \/ Cierre
           \/ \E c \in Conexiones : RespuestaSincronizacion(c)
    PROVE  CanalesConservan("get") /\ CanalesLlenos'
<1>0. /\ aDisco \in [Conexiones -> Seq(AlDisco)] /\ deDisco \in [Conexiones -> Seq(DelDisco)]
  BY DEF InvTipos, TypeOK, TipoHilos
<1>1. EnviaSinc
  BY AgregarEnvia, CierreEnvia, RespuestaEnvia
<1>2. \A p : \A c \in Conexiones : Viene(deDisco[c], deDisco'[c], p)
  <2>1. UNCHANGED deDisco \/ \E c \in Conexiones : deDisco[c] # <<>> /\ Recibir(c)
    BY RespuestaSincEs DEF ConsolaAgregar, Cierre
  <2>. QED BY <2>1, LeidoViene
<1>3. CASE UNCHANGED aDisco
  <2>1. \A p : CanalesConservan(p)
    BY <1>0, <1>2, <1>3, VieneMismo DEF CanalesConservan
  <2>. QED BY <2>1, LlenosSiguen
<1>4. ASSUME NEW f \in [Conexiones -> Seq(AlDisco)], SoloDeConsola(f), NEW sigue, Enviar(f, sigue)
      PROVE  CanalesConservan("get") /\ CanalesLlenos'
  <2>1. \A c \in Conexiones : \A k \in 1..Len(f[c]) : ~De(f[c][k], "get") /\ Lleno(f[c][k])
    BY <1>4 DEF SoloDeConsola, De
  <2>2. \A c \in Conexiones : Viene(aDisco[c], aDisco'[c], "get")
    BY <1>0, <1>4, <2>1, EnviarViene
  <2>3. CanalesLlenos'
    BY <1>2, <1>4, <2>1, LlenosEnvian
  <2>. QED BY <1>2, <2>2, <2>3 DEF CanalesConservan
<1>. QED BY <1>1, <1>3, <1>4 DEF EnviaSinc

LEMMA VskLlenos ==
    ASSUME InvTipos, CanalesLlenos, NEW par \in Pares, VskGet(par) \/ VskPut(par)
    PROVE  CanalesLlenos'
<1>0. \A p : \A c \in Conexiones : Viene(deDisco[c], deDisco'[c], p)
  <2>1. UNCHANGED deDisco
    BY DEF VskGet, VskPut
  <2>. QED BY <2>1, LeidoViene
<1>1. aDisco \in [Conexiones -> Seq(AlDisco)]
  BY DEF InvTipos, TypeOK, TipoHilos
<1>2. ASSUME UNCHANGED aDisco
      PROVE  CanalesLlenos'
  <2>1. \A p \in Clases : CanalesConservan(p)
    BY <1>0, <1>1, <1>2, VieneMismo DEF CanalesConservan
  <2>. QED BY <2>1, LlenosSiguen
<1>3. ASSUME NEW t1 \in Pos, NEW t2 \in Pos, Repartir(par, t1, t2)
      PROVE  CanalesLlenos'
  <2>1. PICK f \in [Conexiones -> Seq(AlDisco)] :
              /\ \E sigue : Enviar(f, sigue)
              /\ MandaLectura(f, <<"get", Len(lecturas) + 1>>, par, t1, t2)
    BY <1>3, RepartirEnvia
  <2>2. \A m : m.t \in {"GET1", "GET2"} => Lleno(m)
    BY DEF Lleno
  <2>3. ASSUME NEW c \in Conexiones, NEW k \in 1..Len(f[c])
        PROVE  Lleno(f[c][k])
    <3>1. f[c][k].t \in {"GET1", "GET2"}
      BY <2>1 DEF MandaLectura, Get1, Get2
    <3>. QED BY <2>2, <3>1
  <2>. QED BY <1>0, <2>1, <2>3, LlenosEnvian
<1>4. CASE VskPut(par)
  <2>. DEFINE n == Len(escritas) + 1
  <2>0. n \in Nat
    BY LenProperties DEF InvTipos, TypeOK, TipoHistoria
  <2>1. PICK m : m = Put(<<"put", n>>, par[1], par[2], [sec |-> par[1], ver |-> n],
                         [sec |-> par[2], ver |-> n])
    OBVIOUS
  <2>2. m \in AlDisco /\ Lleno(m)
    <3>1. par[1] \in Int /\ par[2] \in Int
      BY EntornoAssumption DEF Sectores
    <3>2. [sec |-> par[1], ver |-> n] \in Contenidos /\ [sec |-> par[2], ver |-> n] \in Contenidos
      BY <2>0, <3>1 DEF Contenidos
    <3>3. <<"put", n>> \in Ids
      BY <2>0 DEF Ids
    <3>4. m \in AlDisco
      BY <2>1, <3>1, <3>2, <3>3, MensajesTipo DEF Buffers
    <3>. QED BY <2>1, <3>2, <3>4 DEF Put, Lleno
  <2>3. PICK f : f = [c \in Conexiones |-> IF \E i \in ConHilo(sDiscos, c) : RecibePut(i, par)
                                            THEN <<m>> ELSE <<>>]
    OBVIOUS
  <2>4. /\ f \in [Conexiones -> Seq(AlDisco)]
        /\ \A c \in Conexiones : \A k \in 1..Len(f[c]) : f[c][k] = m
    BY <2>2, <2>3
  <2>5. Enviar(f, proceso)
    BY <1>4, <2>1, <2>3 DEF VskPut
  <2>. QED BY <1>0, <2>2, <2>4, <2>5, LlenosEnvian
<1>. QED BY <1>2, <1>3, <1>4, VskGetEs

LEMMA LlenosPaso ==
    ASSUME InvTipos, DeConsola(cola), Llenos, [Next]_vars
    PROVE  Llenos'
<1>. USE DEF Llenos
<1>1. ASSUME UNCHANGED datos
      PROVE  DatosLlenos'
  BY <1>1 DEF DatosLlenos
<1>2. CASE Callado
  <2>1. UNCHANGED datos
    BY <1>2
       DEF Callado, HandshakeDisco, ConsolaEliminar, AsociarHilo, Desconexion,
           ProtocoloIncorrecto, RespuestaDos, RespuestaUno, RespuestaPut, HiloInicia, DiscoCae,
           ConsolaIniciar, ConsolaDetener, ConsolaEstado, ConsolaSalir, VskDesconecta,
           SaleDelCiclo, vars
  <2>2. \A p \in Clases : CanalesConservan(p)
    BY <1>2, CalladoConserva
  <2>. QED BY <1>1, <2>1, <2>2, LlenosSiguen
<1>3. CASE \/ \E d \in Discos : ConsolaAgregar(d)
           \/ Cierre
           \/ \E c \in Conexiones : RespuestaSincronizacion(c)
  <2>1. UNCHANGED datos
    BY <1>3 DEF ConsolaAgregar, Cierre, RespuestaSincronizacion
  <2>2. CanalesLlenos'
    BY <1>3, SincConserva
  <2>. QED BY <1>1, <2>1, <2>2
<1>4. CASE \E par \in Pares : VskGet(par) \/ VskPut(par)
  <2>1. UNCHANGED datos
    BY <1>4 DEF VskGet, VskPut
  <2>2. CanalesLlenos'
    BY <1>4, VskLlenos
  <2>. QED BY <1>1, <2>1, <2>2
<1>5. CASE \E c \in Conexiones : DiscoAtiende(c)
  BY <1>5, DiscoLlenos
<1>. QED BY <1>2, <1>3, <1>4, <1>5 DEF Next, Respuesta, Consola, Vsk, Callado

\* What the reads rest on: the types, the table of disks and what is above; and
\* that each sector holds its own, when no synchronisation starts again.
InvFondo == /\ InvTipos /\ InvTabla /\ DeConsola(cola) /\ Llenos
            /\ SinReinicio => SectorPropio

LEMMA SpecFondo == Spec => []InvFondo
<1>1. Init => DeConsola(cola) /\ Llenos
  <2>. SUFFICES ASSUME Init
                PROVE  DeConsola(cola) /\ Llenos
    OBVIOUS
  <2>1. DeConsola(cola)
    BY DEF Init, ColaInicial, DeConsola
  <2>2. \A c \in Conexiones, v \in Sentidos, k \in Nat : ~Trae(c, v, k)
    BY DEF Init, Trae, Canal
  <2>3. DatosLlenos
    BY EntornoAssumption DEF Init, DatosLlenos, Contenidos, Sectores
  <2>. QED BY <2>1, <2>2, <2>3 DEF Llenos, CanalesLlenos
<1>2. InvTipos /\ DeConsola(cola) /\ Llenos /\ [Next]_vars => (DeConsola(cola) /\ Llenos)'
  <2>1. DeConsola(cola)' <=> DeConsola(cola')
    BY DEF DeConsola
  <2>. QED BY <2>1, ConsolaPaso, LlenosPaso
<1>3. Spec => []InvTabla
  BY TablaInicial, TablaPaso, SpecTipos, PTL DEF Spec
<1>4. Spec => [](SinReinicio => SectorPropio)
  <2>1. CASE SinReinicio
    BY <2>1, CadaSectorLoSuyo, PTL
  <2>2. CASE ~SinReinicio
    <3>1. SinReinicio => SectorPropio
      BY <2>2
    <3>. QED BY <3>1, PTL
  <2>. QED BY <2>1, <2>2
<1>. QED BY <1>1, <1>2, <1>3, <1>4, SpecTipos, PTL DEF Spec, InvFondo

-----------------------------------------------------------------------------
(* The reads.  A read has one request or answer under way, or two halves on   *)
(* two sockets; what its entry of the table still lacks is what is under way. *)

EsMitad(m) == m.t \in {"GET1", "RTAb"}

\* A message of read n.
LecEn(c, v, k, n) == /\ Trae(c, v, k) /\ De(Canal(c, v)[k], "get")
                     /\ Canal(c, v)[k].id = <<"get", n>>

\* The sector is the one meant, if no sector holds what was for another.
DeSector(d, s) == d \in Contenidos /\ (SinReinicio => d.sec = s)

EnteraBien(m, r) ==
    /\ m.t = "GET2" => m.s1 = r.s1 /\ m.s2 = r.s2
    /\ m.t = "RTA" => DeSector(m.d1, r.s1) /\ DeSector(m.d2, r.s2)

PideSector(m, s) == /\ m.t = "GET1" => m.s1 = s
                    /\ m.t = "RTAb" => DeSector(m.d1, s)

\* A half of read r by socket c, and the buffer of entry p it will fill.
MitadBien(m, c, p, r) ==
    \/ p.h1 = c /\ p.d1 = NULO /\ PideSector(m, r.s1)
    \/ p.h1 # c /\ p.h2 = c /\ p.d2 = NULO /\ PideSector(m, r.s2)

\* An entry counts its halves, and each buffer holds the one it is for.
EntradaBien(p, r) ==
    /\ p.cant \in {0, 1}
    /\ p.cant = 0 => p.d1 = NULO /\ p.d2 = NULO
    /\ p.cant = 1 => (p.d1 = NULO <=> p.d2 # NULO)
    /\ p.d1 # NULO => DeSector(p.d1, r.s1)
    /\ p.d2 # NULO => DeSector(p.d2, r.s2)

Numeros == 1..Len(lecturas)

ConLectura == \A c \in Conexiones, v \in Sentidos, k \in Nat :
    Trae(c, v, k) /\ De(Canal(c, v)[k], "get") => \E n \in Numeros : LecEn(c, v, k, n)

EnterasBien == \A c \in Conexiones, v \in Sentidos, k \in Nat, n \in Numeros :
    LecEn(c, v, k, n) => EnteraBien(Canal(c, v)[k], lecturas[n])

UnaODosMitades ==
    \A c, d \in Conexiones, v, w \in Sentidos, k, l \in Nat, n \in Numeros :
        LecEn(c, v, k, n) /\ LecEn(d, w, l, n) =>
            \/ c = d /\ v = w /\ k = l
            \/ c # d /\ EsMitad(Canal(c, v)[k]) /\ EsMitad(Canal(d, w)[l])

MitadesBien == \A c \in Conexiones, v \in Sentidos, k \in Nat, n \in Numeros :
    LecEn(c, v, k, n) /\ EsMitad(Canal(c, v)[k]) =>
        \A e \in PedidosDe(pedidos, <<"get", n>>) :
            MitadBien(Canal(c, v)[k], c, pedidos[e], lecturas[n])

\* A read that was answered has nothing under way.
Contestadas ==
    /\ Len(respuestas) = Len(lecturas)
    /\ \A c \in Conexiones, v \in Sentidos, k \in Nat, n \in Numeros :
           LecEn(c, v, k, n) => respuestas[n] = <<>>

RespuestaBien(s, r) ==
    /\ Len(s) <= 1
    /\ \A k \in 1..Len(s) : DeSector(s[k].d1, r.s1) /\ DeSector(s[k].d2, r.s2)

RespuestasBien == \A n \in Numeros : RespuestaBien(respuestas[n], lecturas[n])

EntradasBien == \A e \in Entradas : pedidos[e].id # NULO =>
    \E n \in Numeros : pedidos[e].id = <<"get", n>> /\ EntradaBien(pedidos[e], lecturas[n])

\* The table has an entry for each read the VSK will ever make.
Alcanza == MaxGet <= MaxPedidos

EntradaPorMitad == Alcanza =>
    /\ \A e \in Entradas : e > Len(lecturas) => pedidos[e].id = NULO
    /\ \A c \in Conexiones, v \in Sentidos, k \in Nat, n \in Numeros :
           LecEn(c, v, k, n) /\ EsMitad(Canal(c, v)[k]) => PedidosDe(pedidos, <<"get", n>>) # {}

InvCanales  == ConLectura /\ EnterasBien /\ UnaODosMitades
InvPedidos  == MitadesBien /\ EntradasBien /\ EntradaPorMitad
InvLecturas == InvCanales /\ InvPedidos /\ Contestadas /\ RespuestasBien

LEMMA LecVino ==
    ASSUME CanalesConservan("get"), NEW c \in Conexiones, NEW v \in Sentidos
    PROVE  \E j \in Nat : \A k \in Nat : \A n : LecEn(c, v, k, n)' =>
              LecEn(c, v, k + j, n) /\ Canal(c, v)[k + j] = Canal(c, v)'[k]
<1>1. PICK j \in Nat : \A k \in Nat : (Trae(c, v, k)' /\ De(Canal(c, v)'[k], "get")) =>
              Trae(c, v, k + j) /\ Canal(c, v)[k + j] = Canal(c, v)'[k]
  BY VinoDe
<1>. QED BY <1>1 DEF LecEn

\* Steps that make no message of a read keep what is known of the channels.
LEMMA CanalesSiguenLec ==
    ASSUME InvCanales, CanalesConservan("get"), UNCHANGED lecturas
    PROVE  InvCanales'
<1>1. ConLectura'
  <2>. SUFFICES ASSUME NEW c \in Conexiones, NEW v \in Sentidos, NEW k \in Nat,
                       Trae(c, v, k)', De(Canal(c, v)'[k], "get")
                PROVE  \E n \in Numeros : LecEn(c, v, k, n)'
    BY DEF ConLectura, Numeros
  <2>1. PICK j \in Nat : Trae(c, v, k + j) /\ Canal(c, v)[k + j] = Canal(c, v)'[k]
    BY VinoDe
  <2>2. k + j \in Nat
    OBVIOUS
  <2>3. PICK n \in Numeros : LecEn(c, v, k + j, n)
    BY <2>1, <2>2 DEF InvCanales, ConLectura
  <2>. QED BY <2>1, <2>3 DEF LecEn
<1>2. EnterasBien'
  <2>. SUFFICES ASSUME NEW c \in Conexiones, NEW v \in Sentidos, NEW k \in Nat, NEW n \in Numeros,
                       LecEn(c, v, k, n)'
                PROVE  EnteraBien(Canal(c, v)'[k], lecturas[n])
    BY DEF EnterasBien, Numeros
  <2>1. PICK j \in Nat : LecEn(c, v, k + j, n) /\ Canal(c, v)[k + j] = Canal(c, v)'[k]
    BY LecVino
  <2>2. k + j \in Nat
    OBVIOUS
  <2>3. EnteraBien(Canal(c, v)[k + j], lecturas[n])
    BY <2>1, <2>2 DEF InvCanales, EnterasBien
  <2>. QED BY <2>1, <2>3
<1>3. UnaODosMitades'
  <2>. SUFFICES ASSUME NEW c \in Conexiones, NEW d \in Conexiones,
                       NEW v \in Sentidos, NEW w \in Sentidos,
                       NEW k \in Nat, NEW l \in Nat, NEW n \in Numeros,
                       LecEn(c, v, k, n)', LecEn(d, w, l, n)'
                PROVE  \/ c = d /\ v = w /\ k = l
                       \/ c # d /\ EsMitad(Canal(c, v)'[k]) /\ EsMitad(Canal(d, w)'[l])
    BY DEF UnaODosMitades, Numeros
  <2>1. PICK i \in Nat : \A x \in Nat : LecEn(c, v, x, n)' =>
              LecEn(c, v, x + i, n) /\ Canal(c, v)[x + i] = Canal(c, v)'[x]
    BY LecVino
  <2>2. PICK j \in Nat : \A x \in Nat : LecEn(d, w, x, n)' =>
              LecEn(d, w, x + j, n) /\ Canal(d, w)[x + j] = Canal(d, w)'[x]
    BY LecVino
  <2>3. k + i \in Nat /\ l + j \in Nat /\ l + i \in Nat
    OBVIOUS
  <2>4. \/ c = d /\ v = w /\ k + i = l + j
        \/ c # d /\ EsMitad(Canal(c, v)[k + i]) /\ EsMitad(Canal(d, w)[l + j])
    BY <2>1, <2>2, <2>3 DEF InvCanales, UnaODosMitades
  <2>5. CASE c = d /\ v = w
    <3>1. LecEn(c, v, k + i, n) /\ LecEn(c, v, l + i, n)
      BY <2>1, <2>5
    <3>2. k + i = l + i
      BY <2>3, <3>1 DEF InvCanales, UnaODosMitades
    <3>. QED BY <2>5, <3>2
  <2>6. CASE ~(c = d /\ v = w)
    BY <2>1, <2>2, <2>4, <2>6
  <2>. QED BY <2>5, <2>6
<1>. QED BY <1>1, <1>2, <1>3 DEF InvCanales

\* So do the halves, if the entries that wait for them keep waiting.
LEMMA PedidosSiguen ==
    ASSUME InvPedidos, CanalesConservan("get"), UNCHANGED <<lecturas, pedidos>>
    PROVE  InvPedidos'
<1>1. MitadesBien'
  <2>. SUFFICES ASSUME NEW c \in Conexiones, NEW v \in Sentidos, NEW k \in Nat, NEW n \in Numeros,
                       LecEn(c, v, k, n)', EsMitad(Canal(c, v)'[k]),
                       NEW e \in PedidosDe(pedidos, <<"get", n>>)
                PROVE  MitadBien(Canal(c, v)'[k], c, pedidos[e], lecturas[n])
    BY DEF MitadesBien, Numeros
  <2>1. PICK j \in Nat : LecEn(c, v, k + j, n) /\ Canal(c, v)[k + j] = Canal(c, v)'[k]
    BY LecVino
  <2>2. k + j \in Nat
    OBVIOUS
  <2>3. MitadBien(Canal(c, v)[k + j], c, pedidos[e], lecturas[n])
    BY <2>1, <2>2 DEF InvPedidos, MitadesBien
  <2>. QED BY <2>1, <2>3
<1>2. EntradasBien'
  BY DEF InvPedidos, EntradasBien, Numeros
<1>3. EntradaPorMitad'
  <2>. SUFFICES ASSUME Alcanza, NEW c \in Conexiones, NEW v \in Sentidos, NEW k \in Nat,
                       NEW n \in Numeros, LecEn(c, v, k, n)', EsMitad(Canal(c, v)'[k])
                PROVE  PedidosDe(pedidos, <<"get", n>>) # {}
    BY DEF InvPedidos, EntradaPorMitad, Numeros
  <2>1. PICK j \in Nat : LecEn(c, v, k + j, n) /\ Canal(c, v)[k + j] = Canal(c, v)'[k]
    BY LecVino
  <2>2. k + j \in Nat
    OBVIOUS
  <2>. QED BY <2>1, <2>2 DEF InvPedidos, EntradaPorMitad
<1>. QED BY <1>1, <1>2, <1>3 DEF InvPedidos

LEMMA LecturasSiguen ==
    ASSUME InvLecturas, CanalesConservan("get"), UNCHANGED <<lecturas, pedidos, respuestas>>
    PROVE  InvLecturas'
<1>1. InvCanales' /\ InvPedidos'
  BY CanalesSiguenLec, PedidosSiguen DEF InvLecturas
<1>2. RespuestasBien'
  BY DEF InvLecturas, RespuestasBien, Numeros
<1>3. Contestadas'
  <2>. SUFFICES ASSUME NEW c \in Conexiones, NEW v \in Sentidos, NEW k \in Nat,
                       NEW n \in Numeros, LecEn(c, v, k, n)'
                PROVE  respuestas[n] = <<>>
    BY DEF InvLecturas, Contestadas, Numeros
  <2>1. PICK j \in Nat : LecEn(c, v, k + j, n)
    BY LecVino
  <2>2. k + j \in Nat
    OBVIOUS
  <2>. QED BY <2>1, <2>2 DEF InvLecturas, Contestadas
<1>. QED BY <1>1, <1>2, <1>3 DEF InvLecturas

-----------------------------------------------------------------------------
(* The answers. *)

LEMMA RecibidaVa ==
    ASSUME InvTipos, NEW c \in Conexiones, deDisco[c] # <<>>, Recibir(c), UNCHANGED aDisco,
           NEW d \in Conexiones, NEW v \in Sentidos, NEW k \in Nat, NEW n, LecEn(d, v, k, n)'
    PROVE  \E l \in Nat : /\ LecEn(d, v, l, n) /\ Canal(d, v)[l] = Canal(d, v)'[k]
                          /\ ~(d = c /\ v = "vuelta" /\ l = 1)
<1>0. deDisco \in [Conexiones -> Seq(DelDisco)]
  BY DEF InvTipos, TypeOK, TipoHilos
<1>1. CASE d = c /\ v = "vuelta"
  <2>1. deDisco'[c] = Tail(deDisco[c])
    BY <1>0 DEF Recibir
  <2>2. /\ Len(Tail(deDisco[c])) = Len(deDisco[c]) - 1 /\ Len(deDisco[c]) \in Nat
        /\ \A i \in 1..Len(Tail(deDisco[c])) : Tail(deDisco[c])[i] = deDisco[c][i + 1]
    <3>1. deDisco[c] \in Seq(DelDisco)
      BY <1>0
    <3>. QED BY <3>1
  <2>3. k \in 1..Len(deDisco'[c])
    BY <1>1 DEF LecEn, Trae, Canal
  <2>4. k + 1 \in 1..Len(deDisco[c]) /\ deDisco[c][k + 1] = deDisco'[c][k] /\ k + 1 # 1 /\ k + 1 \in Nat
    BY <2>1, <2>2, <2>3
  <2>5. LecEn(d, v, k + 1, n) /\ Canal(d, v)[k + 1] = Canal(d, v)'[k]
    BY <1>1, <2>4 DEF LecEn, Trae, Canal
  <2>. QED BY <2>4, <2>5
<1>2. CASE ~(d = c /\ v = "vuelta")
  <2>1. Canal(d, v)' = Canal(d, v)
    BY <1>0, <1>2 DEF Canal, Recibir, Sentidos
  <2>2. LecEn(d, v, k, n)
    BY <2>1 DEF LecEn, Trae
  <2>. QED BY <1>2, <2>1, <2>2
<1>. QED BY <1>1, <1>2

\* The answer at the head of a socket is of a read that was made.
LEMMA DeLectura ==
    ASSUME InvTipos, InvLecturas, NEW c \in Conexiones, NEW t \in {"RTA", "RTAb"}, Llega(c, t),
           Head(deDisco[c]).id[1] = "get"
    PROVE  \E n \in Numeros : /\ LecEn(c, "vuelta", 1, n)
                              /\ Canal(c, "vuelta")[1] = Head(deDisco[c])
                              /\ Head(deDisco[c]).id = <<"get", n>>
                              /\ Head(deDisco[c]).t = t
                              /\ respuestas[n] = <<>>
<1>0. deDisco \in [Conexiones -> Seq(DelDisco)]
  BY DEF InvTipos, TypeOK, TipoHilos
<1>1. 1 \in 1..Len(deDisco[c]) /\ deDisco[c][1] = Head(deDisco[c])
  <2>1. deDisco[c] \in Seq(DelDisco) /\ deDisco[c] # <<>>
    BY <1>0 DEF Llega
  <2>. QED BY <2>1
<1>2. Trae(c, "vuelta", 1) /\ De(Canal(c, "vuelta")[1], "get") /\ "vuelta" \in Sentidos
  BY <1>1 DEF Trae, Canal, De, Llega, Sentidos
<1>3. PICK n \in Numeros : LecEn(c, "vuelta", 1, n)
  BY <1>2 DEF InvLecturas, InvCanales, ConLectura
<1>4. respuestas[n] = <<>>
  BY <1>2, <1>3 DEF InvLecturas, Contestadas
<1>. QED BY <1>1, <1>3, <1>4 DEF LecEn, Canal, Llega

\* An answer is given to a read that has nothing under way any more.
LEMMA RespuestaDada ==
    ASSUME InvTipos, InvLecturas, UNCHANGED lecturas, NEW n \in Numeros,
           respuestas[n] = <<>>, NEW x \in [d1 : Buffers, d2 : Buffers],
           DeSector(x.d1, lecturas[n].s1), DeSector(x.d2, lecturas[n].s2),
           respuestas' = [respuestas EXCEPT ![n] = Append(@, x)],
           CanalesConservan("get"),
           \A c \in Conexiones, v \in Sentidos, k \in Nat : ~LecEn(c, v, k, n)'
    PROVE  RespuestasBien' /\ Contestadas'
<1>0. Len(respuestas) = Len(lecturas) /\ respuestas \in Seq(Seq([d1 : Buffers, d2 : Buffers]))
  BY DEF InvLecturas, Contestadas, InvTipos, TypeOK, TipoHistoria
<1>1. /\ Len(respuestas') = Len(lecturas) /\ respuestas'[n] = <<x>>
      /\ \A i \in Numeros : i # n => respuestas'[i] = respuestas[i]
  <2>1. Append(respuestas[n], x) = <<x>>
    OBVIOUS
  <2>2. respuestas' = [respuestas EXCEPT ![n] = <<x>>]
    BY <2>1
  <2>. QED BY <1>0, <2>2 DEF Numeros
<1>2. RespuestasBien'
  <2>. SUFFICES ASSUME NEW i \in Numeros
                PROVE  RespuestaBien(respuestas'[i], lecturas[i])
    BY DEF RespuestasBien, Numeros
  <2>1. CASE i = n
    <3>1. Len(<<x>>) = 1 /\ \A k \in 1..1 : <<x>>[k] = x
      OBVIOUS
    <3>2. RespuestaBien(<<x>>, lecturas[n])
      BY <3>1 DEF RespuestaBien
    <3>. QED BY <1>1, <2>1, <3>2
  <2>2. CASE i # n
    BY <1>1, <2>2 DEF InvLecturas, RespuestasBien
  <2>. QED BY <2>1, <2>2
<1>3. Contestadas'
  <2>. SUFFICES ASSUME NEW c \in Conexiones, NEW v \in Sentidos, NEW k \in Nat,
                       NEW i \in Numeros, LecEn(c, v, k, i)'
                PROVE  respuestas'[i] = <<>>
    BY <1>1 DEF Contestadas, Numeros
  <2>1. i # n
    OBVIOUS
  <2>2. PICK j \in Nat : LecEn(c, v, k + j, i)
    BY LecVino
  <2>3. k + j \in Nat
    OBVIOUS
  <2>. QED BY <1>1, <2>1, <2>2, <2>3 DEF InvLecturas, Contestadas
<1>. QED BY <1>2, <1>3

LEMMA DosLecturas ==
    ASSUME InvFondo, InvLecturas, NEW c \in Conexiones, RespuestaDos(c)
    PROVE  InvLecturas'
<1>0. InvTipos /\ deDisco \in [Conexiones -> Seq(DelDisco)]
  BY DEF InvFondo, InvTipos, TypeOK, TipoHilos
<1>1. PICK m : m = Head(deDisco[c])
  OBVIOUS
<1>2. /\ Llega(c, "RTA") /\ Recibir(c) /\ UNCHANGED <<aDisco, lecturas, pedidos>>
      /\ Responder(m.id, m.d1, m.d2)
  BY <1>1 DEF RespuestaDos, historia
<1>3. m \in [t : {"RTA"}, id : Ids, d1 : Buffers, d2 : Buffers] /\ deDisco[c] # <<>>
  <2>1. m \in DelDisco /\ m.t = "RTA" /\ deDisco[c] # <<>>
    BY <1>0, <1>1, <1>2, RecibidoTipo DEF Llega
  <2>. QED BY <2>1, ClaseMensaje
<1>4. CanalesConservan("get")
  <2>1. Callado
    BY DEF Callado
  <2>. QED BY <1>0, <2>1, CalladoConserva
<1>5. CASE UNCHANGED respuestas
  BY <1>2, <1>4, <1>5, LecturasSiguen
<1>6. CASE m.id[1] = "get" /\ cliente
  <2>1. PICK n \in Numeros : /\ LecEn(c, "vuelta", 1, n) /\ Canal(c, "vuelta")[1] = m
                             /\ m.id = <<"get", n>> /\ m.t = "RTA" /\ respuestas[n] = <<>>
    BY <1>0, <1>1, <1>2, <1>6, DeLectura
  <2>2. PICK x : x = [d1 |-> m.d1, d2 |-> m.d2]
    OBVIOUS
  <2>3. respuestas' = [respuestas EXCEPT ![n] = Append(@, x)]
    <3>1. m.id[2] = n
      BY <2>1
    <3>2. respuestas' = [respuestas EXCEPT ![m.id[2]] = Append(@, [d1 |-> m.d1, d2 |-> m.d2])]
      BY <1>2, <1>6 DEF Responder
    <3>. QED BY <2>2, <3>1, <3>2
  <2>4. /\ x \in [d1 : Buffers, d2 : Buffers]
        /\ DeSector(x.d1, lecturas[n].s1) /\ DeSector(x.d2, lecturas[n].s2)
    <3>1. EnteraBien(m, lecturas[n])
      BY <2>1 DEF InvLecturas, InvCanales, EnterasBien, Sentidos
    <3>. QED BY <1>3, <2>2, <3>1 DEF EnteraBien
  <2>5. ASSUME NEW d \in Conexiones, NEW v \in Sentidos, NEW k \in Nat, LecEn(d, v, k, n)'
        PROVE  FALSE
    <3>1. PICK l \in Nat : LecEn(d, v, l, n) /\ ~(d = c /\ v = "vuelta" /\ l = 1)
      BY <1>0, <1>2, <1>3, <2>5, RecibidaVa
    <3>2. EsMitad(m)
      BY <2>1, <3>1 DEF InvLecturas, InvCanales, UnaODosMitades, Sentidos
    <3>. QED BY <2>1, <3>2 DEF EsMitad
  <2>6. RespuestasBien' /\ Contestadas'
    BY <1>0, <1>2, <1>4, <2>1, <2>3, <2>4, <2>5, RespuestaDada
  <2>7. InvCanales' /\ InvPedidos'
    BY <1>2, <1>4, CanalesSiguenLec, PedidosSiguen DEF InvLecturas
  <2>. QED BY <2>6, <2>7 DEF InvLecturas
<1>. QED BY <1>2, <1>5, <1>6 DEF Responder

\* Entry x once the half m came by socket c.
ConMitad(x, c, m) == [x EXCEPT !.cant = x.cant + 1,
                               !.d1 = IF x.h1 = c THEN m.d1 ELSE x.d1,
                               !.d2 = IF x.h2 = c /\ x.h1 # c THEN m.d1 ELSE x.d2]

\* A half answer fills its buffer and leaves room for the other half only.
LEMMA MitadLlega ==
    ASSUME NEW x \in Pedido, NEW r, NEW c, NEW m, NEW y, m.t = "RTAb",
           EntradaBien(x, r), MitadBien(m, c, x, r),
           y = ConMitad(x, c, m)
    PROVE  /\ y.id = x.id /\ y.cant = x.cant + 1 /\ c \in {x.h1, x.h2} /\ x.cant \in {0, 1}
           /\ y.d1 \in Buffers /\ y.d2 \in Buffers
           /\ x.cant = 0 => EntradaBien(y, r)
           /\ x.cant = 1 => DeSector(y.d1, r.s1) /\ DeSector(y.d2, r.s2)
           /\ \A w, d : d # c /\ MitadBien(w, d, x, r) => x.cant = 0 /\ MitadBien(w, d, y, r)
<1>1. /\ y.id = x.id /\ y.h1 = x.h1 /\ y.h2 = x.h2 /\ y.cant = x.cant + 1
      /\ y.d1 = IF x.h1 = c THEN m.d1 ELSE x.d1
      /\ y.d2 = IF x.h2 = c /\ x.h1 # c THEN m.d1 ELSE x.d2
  BY DEF Pedido, ConMitad
<1>2. /\ x.cant \in {0, 1} /\ x.d1 \in Buffers /\ x.d2 \in Buffers
      /\ x.cant = 0 => x.d1 = NULO /\ x.d2 = NULO
      /\ x.cant = 1 => (x.d1 = NULO <=> x.d2 # NULO)
      /\ x.d1 # NULO => DeSector(x.d1, r.s1)
      /\ x.d2 # NULO => DeSector(x.d2, r.s2)
  BY DEF EntradaBien, Pedido
<1>3. \A d, s : DeSector(d, s) => d # NULO /\ d \in Buffers
  BY BuffersAssumption DEF DeSector, Buffers
<1>4. CASE x.h1 = c /\ x.d1 = NULO /\ DeSector(m.d1, r.s1)
  <2>1. y.d1 = m.d1 /\ y.d2 = x.d2
    BY <1>1, <1>4
  <2>2. y.d1 # NULO /\ y.d1 \in Buffers /\ DeSector(y.d1, r.s1)
    BY <1>3, <1>4, <2>1
  <2>3. x.cant = 0 => EntradaBien(y, r)
    BY <1>1, <1>2, <2>1, <2>2 DEF EntradaBien
  <2>4. \A w, d : d # c /\ MitadBien(w, d, x, r) => x.cant = 0 /\ MitadBien(w, d, y, r)
    BY <1>1, <1>2, <1>4, <2>1 DEF MitadBien
  <2>. QED BY <1>1, <1>2, <1>4, <2>1, <2>2, <2>3, <2>4
<1>5. CASE x.h1 # c /\ x.h2 = c /\ x.d2 = NULO /\ DeSector(m.d1, r.s2)
  <2>1. y.d1 = x.d1 /\ y.d2 = m.d1
    BY <1>1, <1>5
  <2>2. y.d2 # NULO /\ y.d2 \in Buffers /\ DeSector(y.d2, r.s2)
    BY <1>3, <1>5, <2>1
  <2>3. x.cant = 0 => EntradaBien(y, r)
    BY <1>1, <1>2, <2>1, <2>2 DEF EntradaBien
  <2>4. \A w, d : d # c /\ MitadBien(w, d, x, r) => x.cant = 0 /\ MitadBien(w, d, y, r)
    BY <1>1, <1>2, <1>5, <2>1 DEF MitadBien
  <2>. QED BY <1>1, <1>2, <1>5, <2>1, <2>2, <2>3, <2>4
<1>. QED BY <1>4, <1>5 DEF MitadBien, PideSector

\* What the arrival of a half makes of the table, entry k being the one it is for.
LlegaMitad(k, c, m) ==
    /\ EsPrimero(k, PedidosDe(pedidos, m.id))
    /\ Unir(k, m.id, c, m.d1)
    /\ Recibir(c)

LEMMA MitadLecturas ==
    ASSUME InvFondo, InvLecturas, NEW c \in Conexiones, NEW k \in Entradas, NEW n \in Numeros,
           NEW m, Llega(c, "RTAb"), m = Head(deDisco[c]), LecEn(c, "vuelta", 1, n),
           Canal(c, "vuelta")[1] = m, m.id = <<"get", n>>, m.t = "RTAb", respuestas[n] = <<>>,
           EntradaBien(pedidos[k], lecturas[n]),
           MitadBien(m, c, pedidos[k], lecturas[n]),
           LlegaMitad(k, c, m), UNCHANGED <<aDisco, lecturas>>, CanalesConservan("get")
    PROVE  InvLecturas'
<1>0. InvTipos /\ deDisco[c] # <<>> /\ pedidos \in [Entradas -> Pedido]
  BY DEF InvFondo, InvTipos, TypeOK, TipoTablas, Llega
<1>1. PICK x : x = pedidos[k]
  OBVIOUS
<1>2. PICK y : y = ConMitad(x, c, m)
  OBVIOUS
<1>3. PICK r : r = lecturas[n]
  OBVIOUS
<1>4. /\ y.id = x.id /\ y.cant = x.cant + 1 /\ x.cant \in {0, 1}
      /\ y.d1 \in Buffers /\ y.d2 \in Buffers
      /\ x.cant = 0 => EntradaBien(y, r)
      /\ x.cant = 1 => DeSector(y.d1, r.s1) /\ DeSector(y.d2, r.s2)
      /\ \A w, d : d # c /\ MitadBien(w, d, x, r) => x.cant = 0 /\ MitadBien(w, d, y, r)
  <2>1. x \in Pedido /\ EntradaBien(x, r) /\ MitadBien(m, c, x, r) /\ m.t = "RTAb"
    BY <1>0, <1>1, <1>3
  <2>. QED BY <1>2, <2>1, MitadLlega
<1>5. PICK p : p = AgregarRespuesta(pedidos, k, c, m.d1)
  OBVIOUS
<1>6. p = [pedidos EXCEPT ![k] = y] /\ p[k] = y
  BY <1>0, <1>1, <1>2, <1>5 DEF AgregarRespuesta, ConMitad
<1>7. x.id = <<"get", n>>
  BY <1>1 DEF LlegaMitad, EsPrimero, PedidosDe
\* The other half of the read, if there is one, is on another socket.
<1>8. ASSUME NEW d \in Conexiones, NEW v \in Sentidos, NEW l \in Nat, LecEn(d, v, l, n)'
      PROVE  /\ d # c /\ EsMitad(Canal(d, v)'[l]) /\ x.cant = 0
             /\ MitadBien(Canal(d, v)'[l], d, y, r)
  <2>1. PICK j \in Nat : /\ LecEn(d, v, j, n) /\ Canal(d, v)[j] = Canal(d, v)'[l]
                         /\ ~(d = c /\ v = "vuelta" /\ j = 1)
    BY <1>0, <1>8, RecibidaVa DEF LlegaMitad
  <2>2. d # c /\ EsMitad(Canal(d, v)[j])
    BY <2>1 DEF InvLecturas, InvCanales, UnaODosMitades, Sentidos
  <2>3. k \in PedidosDe(pedidos, <<"get", n>>)
    BY <1>1, <1>7 DEF PedidosDe
  <2>4. MitadBien(Canal(d, v)[j], d, x, r)
    BY <1>1, <1>3, <2>1, <2>2, <2>3 DEF InvLecturas, InvPedidos, MitadesBien
  <2>. QED BY <1>4, <2>1, <2>2, <2>4
<1>9. PICK z : z = pedidos'[k]
  OBVIOUS
<1>10. /\ \A e \in Entradas : e # k => pedidos'[e] = pedidos[e]
       /\ IF x.cant = 1 THEN Responder(m.id, y.d1, y.d2) /\ z.id = NULO
                        ELSE UNCHANGED respuestas /\ z = y
  <2>1. IF y.cant = 2
        THEN Responder(m.id, y.d1, y.d2) /\ pedidos' = EliminarPedido(p, k)
        ELSE pedidos' = p /\ UNCHANGED respuestas
    BY <1>5, <1>6 DEF LlegaMitad, Unir
  <2>2. y.cant = 2 <=> x.cant = 1
    BY <1>4
  <2>3. y \in Pedido
    <3>1. x \in Pedido /\ x.cant + 1 \in Nat
      BY <1>0, <1>1 DEF Pedido
    <3>2. \A s \in Pedido, i \in Nat, a, b \in Buffers :
              [s EXCEPT !.cant = i, !.d1 = a, !.d2 = b] \in Pedido
      BY DEF Pedido
    <3>3. /\ (IF x.h1 = c THEN m.d1 ELSE x.d1) = y.d1
          /\ (IF x.h2 = c /\ x.h1 # c THEN m.d1 ELSE x.d2) = y.d2
      BY <1>2, <3>1 DEF Pedido, ConMitad
    <3>4. y = [x EXCEPT !.cant = x.cant + 1, !.d1 = y.d1, !.d2 = y.d2]
      BY <1>2, <3>3 DEF ConMitad
    <3>5. [x EXCEPT !.cant = x.cant + 1, !.d1 = y.d1, !.d2 = y.d2] \in Pedido
      BY <1>4, <3>1, <3>2
    <3>. QED BY <3>4, <3>5
  <2>4. /\ \A e \in Entradas : e # k => EliminarPedido(p, k)[e] = pedidos[e]
        /\ EliminarPedido(p, k)[k].id = NULO
    <3>1. p \in [Entradas -> Pedido] /\ \A e \in Entradas : e # k => p[e] = pedidos[e]
      BY <1>0, <1>6, <2>3
    <3>. QED BY <3>1 DEF EliminarPedido, Pedido
  <2>5. CASE y.cant = 2
    BY <1>9, <2>1, <2>2, <2>4, <2>5
  <2>6. CASE y.cant # 2
    <3>1. \A e \in Entradas : e # k => p[e] = pedidos[e]
      BY <1>0, <1>6
    <3>2. pedidos' = p /\ UNCHANGED respuestas /\ z = y
      BY <1>6, <1>9, <2>1, <2>6
    <3>. QED BY <2>2, <2>6, <3>1, <3>2
  <2>. QED BY <2>5, <2>6
<1>11. ASSUME NEW i \in Numeros, NEW e \in PedidosDe(pedidos', <<"get", i>>)
       PROVE  /\ e \in PedidosDe(pedidos, <<"get", i>>)
              /\ e # k => pedidos'[e] = pedidos[e]
              /\ e = k => i = n /\ x.cant = 0 /\ pedidos'[e] = y
  <2>1. <<"get", i>> # NULO
    BY IdsAssumption DEF Ids, Numeros
  <2>2. CASE e # k
    BY <1>10, <2>2 DEF PedidosDe
  <2>3. CASE e = k
    <3>1. z.id = <<"get", i>>
      BY <1>9, <2>3 DEF PedidosDe
    <3>2. x.cant = 0 /\ z = y
      BY <1>4, <1>10, <2>1, <3>1
    <3>3. i = n
      BY <1>4, <1>7, <3>1, <3>2
    <3>. QED BY <1>1, <1>7, <1>9, <2>3, <3>2, <3>3 DEF PedidosDe
  <2>. QED BY <2>2, <2>3
<1>12. MitadesBien'
  <2>. SUFFICES ASSUME NEW d \in Conexiones, NEW v \in Sentidos, NEW l \in Nat, NEW i \in Numeros,
                       LecEn(d, v, l, i)', EsMitad(Canal(d, v)'[l]),
                       NEW e \in PedidosDe(pedidos', <<"get", i>>)
                PROVE  MitadBien(Canal(d, v)'[l], d, pedidos'[e], lecturas[i])
    BY DEF MitadesBien, Numeros
  <2>1. CASE e = k
    BY <1>3, <1>8, <1>11, <2>1
  <2>2. CASE e # k
    <3>1. PICK j \in Nat : LecEn(d, v, l + j, i) /\ Canal(d, v)[l + j] = Canal(d, v)'[l]
      BY LecVino
    <3>2. l + j \in Nat
      OBVIOUS
    <3>3. MitadBien(Canal(d, v)[l + j], d, pedidos[e], lecturas[i])
      BY <1>11, <3>1, <3>2 DEF InvLecturas, InvPedidos, MitadesBien
    <3>. QED BY <1>11, <2>2, <3>1, <3>3
  <2>. QED BY <2>1, <2>2
<1>13. EntradasBien'
  <2>. SUFFICES ASSUME NEW e \in Entradas, pedidos'[e].id # NULO
                PROVE  \E i \in Numeros : /\ pedidos'[e].id = <<"get", i>>
                                          /\ EntradaBien(pedidos'[e], lecturas[i])
    BY DEF EntradasBien, Numeros
  <2>1. CASE e = k
    <3>1. x.cant = 0 /\ pedidos'[e] = y
      BY <1>4, <1>9, <1>10, <2>1
    <3>. QED BY <1>3, <1>4, <1>7, <3>1
  <2>2. CASE e # k
    BY <1>10, <2>2 DEF InvLecturas, InvPedidos, EntradasBien
  <2>. QED BY <2>1, <2>2
<1>14. EntradaPorMitad'
  <2>. SUFFICES ASSUME Alcanza
                PROVE  /\ \A e \in Entradas : e > Len(lecturas) => pedidos'[e].id = NULO
                       /\ \A d \in Conexiones, v \in Sentidos, l \in Nat, i \in Numeros :
                             LecEn(d, v, l, i)' /\ EsMitad(Canal(d, v)'[l])
                                 => PedidosDe(pedidos', <<"get", i>>) # {}
    BY DEF EntradaPorMitad, Numeros
  <2>1. ASSUME NEW e \in Entradas, e > Len(lecturas)
        PROVE  pedidos'[e].id = NULO
    <3>1. pedidos[e].id = NULO
      BY <2>1 DEF InvLecturas, InvPedidos, EntradaPorMitad
    <3>2. e # k
      <4>1. <<"get", n>> \in Ids
        BY DEF Ids, Numeros
      <4>2. pedidos[k].id # NULO
        BY <1>1, <1>7, <4>1, IdsAssumption
      <4>. QED BY <3>1, <4>2
    <3>. QED BY <1>10, <3>1, <3>2
  <2>2. ASSUME NEW d \in Conexiones, NEW v \in Sentidos, NEW l \in Nat, NEW i \in Numeros,
               LecEn(d, v, l, i)', EsMitad(Canal(d, v)'[l])
        PROVE  \E e \in Entradas : pedidos'[e].id = <<"get", i>>
    <3>1. CASE i = n
      <4>1. x.cant = 0
        BY <1>8, <2>2, <3>1
      <4>. QED BY <1>4, <1>7, <1>9, <1>10, <3>1, <4>1
    <3>2. CASE i # n
      <4>1. PICK j \in Nat : LecEn(d, v, l + j, i) /\ Canal(d, v)[l + j] = Canal(d, v)'[l]
        BY <2>2, LecVino
      <4>2. l + j \in Nat
        OBVIOUS
      <4>3. PICK e \in Entradas : pedidos[e].id = <<"get", i>>
        BY <2>2, <4>1, <4>2 DEF InvLecturas, InvPedidos, EntradaPorMitad, PedidosDe
      <4>4. e # k
        BY <1>1, <1>7, <3>2, <4>3
      <4>. QED BY <1>10, <4>3, <4>4
    <3>. QED BY <3>1, <3>2
  <2>. QED BY <2>1, <2>2 DEF PedidosDe
<1>15. InvCanales'
  BY CanalesSiguenLec DEF InvLecturas
<1>16. RespuestasBien' /\ Contestadas'
  <2>1. CASE UNCHANGED respuestas
    <3>1. RespuestasBien'
      BY <2>1 DEF InvLecturas, RespuestasBien, Numeros
    <3>2. Contestadas'
      <4>. SUFFICES ASSUME NEW d \in Conexiones, NEW v \in Sentidos, NEW l \in Nat,
                           NEW i \in Numeros, LecEn(d, v, l, i)'
                    PROVE  respuestas[i] = <<>>
        BY <2>1 DEF InvLecturas, Contestadas, Numeros
      <4>1. PICK j \in Nat : LecEn(d, v, l + j, i)
        BY LecVino
      <4>2. l + j \in Nat
        OBVIOUS
      <4>. QED BY <4>1, <4>2 DEF InvLecturas, Contestadas
    <3>. QED BY <3>1, <3>2
  <2>2. CASE x.cant = 1 /\ respuestas' # respuestas
    <3>1. PICK a : a = [d1 |-> y.d1, d2 |-> y.d2]
      OBVIOUS
    <3>2. respuestas' = [respuestas EXCEPT ![n] = Append(@, a)]
      <4>1. m.id[2] = n
        OBVIOUS
      <4>2. respuestas' = [respuestas EXCEPT ![m.id[2]] = Append(@, [d1 |-> y.d1, d2 |-> y.d2])]
        BY <1>10, <2>2 DEF Responder
      <4>. QED BY <3>1, <4>1, <4>2
    <3>3. /\ a \in [d1 : Buffers, d2 : Buffers]
          /\ DeSector(a.d1, lecturas[n].s1) /\ DeSector(a.d2, lecturas[n].s2)
      BY <1>3, <1>4, <2>2, <3>1
    <3>4. \A d \in Conexiones, v \in Sentidos, l \in Nat : ~LecEn(d, v, l, n)'
      BY <1>8, <2>2
    <3>. QED BY <1>0, <3>2, <3>3, <3>4, RespuestaDada
  <2>. QED BY <1>10, <2>1, <2>2
<1>. QED BY <1>12, <1>13, <1>14, <1>15, <1>16 DEF InvLecturas, InvPedidos

LEMMA UnoLecturas ==
    ASSUME InvFondo, InvLecturas, NEW c \in Conexiones, RespuestaUno(c)
    PROVE  InvLecturas'
<1>0. InvTipos /\ deDisco \in [Conexiones -> Seq(DelDisco)]
  BY DEF InvFondo, InvTipos, TypeOK, TipoHilos
<1>1. PICK m : m = Head(deDisco[c])
  OBVIOUS
<1>2. CanalesConservan("get")
  <2>1. Callado
    BY DEF Callado
  <2>. QED BY <1>0, <2>1, CalladoConserva
<1>3. Llega(c, "RTAb") /\ UNCHANGED <<aDisco, lecturas>>
  BY DEF RespuestaUno, historia
<1>4. CASE UNCHANGED <<pedidos, respuestas>>
  BY <1>2, <1>3, <1>4, LecturasSiguen
<1>5. ASSUME NEW k \in Entradas, EsPrimero(k, PedidosDe(pedidos, m.id)), Unir(k, m.id, c, m.d1),
             IF c \in {pedidos[k].h1, pedidos[k].h2} THEN Recibir(c) ELSE SinLeer(c)
      PROVE  InvLecturas'
  <2>1. m.id \in Ids /\ pedidos[k].id = m.id
    <3>1. m \in DelDisco /\ m.t = "RTAb"
      BY <1>0, <1>1, <1>3, RecibidoTipo DEF Llega
    <3>2. m.id \in Ids
      BY <3>1, ClaseMensaje
    <3>. QED BY <1>5, <3>2 DEF EsPrimero, PedidosDe
  <2>2. PICK i \in Numeros : m.id = <<"get", i>> /\ EntradaBien(pedidos[k], lecturas[i])
    BY <2>1, IdsAssumption DEF InvLecturas, InvPedidos, EntradasBien
  <2>3. PICK n \in Numeros : /\ LecEn(c, "vuelta", 1, n) /\ Canal(c, "vuelta")[1] = m
                             /\ m.id = <<"get", n>> /\ m.t = "RTAb" /\ respuestas[n] = <<>>
    BY <1>0, <1>1, <1>3, <2>2, DeLectura
  <2>4. i = n
    BY <2>2, <2>3
  <2>5. MitadBien(m, c, pedidos[k], lecturas[n])
    <3>1. k \in PedidosDe(pedidos, <<"get", n>>) /\ EsMitad(m) /\ "vuelta" \in Sentidos
      BY <2>1, <2>3 DEF PedidosDe, EsMitad, Sentidos
    <3>. QED BY <2>3, <3>1 DEF InvLecturas, InvPedidos, MitadesBien
  <2>6. LlegaMitad(k, c, m)
    BY <1>5, <2>5 DEF LlegaMitad, MitadBien
  <2>. QED BY <1>1, <1>2, <1>3, <2>2, <2>3, <2>4, <2>5, <2>6, MitadLecturas
<1>. QED BY <1>1, <1>4, <1>5 DEF RespuestaUno

-----------------------------------------------------------------------------
(* The requests. *)

\* The two places a read is split between lead to two different disks.
LEMMA DosSockets ==
    ASSUME InvTabla, NEW t \in Pos, NEW u \in Pos, t # u, sDiscos[t].hilo \in Conexiones
    PROVE  sDiscos[t].hilo # sDiscos[u].hilo
<1>. SUFFICES ASSUME sDiscos[t].hilo = sDiscos[u].hilo
              PROVE  FALSE
  OBVIOUS
<1>1. sDiscos[t].nombre = sDiscos[u].nombre
  BY DEF InvTabla, RutaCorrecta
<1>2. sDiscos[t].nombre = NULO
  BY <1>1 DEF InvTabla, NombresUnicos
<1>. QED BY <1>2, ValoresAssumption DEF InvTabla, LugarLibre

\* What a read adds to the channels, f being what it sends as its n-th read.
SonDeLaLectura(f, n, par, h1, h2) == \A c \in Conexiones : \A k \in 1..Len(f[c]) :
    /\ k = 1 /\ f[c][k].id = <<"get", n>>
    /\ \/ /\ h1 = h2 /\ c = h1 /\ f[c][k].t = "GET2"
          /\ f[c][k].s1 = par[1] /\ f[c][k].s2 = par[2]
       \/ /\ h1 # h2 /\ c = h1 /\ f[c][k].t = "GET1" /\ f[c][k].s1 = par[1]
       \/ /\ h1 # h2 /\ c = h2 /\ f[c][k].t = "GET1" /\ f[c][k].s1 = par[2]

LEMMA RepartirManda ==
    ASSUME InvTipos, InvTabla, NEW par \in Pares, NEW t1 \in Pos, NEW t2 \in Pos,
           Repartir(par, t1, t2)
    PROVE  \E f \in [Conexiones -> Seq(AlDisco)] :
              /\ \E sigue : Enviar(f, sigue)
              /\ SonDeLaLectura(f, Len(lecturas) + 1, par, sDiscos[t1].hilo, sDiscos[t2].hilo)
<1>1. PICK f \in [Conexiones -> Seq(AlDisco)] :
              /\ \E sigue : Enviar(f, sigue)
              /\ MandaLectura(f, <<"get", Len(lecturas) + 1>>, par, t1, t2)
  BY RepartirEnvia
<1>2. PICK n : n = Len(lecturas) + 1
  OBVIOUS
<1>3. PICK h1 : h1 = sDiscos[t1].hilo
  OBVIOUS
<1>4. PICK h2 : h2 = sDiscos[t2].hilo
  OBVIOUS
<1>5. t1 # t2 /\ h1 \in Conexiones \union {h2} /\ h2 \in Conexiones => h1 # h2
  BY <1>3, <1>4, DosSockets
<1>6. t1 # t2 /\ h1 \in Conexiones => h1 # h2
  BY <1>3, <1>4, DosSockets
<1>7. ASSUME NEW c \in Conexiones, NEW k \in 1..Len(f[c])
      PROVE  /\ k = 1 /\ f[c][k].id = <<"get", n>>
             /\ \/ /\ h1 = h2 /\ c = h1 /\ f[c][k].t = "GET2"
                   /\ f[c][k].s1 = par[1] /\ f[c][k].s2 = par[2]
                \/ /\ h1 # h2 /\ c = h1 /\ f[c][k].t = "GET1" /\ f[c][k].s1 = par[1]
                \/ /\ h1 # h2 /\ c = h2 /\ f[c][k].t = "GET1" /\ f[c][k].s1 = par[2]
  <2>1. CASE t1 = t2 /\ c = h1 /\ k = 1 /\ f[c][k] = Get2(<<"get", n>>, par[1], par[2])
    BY <1>3, <1>4, <2>1 DEF Get2
  <2>2. CASE t1 # t2 /\ c = h1 /\ k = 1 /\ f[c][k] = Get1(<<"get", n>>, par[1])
    BY <1>6, <2>2 DEF Get1
  <2>3. CASE /\ t1 # t2 /\ c = h2 /\ k = IF c = h1 THEN 2 ELSE 1
             /\ f[c][k] = Get1(<<"get", n>>, par[2])
    <3>1. h1 # h2
      BY <1>5, <2>3
    <3>. QED BY <2>3, <3>1 DEF Get1
  <2>. QED BY <1>1, <1>2, <1>3, <1>4, <1>7, <2>1, <2>2, <2>3 DEF MandaLectura
<1>. QED BY <1>1, <1>2, <1>3, <1>4, <1>7 DEF SonDeLaLectura

\* A message of read n, just asked for: both sectors to one disk or one to each.
EsNueva(w, c, n, par, h1, h2) ==
    /\ w.id = <<"get", n>>
    /\ \/ h1 = h2 /\ c = h1 /\ w.t = "GET2" /\ w.s1 = par[1] /\ w.s2 = par[2]
       \/ h1 # h2 /\ c = h1 /\ w.t = "GET1" /\ w.s1 = par[1]
       \/ h1 # h2 /\ c = h2 /\ w.t = "GET1" /\ w.s1 = par[2]

LEMMA RepartirOrigen ==
    ASSUME InvTipos, NEW n, NEW par, NEW h1, NEW h2, UNCHANGED deDisco,
           NEW f \in [Conexiones -> Seq(AlDisco)], NEW sigue, Enviar(f, sigue),
           SonDeLaLectura(f, n, par, h1, h2),
           NEW c \in Conexiones, NEW v \in Sentidos, NEW k \in Nat, Trae(c, v, k)'
    PROVE  \/ Trae(c, v, k) /\ Canal(c, v)[k] = Canal(c, v)'[k]
           \/ /\ v = "ida" /\ k = Len(aDisco[c]) + 1
              /\ EsNueva(Canal(c, v)'[k], c, n, par, h1, h2)
<1>1. CASE v = "vuelta"
  BY <1>1 DEF Trae, Canal
<1>2. CASE v = "ida"
  <2>1. k \in 1..Len(aDisco'[c]) /\ Canal(c, v)' = aDisco'[c] /\ Canal(c, v) = aDisco[c]
    BY <1>2 DEF Trae, Canal
  <2>2. aDisco \in [Conexiones -> Seq(AlDisco)]
    BY DEF InvTipos, TypeOK, TipoHilos
  <2>3. \/ k \in 1..Len(aDisco[c]) /\ aDisco'[c][k] = aDisco[c][k]
        \/ \E l \in 1..Len(f[c]) : k = Len(aDisco[c]) + l /\ aDisco'[c][k] = f[c][l]
    BY <2>1, <2>2, EnviarOrigen
  <2>4. CASE k \in 1..Len(aDisco[c]) /\ aDisco'[c][k] = aDisco[c][k]
    BY <2>1, <2>4 DEF Trae
  <2>5. CASE \E l \in 1..Len(f[c]) : k = Len(aDisco[c]) + l /\ aDisco'[c][k] = f[c][l]
    <3>1. PICK l \in 1..Len(f[c]) : k = Len(aDisco[c]) + l /\ aDisco'[c][k] = f[c][l]
      BY <2>5
    <3>2. PICK w : w = f[c][l]
      OBVIOUS
    <3>3. l = 1 /\ EsNueva(w, c, n, par, h1, h2)
      BY <3>2 DEF SonDeLaLectura, EsNueva
    <3>. QED BY <1>2, <2>1, <3>1, <3>2, <3>3
  <2>. QED BY <2>3, <2>4, <2>5
<1>. QED BY <1>1, <1>2 DEF Sentidos

PedidoNuevo(n, h1, h2) ==
    [id |-> <<"get", n>>, cant |-> 0, h1 |-> h1, h2 |-> h2, d1 |-> NULO, d2 |-> NULO]

\* What the table of reads is after read n, x being its entry, if it got one.
TablaNueva(n, x) ==
    /\ \A e \in Entradas : pedidos'[e] = pedidos[e] \/ pedidos'[e] = x
    /\ \A i \in Numeros :
          /\ \A e \in PedidosDe(pedidos', <<"get", i>>) :
                e \in PedidosDe(pedidos, <<"get", i>>) /\ pedidos'[e] = pedidos[e]
          /\ \A e \in PedidosDe(pedidos, <<"get", i>>) : e \in PedidosDe(pedidos', <<"get", i>>)
    /\ \A e \in PedidosDe(pedidos', <<"get", n>>) : pedidos'[e] = x
    /\ Alcanza => /\ PedidosDe(pedidos', <<"get", n>>) # {}
                  /\ \A e \in Entradas : e > n => pedidos'[e].id = NULO

LEMMA RepartirTabla ==
    ASSUME InvTipos, InvPedidos, Len(lecturas) < MaxGet, NEW par, NEW t1 \in Pos, NEW t2 \in Pos,
           NEW n, n = Len(lecturas) + 1, Repartir(par, t1, t2),
           NEW x, x = PedidoNuevo(n, sDiscos[t1].hilo, sDiscos[t2].hilo)
    PROVE  TablaNueva(n, x)
<1>0. /\ pedidos \in [Entradas -> Pedido] /\ Len(lecturas) \in Nat
      /\ <<"get", n>> # NULO /\ \A i \in Numeros : <<"get", i>> # NULO /\ i # n
  <2>1. pedidos \in [Entradas -> Pedido] /\ Len(lecturas) \in Nat
    BY LenProperties DEF InvTipos, TypeOK, TipoTablas, TipoHistoria
  <2>2. <<"get", n>> \in Ids /\ \A i \in Numeros : <<"get", i>> \in Ids /\ i # n
    BY <2>1 DEF Ids, Numeros
  <2>. QED BY <2>1, <2>2, IdsAssumption
<1>1. x.id = <<"get", n>>
  BY DEF PedidoNuevo
\* No entry is of the read that is being made.
<1>2. \A e \in Entradas : pedidos[e].id # <<"get", n>>
  <2>. SUFFICES ASSUME NEW e \in Entradas, pedidos[e].id = <<"get", n>>
                PROVE  FALSE
    OBVIOUS
  <2>1. PICK i \in Numeros : pedidos[e].id = <<"get", i>>
    BY <1>0 DEF InvPedidos, EntradasBien
  <2>. QED BY <1>0, <2>1
<1>3. CASE PedidosLibres(pedidos) = {} /\ UNCHANGED pedidos
  <2>1. Alcanza => n \in PedidosLibres(pedidos)
    <3>. SUFFICES ASSUME Alcanza
                  PROVE  n \in PedidosLibres(pedidos)
      OBVIOUS
    <3>1. n \in Entradas /\ n > Len(lecturas)
      BY <1>0, PedidosAssumption, EntornoAssumption DEF Alcanza, Entradas
    <3>. QED BY <3>1 DEF InvPedidos, EntradaPorMitad, PedidosLibres
  <2>2. ~Alcanza
    BY <1>3, <2>1
  <2>. QED BY <1>2, <1>3, <2>2 DEF TablaNueva, PedidosDe
<1>4. ASSUME NEW k \in Entradas, EsPrimero(k, PedidosLibres(pedidos)),
             pedidos' = [pedidos EXCEPT ![k] = x]
      PROVE  TablaNueva(n, x)
  <2>1. pedidos[k].id = NULO /\ \A j \in PedidosLibres(pedidos) : k <= j
    BY <1>4 DEF EsPrimero, PedidosLibres
  <2>2. pedidos'[k] = x /\ \A e \in Entradas : e # k => pedidos'[e] = pedidos[e]
    BY <1>0, <1>4
  <2>3. ASSUME NEW i \in Numeros
        PROVE  /\ \A e \in PedidosDe(pedidos', <<"get", i>>) :
                    e \in PedidosDe(pedidos, <<"get", i>>) /\ pedidos'[e] = pedidos[e]
               /\ \A e \in PedidosDe(pedidos, <<"get", i>>) : e \in PedidosDe(pedidos', <<"get", i>>)
    <3>1. <<"get", i>> # NULO /\ <<"get", i>> # <<"get", n>>
      BY <1>0
    <3>2. \A e \in Entradas : pedidos'[e].id = <<"get", i>> <=> pedidos[e].id = <<"get", i>>
      BY <1>1, <2>1, <2>2, <3>1
    <3>3. \A e \in Entradas : pedidos[e].id = <<"get", i>> => e # k
      BY <2>1, <3>1
    <3>. QED BY <2>2, <3>2, <3>3 DEF PedidosDe
  <2>4. \A e \in PedidosDe(pedidos', <<"get", n>>) : pedidos'[e] = x
    BY <1>2, <2>2 DEF PedidosDe
  <2>5. ASSUME Alcanza
        PROVE  /\ PedidosDe(pedidos', <<"get", n>>) # {}
               /\ \A e \in Entradas : e > n => pedidos'[e].id = NULO
    <3>1. n \in PedidosLibres(pedidos)
      <4>1. n \in Entradas /\ n > Len(lecturas)
        BY <1>0, <2>5, PedidosAssumption, EntornoAssumption DEF Alcanza, Entradas
      <4>. QED BY <2>5, <4>1 DEF InvPedidos, EntradaPorMitad, PedidosLibres
    <3>2. k <= n
      BY <2>1, <3>1
    <3>3. \A e \in Entradas : e > n => e # k /\ e > Len(lecturas)
      BY <1>0, <3>2 DEF Entradas
    <3>4. \A e \in Entradas : e > n => pedidos'[e].id = NULO
      BY <2>2, <2>5, <3>3 DEF InvPedidos, EntradaPorMitad
    <3>. QED BY <1>1, <2>2, <3>4 DEF PedidosDe
  <2>. QED BY <2>2, <2>3, <2>4, <2>5 DEF TablaNueva
<1>5. \/ PedidosLibres(pedidos) = {} /\ UNCHANGED pedidos
      \/ \E k \in Entradas : /\ EsPrimero(k, PedidosLibres(pedidos))
                             /\ pedidos' = [pedidos EXCEPT ![k] = x]
  BY DEF Repartir, AgregarPedido, PedidoNuevo
<1>. QED BY <1>3, <1>4, <1>5

LEMMA RepartirLecturas ==
    ASSUME InvFondo, InvLecturas, Len(lecturas) < MaxGet, UNCHANGED deDisco,
           NEW par \in Pares, NEW t1 \in Pos, NEW t2 \in Pos, Repartir(par, t1, t2)
    PROVE  InvLecturas'
<1>0. /\ InvTipos /\ InvTabla /\ InvPedidos
      /\ lecturas \in Seq([s1 : Sectores, s2 : Sectores, v1 : Nat, v2 : Nat])
      /\ respuestas \in Seq(Seq([d1 : Buffers, d2 : Buffers]))
      /\ Len(respuestas) = Len(lecturas)
  BY DEF InvFondo, InvLecturas, Contestadas, InvTipos, TypeOK, TipoHistoria
<1>1. PICK n : n = Len(lecturas) + 1
  OBVIOUS
<1>2. PICK h1 : h1 = sDiscos[t1].hilo
  OBVIOUS
<1>3. PICK h2 : h2 = sDiscos[t2].hilo
  OBVIOUS
<1>4. PICK x : x = PedidoNuevo(n, h1, h2)
  OBVIOUS
<1>5. PICK r : r = [s1 |-> par[1], s2 |-> par[2],
                   v1 |-> Debe(par[1], t1, t2), v2 |-> Debe(par[2], t1, t2)]
  OBVIOUS
<1>6. /\ Numeros' = Numeros \union {n} /\ n \notin Numeros /\ n \in Numeros' /\ n - 1 = Len(lecturas)
      /\ lecturas'[n] = r /\ \A i \in Numeros : lecturas'[i] = lecturas[i]
      /\ respuestas'[n] = <<>> /\ \A i \in Numeros : respuestas'[i] = respuestas[i]
      /\ Len(respuestas') = n /\ Len(lecturas') = n
  <2>1. lecturas' = Append(lecturas, r) /\ respuestas' = Append(respuestas, <<>>)
    BY <1>5 DEF Repartir
  <2>2. /\ Len(lecturas') = n /\ Len(lecturas) \in Nat
        /\ lecturas'[n] = r /\ \A i \in Numeros : lecturas'[i] = lecturas[i]
    <3>. DEFINE s == lecturas
    <3>1. /\ Len(Append(s, r)) = Len(s) + 1 /\ Len(s) \in Nat
          /\ Append(s, r)[Len(s) + 1] = r
          /\ \A i \in 1..Len(s) : Append(s, r)[i] = s[i]
      BY <1>0, AppendProperties
    <3>. QED BY <1>1, <2>1, <3>1 DEF Numeros
  <2>3. /\ Len(respuestas') = n
        /\ respuestas'[n] = <<>> /\ \A i \in Numeros : respuestas'[i] = respuestas[i]
    <3>. DEFINE s == respuestas
    <3>1. /\ Len(Append(s, <<>>)) = Len(s) + 1 /\ Len(s) \in Nat
          /\ Append(s, <<>>)[Len(s) + 1] = <<>>
          /\ \A i \in 1..Len(s) : Append(s, <<>>)[i] = s[i]
      BY <1>0, AppendProperties
    <3>. QED BY <1>0, <1>1, <2>1, <3>1 DEF Numeros
  <2>4. Numeros' = 1..n /\ Numeros = 1..(n - 1) /\ n \in Nat /\ n >= 1
    BY <1>1, <2>2 DEF Numeros
  <2>. QED BY <1>1, <2>2, <2>3, <2>4
<1>7. TablaNueva(n, x)
  BY <1>0, <1>1, <1>2, <1>3, <1>4, RepartirTabla
<1>8. PICK f \in [Conexiones -> Seq(AlDisco)] :
         (\E sigue : Enviar(f, sigue)) /\ SonDeLaLectura(f, n, par, h1, h2)
  BY <1>0, <1>1, <1>2, <1>3, RepartirManda
\* Where each message of a read was, or that it is one of the new ones.
<1>9. ASSUME NEW c \in Conexiones, NEW v \in Sentidos, NEW k \in Nat,
             Trae(c, v, k)', De(Canal(c, v)'[k], "get")
      PROVE  \/ \E i \in Numeros : /\ LecEn(c, v, k, i) /\ LecEn(c, v, k, i)'
                                   /\ Canal(c, v)[k] = Canal(c, v)'[k]
             \/ /\ v = "ida" /\ k = Len(aDisco[c]) + 1 /\ LecEn(c, v, k, n)'
                /\ EsNueva(Canal(c, v)'[k], c, n, par, h1, h2)
  <2>1. \/ Trae(c, v, k) /\ Canal(c, v)[k] = Canal(c, v)'[k]
        \/ /\ v = "ida" /\ k = Len(aDisco[c]) + 1
           /\ EsNueva(Canal(c, v)'[k], c, n, par, h1, h2)
    BY <1>0, <1>8, <1>9, RepartirOrigen
  <2>2. CASE Trae(c, v, k) /\ Canal(c, v)[k] = Canal(c, v)'[k]
    <3>1. PICK i \in Numeros : LecEn(c, v, k, i)
      BY <1>9, <2>2 DEF InvLecturas, InvCanales, ConLectura
    <3>2. LecEn(c, v, k, i)'
      BY <1>9, <2>2, <3>1 DEF LecEn
    <3>. QED BY <2>2, <3>1, <3>2
  <2>3. CASE EsNueva(Canal(c, v)'[k], c, n, par, h1, h2)
    <3>1. LecEn(c, v, k, n)'
      BY <1>9, <2>3 DEF LecEn, EsNueva
    <3>. QED BY <2>1, <2>2, <2>3, <3>1
  <2>. QED BY <2>1, <2>2, <2>3
\* The same, with the number of the read.
<1>10. ASSUME NEW c \in Conexiones, NEW v \in Sentidos, NEW k \in Nat, NEW i \in Numeros',
              LecEn(c, v, k, i)'
       PROVE  \/ i \in Numeros /\ LecEn(c, v, k, i) /\ Canal(c, v)[k] = Canal(c, v)'[k]
              \/ /\ i = n /\ v = "ida" /\ k = Len(aDisco[c]) + 1
                 /\ EsNueva(Canal(c, v)'[k], c, n, par, h1, h2)
  <2>1. Trae(c, v, k)' /\ De(Canal(c, v)'[k], "get") /\ Canal(c, v)'[k].id = <<"get", i>>
    BY <1>10 DEF LecEn
  <2>2. ASSUME NEW j \in Numeros, LecEn(c, v, k, j), Canal(c, v)[k] = Canal(c, v)'[k]
        PROVE  i = j
    BY <2>1, <2>2 DEF LecEn
  <2>3. EsNueva(Canal(c, v)'[k], c, n, par, h1, h2) => i = n
    BY <2>1 DEF EsNueva
  <2>. QED BY <1>9, <2>1, <2>2, <2>3
<1>11. ConLectura'
  <2>. SUFFICES ASSUME NEW c \in Conexiones, NEW v \in Sentidos, NEW k \in Nat,
                       Trae(c, v, k)', De(Canal(c, v)'[k], "get")
                PROVE  \E i \in Numeros' : LecEn(c, v, k, i)'
    BY DEF ConLectura
  <2>. QED BY <1>6, <1>9
<1>12. EnterasBien'
  <2>. SUFFICES ASSUME NEW c \in Conexiones, NEW v \in Sentidos, NEW k \in Nat,
                       NEW i \in Numeros', LecEn(c, v, k, i)'
                PROVE  EnteraBien(Canal(c, v)'[k], lecturas'[i])
    BY DEF EnterasBien
  <2>1. CASE i \in Numeros /\ LecEn(c, v, k, i) /\ Canal(c, v)[k] = Canal(c, v)'[k]
    BY <1>6, <2>1 DEF InvLecturas, InvCanales, EnterasBien
  <2>2. CASE i = n /\ EsNueva(Canal(c, v)'[k], c, n, par, h1, h2)
    <3>1. r.s1 = par[1] /\ r.s2 = par[2]
      BY <1>5
    <3>. QED BY <1>6, <2>2, <3>1 DEF EsNueva, EnteraBien
  <2>. QED BY <1>10, <2>1, <2>2
<1>13. UnaODosMitades'
  <2>. SUFFICES ASSUME NEW c \in Conexiones, NEW d \in Conexiones,
                       NEW v \in Sentidos, NEW w \in Sentidos,
                       NEW k \in Nat, NEW l \in Nat, NEW i \in Numeros',
                       LecEn(c, v, k, i)', LecEn(d, w, l, i)'
                PROVE  \/ c = d /\ v = w /\ k = l
                       \/ c # d /\ EsMitad(Canal(c, v)'[k]) /\ EsMitad(Canal(d, w)'[l])
    BY DEF UnaODosMitades
  <2>1. CASE i \in Numeros
    <3>1. /\ LecEn(c, v, k, i) /\ Canal(c, v)[k] = Canal(c, v)'[k]
          /\ LecEn(d, w, l, i) /\ Canal(d, w)[l] = Canal(d, w)'[l]
      BY <1>6, <1>10, <2>1
    <3>2. \/ c = d /\ v = w /\ k = l
          \/ c # d /\ EsMitad(Canal(c, v)[k]) /\ EsMitad(Canal(d, w)[l])
      BY <2>1, <3>1 DEF InvLecturas, InvCanales, UnaODosMitades
    <3>. QED BY <3>1, <3>2
  <2>2. CASE i \notin Numeros
    <3>1. /\ v = "ida" /\ k = Len(aDisco[c]) + 1 /\ w = "ida" /\ l = Len(aDisco[d]) + 1
          /\ EsNueva(Canal(c, v)'[k], c, n, par, h1, h2)
          /\ EsNueva(Canal(d, w)'[l], d, n, par, h1, h2)
      BY <1>10, <2>2
    <3>2. CASE c = d
      BY <3>1, <3>2
    <3>3. CASE c # d
      BY <3>1, <3>3 DEF EsNueva, EsMitad
    <3>. QED BY <3>2, <3>3
  <2>. QED BY <2>1, <2>2
<1>14. MitadesBien'
  <2>. SUFFICES ASSUME NEW c \in Conexiones, NEW v \in Sentidos, NEW k \in Nat, NEW i \in Numeros',
                       LecEn(c, v, k, i)', EsMitad(Canal(c, v)'[k]),
                       NEW e \in PedidosDe(pedidos', <<"get", i>>)
                PROVE  MitadBien(Canal(c, v)'[k], c, pedidos'[e], lecturas'[i])
    BY DEF MitadesBien
  <2>1. CASE i \in Numeros
    <3>1. LecEn(c, v, k, i) /\ Canal(c, v)[k] = Canal(c, v)'[k]
      BY <1>6, <1>10, <2>1
    <3>2. e \in PedidosDe(pedidos, <<"get", i>>) /\ pedidos'[e] = pedidos[e]
      BY <1>7, <2>1 DEF TablaNueva
    <3>3. MitadBien(Canal(c, v)[k], c, pedidos[e], lecturas[i])
      BY <2>1, <3>1, <3>2 DEF InvLecturas, InvPedidos, MitadesBien
    <3>. QED BY <1>6, <2>1, <3>1, <3>2, <3>3
  <2>2. CASE i \notin Numeros
    <3>1. i = n /\ EsNueva(Canal(c, v)'[k], c, n, par, h1, h2)
      BY <1>10, <2>2
    <3>2. pedidos'[e] = x
      BY <1>7, <3>1 DEF TablaNueva
    <3>3. /\ x.h1 = h1 /\ x.h2 = h2 /\ x.d1 = NULO /\ x.d2 = NULO
          /\ r.s1 = par[1] /\ r.s2 = par[2]
      BY <1>4, <1>5 DEF PedidoNuevo
    <3>4. MitadBien(Canal(c, v)'[k], c, x, r)
      BY <3>1, <3>3 DEF MitadBien, PideSector, EsNueva, EsMitad
    <3>. QED BY <1>6, <3>1, <3>2, <3>4
  <2>. QED BY <2>1, <2>2
<1>15. EntradasBien'
  <2>. SUFFICES ASSUME NEW e \in Entradas, pedidos'[e].id # NULO
                PROVE  \E i \in Numeros' : /\ pedidos'[e].id = <<"get", i>>
                                           /\ EntradaBien(pedidos'[e], lecturas'[i])
    BY DEF EntradasBien
  <2>1. CASE pedidos'[e] = pedidos[e]
    BY <1>6, <2>1 DEF InvLecturas, InvPedidos, EntradasBien
  <2>2. CASE pedidos'[e] = x
    <3>1. x.id = <<"get", n>> /\ EntradaBien(x, r)
      BY <1>4 DEF PedidoNuevo, EntradaBien
    <3>. QED BY <1>6, <2>2, <3>1
  <2>. QED BY <1>7, <2>1, <2>2 DEF TablaNueva
<1>16. EntradaPorMitad'
  <2>. SUFFICES ASSUME Alcanza
                PROVE  /\ \A e \in Entradas : e > Len(lecturas') => pedidos'[e].id = NULO
                       /\ \A c \in Conexiones, v \in Sentidos, k \in Nat, i \in Numeros' :
                             LecEn(c, v, k, i)' /\ EsMitad(Canal(c, v)'[k])
                                 => PedidosDe(pedidos', <<"get", i>>) # {}
    BY DEF EntradaPorMitad
  <2>1. \A e \in Entradas : e > Len(lecturas') => pedidos'[e].id = NULO
    BY <1>6, <1>7 DEF TablaNueva
  <2>2. ASSUME NEW c \in Conexiones, NEW v \in Sentidos, NEW k \in Nat, NEW i \in Numeros',
               LecEn(c, v, k, i)', EsMitad(Canal(c, v)'[k])
        PROVE  PedidosDe(pedidos', <<"get", i>>) # {}
    <3>1. CASE i \in Numeros
      <4>1. LecEn(c, v, k, i) /\ Canal(c, v)[k] = Canal(c, v)'[k]
        BY <1>6, <1>10, <2>2, <3>1
      <4>2. PedidosDe(pedidos, <<"get", i>>) # {}
        BY <2>2, <3>1, <4>1 DEF InvLecturas, InvPedidos, EntradaPorMitad
      <4>. QED BY <1>7, <3>1, <4>2 DEF TablaNueva
    <3>2. CASE i \notin Numeros
      BY <1>6, <1>7, <3>2 DEF TablaNueva
    <3>. QED BY <3>1, <3>2
  <2>. QED BY <2>1, <2>2
<1>17. Contestadas'
  <2>. SUFFICES ASSUME NEW c \in Conexiones, NEW v \in Sentidos, NEW k \in Nat,
                       NEW i \in Numeros', LecEn(c, v, k, i)'
                PROVE  respuestas'[i] = <<>>
    BY <1>6 DEF Contestadas
  <2>1. CASE i \in Numeros
    <3>1. LecEn(c, v, k, i)
      BY <1>6, <1>10, <2>1
    <3>. QED BY <1>6, <2>1, <3>1 DEF InvLecturas, Contestadas
  <2>2. CASE i \notin Numeros
    BY <1>6, <2>2
  <2>. QED BY <2>1, <2>2
<1>18. RespuestasBien'
  <2>. SUFFICES ASSUME NEW i \in Numeros'
                PROVE  RespuestaBien(respuestas'[i], lecturas'[i])
    BY DEF RespuestasBien
  <2>1. CASE i \in Numeros
    BY <1>6, <2>1 DEF InvLecturas, RespuestasBien
  <2>2. CASE i \notin Numeros
    <3>1. RespuestaBien(<<>>, r)
      BY DEF RespuestaBien
    <3>. QED BY <1>6, <2>2, <3>1
  <2>. QED BY <2>1, <2>2
<1>. QED BY <1>11, <1>12, <1>13, <1>14, <1>15, <1>16, <1>17, <1>18
         DEF InvLecturas, InvCanales, InvPedidos

\* What is under way after a step of a disk: what was, or its answer.
Contesta(m, a) ==
    \/ m.t = "GET1" /\ a.t = "RTAb" /\ DeSector(a.d1, m.s1)
    \/ m.t = "GET2" /\ a.t = "RTA" /\ DeSector(a.d1, m.s1) /\ DeSector(a.d2, m.s2)

Sigue(m, a) == a = m \/ Contesta(m, a)

LEMMA SigueBien ==
    ASSUME NEW m, NEW a, Sigue(m, a)
    PROVE  /\ EsMitad(a) <=> EsMitad(m)
           /\ \A r : EnteraBien(m, r) => EnteraBien(a, r)
           /\ \A r, c, p : EsMitad(m) /\ MitadBien(m, c, p, r) => MitadBien(a, c, p, r)
<1>1. CASE a = m
  BY <1>1
<1>2. CASE Contesta(m, a)
  BY <1>2 DEF Contesta, EsMitad, EnteraBien, MitadBien, PideSector
<1>. QED BY <1>1, <1>2 DEF Sigue

LEMMA DiscoContesta ==
    ASSUME InvFondo, NEW m \in AlDisco, NEW d \in Discos, De(Servir(m, datos[d]), "get")
    PROVE  /\ Contesta(m, Servir(m, datos[d]))
           /\ m.id = Servir(m, datos[d]).id /\ De(m, "get")
<1>1. /\ datos[d] \in [Sectores -> Buffers]
      /\ \A s \in Sectores : DeSector(datos[d][s], s)
  BY DEF InvFondo, InvTipos, TypeOK, TipoHilos, Llenos, DatosLlenos, SectorPropio, DeSector
<1>2. CASE m.t = "PUT"
  BY <1>1, <1>2, ServirEs DEF De
<1>3. CASE m.t = "GET1"
  <2>1. m.s1 \in Sectores /\ Servir(m, datos[d]) = [t |-> "RTAb", id |-> m.id, d1 |-> datos[d][m.s1]]
    BY <1>1, <1>3, ServirEs
  <2>2. Contesta(m, [t |-> "RTAb", id |-> m.id, d1 |-> datos[d][m.s1]])
    BY <1>1, <1>3, <2>1 DEF Contesta
  <2>. QED BY <1>3, <2>1, <2>2 DEF De
<1>4. CASE m.t = "GET2"
  <2>1. /\ m.s1 \in Sectores /\ m.s2 \in Sectores
        /\ Servir(m, datos[d]) = [t |-> "RTA", id |-> m.id, d1 |-> datos[d][m.s1],
                                  d2 |-> datos[d][m.s2]]
    BY <1>1, <1>4, ServirEs
  <2>2. Contesta(m, [t |-> "RTA", id |-> m.id, d1 |-> datos[d][m.s1], d2 |-> datos[d][m.s2]])
    BY <1>1, <1>4, <2>1 DEF Contesta
  <2>. QED BY <1>4, <2>1, <2>2 DEF De
<1>. QED BY <1>1, <1>2, <1>3, <1>4, ServirEs

LEMMA DiscoVino ==
    ASSUME InvFondo, NEW c \in Conexiones, DiscoAtiende(c),
           NEW e \in Conexiones, NEW v \in Sentidos, NEW k \in Nat,
           Trae(e, v, k)', De(Canal(e, v)'[k], "get")
    PROVE  \E w \in Sentidos, l \in Nat :
              /\ Trae(e, w, l) /\ De(Canal(e, w)[l], "get")
              /\ Canal(e, w)[l].id = Canal(e, v)'[k].id
              /\ Sigue(Canal(e, w)[l], Canal(e, v)'[k])
              /\ \/ e = c /\ v = "ida" /\ w = v /\ l = k + 1
                 \/ e # c /\ v = "ida" /\ w = v /\ l = k
                 \/ v = "vuelta" /\ k \in 1..Len(deDisco[e]) /\ w = v /\ l = k
                 \/ e = c /\ v = "vuelta" /\ k = Len(deDisco[c]) + 1 /\ w = "ida" /\ l = 1
<1>1. InvTipos /\ aDisco \in [Conexiones -> Seq(AlDisco)]
  BY DEF InvFondo, InvTipos, TypeOK, TipoHilos
<1>2. PICK d : d = hilo[c].disco
  OBVIOUS
<1>3. PICK m : m = aDisco[c][1]
  OBVIOUS
<1>4. /\ 1 \in 1..Len(aDisco[c])
      /\ \A x \in Conexiones : \A i \in 1..Len(aDisco'[x]) :
            IF x = c THEN i + 1 \in 1..Len(aDisco[c]) /\ aDisco'[c][i] = aDisco[c][i + 1]
                     ELSE i \in 1..Len(aDisco[x]) /\ aDisco'[x][i] = aDisco[x][i]
      /\ \A x \in Conexiones : \A i \in 1..Len(deDisco'[x]) :
            \/ i \in 1..Len(deDisco[x]) /\ deDisco'[x][i] = deDisco[x][i]
            \/ /\ x = c /\ i = Len(deDisco[c]) + 1 /\ hilo[c].fase = "activa"
               /\ deDisco'[c][i] = Servir(m, datos[d])
  BY <1>1, <1>2, <1>3, DiscoOrigen
<1>5. CASE v = "ida"
  <2>1. k \in 1..Len(aDisco'[e]) /\ Canal(e, v)' = aDisco'[e] /\ Canal(e, v) = aDisco[e]
    BY <1>5 DEF Trae, Canal
  <2>2. CASE e = c
    <3>1. k + 1 \in Nat /\ k + 1 \in 1..Len(aDisco[c]) /\ aDisco'[c][k] = aDisco[c][k + 1]
      BY <1>4, <2>1, <2>2
    <3>2. Trae(e, v, k + 1) /\ Canal(e, v)[k + 1] = Canal(e, v)'[k]
      BY <2>1, <2>2, <3>1 DEF Trae
    <3>. QED BY <1>5, <2>2, <3>1, <3>2 DEF Sigue
  <2>3. CASE e # c
    <3>1. Trae(e, v, k) /\ Canal(e, v)[k] = Canal(e, v)'[k]
      BY <1>4, <2>1, <2>3 DEF Trae
    <3>. QED BY <1>5, <2>3, <3>1 DEF Sigue
  <2>. QED BY <2>2, <2>3
<1>6. CASE v = "vuelta"
  <2>1. k \in 1..Len(deDisco'[e]) /\ Canal(e, v)' = deDisco'[e] /\ Canal(e, v) = deDisco[e]
    BY <1>6 DEF Trae, Canal
  <2>2. CASE k \in 1..Len(deDisco[e]) /\ deDisco'[e][k] = deDisco[e][k]
    <3>1. Trae(e, v, k) /\ Canal(e, v)[k] = Canal(e, v)'[k]
      BY <2>1, <2>2 DEF Trae
    <3>. QED BY <1>6, <2>2, <3>1 DEF Sigue
  <2>3. CASE /\ e = c /\ k = Len(deDisco[c]) + 1 /\ hilo[c].fase = "activa"
             /\ deDisco'[e][k] = Servir(m, datos[d])
    <3>1. d \in Discos
      BY <1>1, <1>2, <2>3 DEF InvTipos, HilosConDisco
    <3>2. m \in AlDisco
      <4>1. aDisco[c] \in Seq(AlDisco)
        BY <1>1
      <4>. QED BY <1>3, <1>4, <4>1
    <3>3. PICK a : a = Servir(m, datos[d])
      OBVIOUS
    <3>4. Contesta(m, a) /\ m.id = a.id /\ De(m, "get")
      BY <2>1, <2>3, <3>1, <3>2, <3>3, DiscoContesta
    <3>5. Trae(e, "ida", 1) /\ Canal(e, "ida")[1] = m /\ Canal(e, v)'[k] = a
      BY <1>3, <1>4, <2>1, <2>3, <3>3 DEF Trae, Canal
    <3>. QED BY <1>6, <2>3, <3>4, <3>5 DEF Sigue, Sentidos
  <2>. QED BY <1>4, <2>1, <2>2, <2>3
<1>. QED BY <1>5, <1>6 DEF Sentidos

\* The same, of read n.
LEMMA DiscoVinoLec ==
    ASSUME InvFondo, NEW c \in Conexiones, DiscoAtiende(c),
           NEW e \in Conexiones, NEW v \in Sentidos, NEW k \in Nat, NEW n, LecEn(e, v, k, n)'
    PROVE  \E w \in Sentidos, l \in Nat :
              /\ LecEn(e, w, l, n) /\ Sigue(Canal(e, w)[l], Canal(e, v)'[k])
              /\ \/ e = c /\ v = "ida" /\ w = v /\ l = k + 1
                 \/ e # c /\ v = "ida" /\ w = v /\ l = k
                 \/ v = "vuelta" /\ k \in 1..Len(deDisco[e]) /\ w = v /\ l = k
                 \/ e = c /\ v = "vuelta" /\ k = Len(deDisco[c]) + 1 /\ w = "ida" /\ l = 1
<1>1. Trae(e, v, k)' /\ De(Canal(e, v)'[k], "get") /\ Canal(e, v)'[k].id = <<"get", n>>
  BY DEF LecEn
<1>. QED BY <1>1, DiscoVino DEF LecEn

LEMMA DiscoLecturas ==
    ASSUME InvFondo, InvLecturas, NEW c \in Conexiones, DiscoAtiende(c)
    PROVE  InvLecturas'
<1>1. UNCHANGED <<lecturas, pedidos, respuestas>> /\ Numeros' = Numeros
  BY DEF DiscoAtiende, historia, Numeros
<1>2. ConLectura'
  <2>. SUFFICES ASSUME NEW e \in Conexiones, NEW v \in Sentidos, NEW k \in Nat,
                       Trae(e, v, k)', De(Canal(e, v)'[k], "get")
                PROVE  \E n \in Numeros : LecEn(e, v, k, n)'
    BY <1>1 DEF ConLectura
  <2>1. PICK w \in Sentidos, l \in Nat :
            /\ Trae(e, w, l) /\ De(Canal(e, w)[l], "get")
            /\ Canal(e, w)[l].id = Canal(e, v)'[k].id
    BY DiscoVino
  <2>2. PICK n \in Numeros : LecEn(e, w, l, n)
    BY <2>1 DEF InvLecturas, InvCanales, ConLectura
  <2>. QED BY <2>1, <2>2 DEF LecEn
<1>3. EnterasBien'
  <2>. SUFFICES ASSUME NEW e \in Conexiones, NEW v \in Sentidos, NEW k \in Nat,
                       NEW n \in Numeros, LecEn(e, v, k, n)'
                PROVE  EnteraBien(Canal(e, v)'[k], lecturas[n])
    BY <1>1 DEF EnterasBien
  <2>1. PICK w \in Sentidos, l \in Nat :
            LecEn(e, w, l, n) /\ Sigue(Canal(e, w)[l], Canal(e, v)'[k])
    BY DiscoVinoLec
  <2>2. EnteraBien(Canal(e, w)[l], lecturas[n])
    BY <2>1 DEF InvLecturas, InvCanales, EnterasBien
  <2>. QED BY <2>1, <2>2, SigueBien
<1>4. UnaODosMitades'
  <2>. SUFFICES ASSUME NEW d \in Conexiones, NEW e \in Conexiones,
                       NEW v \in Sentidos, NEW w \in Sentidos,
                       NEW k \in Nat, NEW l \in Nat, NEW n \in Numeros,
                       LecEn(d, v, k, n)', LecEn(e, w, l, n)'
                PROVE  \/ d = e /\ v = w /\ k = l
                       \/ d # e /\ EsMitad(Canal(d, v)'[k]) /\ EsMitad(Canal(e, w)'[l])
    BY <1>1 DEF UnaODosMitades
  <2>1. PICK x \in Sentidos, i \in Nat :
            /\ LecEn(d, x, i, n) /\ Sigue(Canal(d, x)[i], Canal(d, v)'[k])
            /\ \/ d = c /\ v = "ida" /\ x = v /\ i = k + 1
               \/ d # c /\ v = "ida" /\ x = v /\ i = k
               \/ v = "vuelta" /\ k \in 1..Len(deDisco[d]) /\ x = v /\ i = k
               \/ d = c /\ v = "vuelta" /\ k = Len(deDisco[c]) + 1 /\ x = "ida" /\ i = 1
    BY DiscoVinoLec
  <2>2. PICK y \in Sentidos, j \in Nat :
            /\ LecEn(e, y, j, n) /\ Sigue(Canal(e, y)[j], Canal(e, w)'[l])
            /\ \/ e = c /\ w = "ida" /\ y = w /\ j = l + 1
               \/ e # c /\ w = "ida" /\ y = w /\ j = l
               \/ w = "vuelta" /\ l \in 1..Len(deDisco[e]) /\ y = w /\ j = l
               \/ e = c /\ w = "vuelta" /\ l = Len(deDisco[c]) + 1 /\ y = "ida" /\ j = 1
    BY DiscoVinoLec
  <2>3. \/ d = e /\ x = y /\ i = j
        \/ d # e /\ EsMitad(Canal(d, x)[i]) /\ EsMitad(Canal(e, y)[j])
    BY <2>1, <2>2 DEF InvLecturas, InvCanales, UnaODosMitades
  <2>4. CASE d = e /\ x = y /\ i = j
    <3>1. \A s \in Nat : s + 1 = 1 => s = 0
      OBVIOUS
    <3>2. k # 0 /\ l # 0
      BY DEF LecEn, Trae
    <3>3. CASE x = "vuelta"
      BY <2>1, <2>2, <2>4, <3>3
    <3>4. CASE x = "ida"
      BY <2>1, <2>2, <2>4, <3>1, <3>2, <3>4
    <3>. QED BY <3>3, <3>4 DEF Sentidos
  <2>5. CASE d # e /\ EsMitad(Canal(d, x)[i]) /\ EsMitad(Canal(e, y)[j])
    BY <2>1, <2>2, <2>5, SigueBien
  <2>. QED BY <2>3, <2>4, <2>5
<1>5. MitadesBien'
  <2>. SUFFICES ASSUME NEW e \in Conexiones, NEW v \in Sentidos, NEW k \in Nat, NEW n \in Numeros,
                       LecEn(e, v, k, n)', EsMitad(Canal(e, v)'[k]),
                       NEW p \in PedidosDe(pedidos, <<"get", n>>)
                PROVE  MitadBien(Canal(e, v)'[k], e, pedidos[p], lecturas[n])
    BY <1>1 DEF MitadesBien
  <2>1. PICK w \in Sentidos, l \in Nat :
            LecEn(e, w, l, n) /\ Sigue(Canal(e, w)[l], Canal(e, v)'[k])
    BY DiscoVinoLec
  <2>2. EsMitad(Canal(e, w)[l])
    BY <2>1, SigueBien
  <2>3. MitadBien(Canal(e, w)[l], e, pedidos[p], lecturas[n])
    BY <2>1, <2>2 DEF InvLecturas, InvPedidos, MitadesBien
  <2>. QED BY <2>1, <2>2, <2>3, SigueBien
<1>6. EntradasBien' /\ RespuestasBien'
  BY <1>1 DEF InvLecturas, InvPedidos, EntradasBien, RespuestasBien
<1>7. EntradaPorMitad'
  <2>. SUFFICES ASSUME Alcanza, NEW e \in Conexiones, NEW v \in Sentidos, NEW k \in Nat,
                       NEW n \in Numeros, LecEn(e, v, k, n)', EsMitad(Canal(e, v)'[k])
                PROVE  PedidosDe(pedidos, <<"get", n>>) # {}
    BY <1>1 DEF InvLecturas, InvPedidos, EntradaPorMitad
  <2>1. PICK w \in Sentidos, l \in Nat :
            LecEn(e, w, l, n) /\ Sigue(Canal(e, w)[l], Canal(e, v)'[k])
    BY DiscoVinoLec
  <2>2. EsMitad(Canal(e, w)[l])
    BY <2>1, SigueBien
  <2>. QED BY <2>1, <2>2 DEF InvLecturas, InvPedidos, EntradaPorMitad
<1>8. Contestadas'
  <2>. SUFFICES ASSUME NEW e \in Conexiones, NEW v \in Sentidos, NEW k \in Nat,
                       NEW n \in Numeros, LecEn(e, v, k, n)'
                PROVE  respuestas[n] = <<>>
    BY <1>1 DEF InvLecturas, Contestadas
  <2>1. PICK w \in Sentidos, l \in Nat : LecEn(e, w, l, n)
    BY DiscoVinoLec
  <2>. QED BY <2>1 DEF InvLecturas, Contestadas
<1>. QED BY <1>2, <1>3, <1>4, <1>5, <1>6, <1>7, <1>8 DEF InvLecturas, InvCanales, InvPedidos

-----------------------------------------------------------------------------

LEMMA CalladoLecturas ==
    ASSUME InvFondo, InvLecturas, Callado
    PROVE  InvLecturas'
<1>1. CanalesConservan("get")
  BY CalladoConserva DEF InvFondo
<1>2. CASE \E c \in Conexiones : RespuestaDos(c)
  BY <1>2, DosLecturas
<1>3. CASE \E c \in Conexiones : RespuestaUno(c)
  BY <1>3, UnoLecturas
<1>4. CASE ~\E c \in Conexiones : RespuestaDos(c) \/ RespuestaUno(c)
  <2>1. UNCHANGED <<lecturas, pedidos, respuestas>>
    BY <1>4
       DEF Callado, HandshakeDisco, ConsolaEliminar, AsociarHilo, Desconexion,
           ProtocoloIncorrecto, RespuestaPut, HiloInicia, DiscoCae, ConsolaIniciar,
           ConsolaDetener, ConsolaEstado, ConsolaSalir, VskDesconecta, SaleDelCiclo,
           historia, vars
  <2>. QED BY <1>1, <2>1, LecturasSiguen
<1>. QED BY <1>2, <1>3, <1>4

LEMMA LecturasPaso ==
    ASSUME InvFondo, InvLecturas, [Next]_vars
    PROVE  InvLecturas'
<1>0. InvTipos /\ DeConsola(cola) /\ CanalesLlenos
  BY DEF InvFondo, Llenos
<1>1. CASE Callado
  BY <1>1, CalladoLecturas
<1>2. CASE \/ \E d \in Discos : ConsolaAgregar(d)
           \/ Cierre
           \/ \E c \in Conexiones : RespuestaSincronizacion(c)
  <2>1. UNCHANGED <<lecturas, pedidos, respuestas>>
    BY <1>2 DEF ConsolaAgregar, Cierre, RespuestaSincronizacion, historia
  <2>2. CanalesConservan("get")
    BY <1>0, <1>2, SincConserva
  <2>. QED BY <2>1, <2>2, LecturasSiguen
<1>3. ASSUME NEW par \in Pares, VskPut(par)
      PROVE  InvLecturas'
  <2>1. UNCHANGED <<lecturas, pedidos, respuestas>>
    BY <1>3 DEF VskPut
  <2>2. CanalesConservan("get")
    BY <1>0, <1>3, VskPutConserva
  <2>. QED BY <2>1, <2>2, LecturasSiguen
<1>4. ASSUME NEW par \in Pares, VskGet(par)
      PROVE  InvLecturas'
  <2>1. UNCHANGED deDisco /\ Len(lecturas) < MaxGet
    BY <1>4 DEF VskGet
  <2>2. CASE UNCHANGED <<pedidos, lecturas, respuestas, aDisco>>
    <3>1. CanalesConservan("get")
      BY <1>0, <2>1, <2>2, QuietosConservan DEF canales
    <3>. QED BY <2>2, <3>1, LecturasSiguen
  <2>3. CASE \E t1, t2 \in Pos : Repartir(par, t1, t2)
    BY <2>1, <2>3, RepartirLecturas
  <2>. QED BY <1>0, <1>4, <2>2, <2>3, VskGetEs
<1>5. CASE \E c \in Conexiones : DiscoAtiende(c)
  BY <1>5, DiscoLecturas
<1>. QED BY <1>1, <1>2, <1>3, <1>4, <1>5 DEF Next, Respuesta, Consola, Vsk, Callado

LEMMA LecturasInicial ==
    ASSUME Init
    PROVE  InvLecturas
<1>1. \A c \in Conexiones, v \in Sentidos, k \in Nat : ~Trae(c, v, k)
  BY DEF Init, Trae, Canal
<1>2. InvCanales /\ MitadesBien
  BY <1>1 DEF InvCanales, ConLectura, EnterasBien, UnaODosMitades, MitadesBien, LecEn
<1>3. EntradasBien /\ EntradaPorMitad
  BY <1>1 DEF Init, LimpiarPedidos, PedidoVacio, EntradasBien, EntradaPorMitad, LecEn
<1>4. Contestadas /\ RespuestasBien
  BY <1>1 DEF Init, Contestadas, RespuestasBien, Numeros, LecEn
<1>. QED BY <1>2, <1>3, <1>4 DEF InvLecturas, InvPedidos

LEMMA SpecLecturas == Spec => [](InvFondo /\ InvLecturas)
<1>1. Init => InvLecturas
  BY LecturasInicial
<1>2. InvFondo /\ InvLecturas /\ [Next]_vars => InvLecturas'
  BY LecturasPaso
<1>. QED BY <1>1, <1>2, SpecFondo, PTL DEF Spec

\* Each answer of IPCIRC_GET_SECTORES carries the two sectors its read asked
\* for, each in its half, though the halves come from two disks in any order,
\* disks fall and come back and the table of reads may be full; and it is given
\* once.
THEOREM CadaLecturaLoSuyo == SinReinicio => (Spec => []RespuestaCorrecta)
<1>1. ASSUME SinReinicio, InvLecturas
      PROVE  RespuestaCorrecta
  <2>. SUFFICES ASSUME NEW n \in Numeros
                PROVE  /\ Len(respuestas[n]) <= 1
                       /\ \A k \in 1..Len(respuestas[n]) :
                             /\ respuestas[n][k].d1 # NULO /\ respuestas[n][k].d2 # NULO
                             /\ respuestas[n][k].d1.sec = lecturas[n].s1
                             /\ respuestas[n][k].d2.sec = lecturas[n].s2
    BY DEF RespuestaCorrecta, Numeros
  <2>1. RespuestaBien(respuestas[n], lecturas[n])
    BY <1>1 DEF InvLecturas, RespuestasBien
  <2>. QED BY <1>1, <2>1, BuffersAssumption DEF RespuestaBien, DeSector
<1>. QED
  <2>. SUFFICES ASSUME SinReinicio PROVE Spec => []RespuestaCorrecta
    OBVIOUS
  <2>1. InvFondo /\ InvLecturas => RespuestaCorrecta
    BY <1>1
  <2>. QED BY <2>1, SpecLecturas, PTL

\* When the table has an entry for each read of the VSK, no half answer comes
\* back to a table that does not wait for it: agregarRespuesta and
\* eliminarPedido, which do not look where their scans stop, stay inside.
THEOREM CadaMitadConSuEntrada == Alcanza => (Spec => []MitadEsperada)
<1>1. ASSUME Alcanza, InvLecturas
      PROVE  MitadEsperada
  <2>. SUFFICES ASSUME NEW n \in Numeros, NEW x \in Mitades(<<"get", n>>)
                PROVE  \E k \in PedidosDe(pedidos, <<"get", n>>) :
                          /\ x[1] \in Conexiones => x[1] \in {pedidos[k].h1, pedidos[k].h2}
                          /\ \A y \in Mitades(<<"get", n>>) :
                                 x # y => x[1] # y[1] /\ pedidos[k].cant = 0
    BY DEF MitadEsperada, Numeros
  <2>1. ASSUME NEW y \in Mitades(<<"get", n>>)
        PROVE  \E c \in Conexiones, v \in Sentidos, l \in Nat :
                  /\ y = <<c, v, l>> /\ LecEn(c, v, l, n) /\ EsMitad(Canal(c, v)[l])
    <3>1. PICK c \in Conexiones, v \in Sentidos, l \in Nat :
              l \in 1..Len(Canal(c, v)) /\ y = <<c, v, l>>
      BY DEF Mitades, EnViaje
    <3>2. /\ Canal(c, v)[l].t \in {"GET1", "RTAb"} /\ Canal(c, v)[l].id = <<"get", n>>
      BY <3>1 DEF Mitades, Mensaje
    <3>3. Canal(c, v)[l].id[1] = "get"
      BY <3>2
    <3>4. LecEn(c, v, l, n) /\ EsMitad(Canal(c, v)[l])
      BY <3>1, <3>2, <3>3 DEF LecEn, EsMitad, Trae, De
    <3>. QED BY <3>1, <3>4
  <2>2. PICK c \in Conexiones, v \in Sentidos, l \in Nat :
            x = <<c, v, l>> /\ LecEn(c, v, l, n) /\ EsMitad(Canal(c, v)[l])
    BY <2>1
  <2>3. PICK k : k \in PedidosDe(pedidos, <<"get", n>>)
    BY <1>1, <2>2 DEF InvLecturas, InvPedidos, EntradaPorMitad
  <2>4. MitadBien(Canal(c, v)[l], c, pedidos[k], lecturas[n])
    BY <1>1, <2>2, <2>3 DEF InvLecturas, InvPedidos, MitadesBien
  <2>5. ASSUME NEW y \in Mitades(<<"get", n>>), x # y
        PROVE  x[1] # y[1] /\ pedidos[k].cant = 0
    <3>1. PICK d \in Conexiones, w \in Sentidos, i \in Nat :
              y = <<d, w, i>> /\ LecEn(d, w, i, n) /\ EsMitad(Canal(d, w)[i])
      BY <2>1
    <3>2. c # d
      BY <1>1, <2>2, <2>5, <3>1 DEF InvLecturas, InvCanales, UnaODosMitades
    <3>3. MitadBien(Canal(d, w)[i], d, pedidos[k], lecturas[n])
      BY <1>1, <2>3, <3>1 DEF InvLecturas, InvPedidos, MitadesBien
    <3>4. pedidos[k].d1 = NULO /\ pedidos[k].d2 = NULO
      BY <2>4, <3>2, <3>3 DEF MitadBien
    <3>5. PICK j \in Numeros : EntradaBien(pedidos[k], lecturas[j])
      <4>1. k \in Entradas /\ pedidos[k].id = <<"get", n>>
        BY <2>3 DEF PedidosDe
      <4>2. <<"get", n>> \in Ids /\ <<"get", n>> # NULO
        BY IdsAssumption DEF Ids, Numeros
      <4>. QED BY <1>1, <4>1, <4>2 DEF InvLecturas, InvPedidos, EntradasBien
    <3>6. pedidos[k].cant = 0
      BY <3>4, <3>5 DEF EntradaBien
    <3>. QED BY <2>2, <3>1, <3>2, <3>6
  <2>. QED BY <2>2, <2>3, <2>4, <2>5 DEF MitadBien
<1>. QED
  <2>. SUFFICES ASSUME Alcanza PROVE Spec => []MitadEsperada
    OBVIOUS
  <2>1. InvFondo /\ InvLecturas => MitadEsperada
    BY <1>1
  <2>. QED BY <2>1, SpecLecturas, PTL

=============================================================================

-------------------------- MODULE ArrayEspejoProofs --------------------------
(***************************************************************************)
(* The mirror: what the synchronised disks of the ARRAY process hold, while *)
(* no disk falls.  Writes travel to each disk on its own, and the copy of a *)
(* disk goes on in pairs of sectors while the rest of the array works.      *)
(***************************************************************************)
EXTENDS ArrayLecturasProofs

\* The operator adds a disk once its bridge is there.
AgregaConHilo == "agregar sin hilo" \notin Libertades

\* No disk falls by itself, the operator waits, the table has an entry for each
\* read, and no synchronisation starts again.
Regimen == /\ MaxCaidas = 0
           /\ AgregaConHilo
           /\ Alcanza
           /\ SinReinicio

-----------------------------------------------------------------------------
(* The bridges.  What makes a route hold is spread over the place of the disk, *)
(* the bridge and what the bridge has not said yet: while a bridge is to be    *)
(* announced its place waits for it, and the bridge a place has was announced. *)

Vivas == {"nueva", "activa"}
Sincro == {"SINCRONIZANDO", "SINCRONIZADO"}
Especial(m) == m.t \in {"HILO", "EOF", "BASURA"}

Avisa(c) == \E k \in 1..Len(deDisco[c]) : deDisco[c][k].t = "HILO"
PorAnunciar(c) == hilo[c].fase = "nueva" \/ Avisa(c)

\* No socket is closed by the other end, nor out of step.
SinRoturas == \A c \in Conexiones :
    /\ hilo[c].fase # "rota"
    /\ \A k \in 1..Len(deDisco[c]) : deDisco[c][k].t \notin {"EOF", "BASURA"}

Calladas == \A c \in Conexiones : hilo[c].fase # "activa" => deDisco[c] = <<>>

\* While a bridge lives nothing else reaches its disk.
UnPuente == \A c, x \in Conexiones :
    c # x /\ hilo[c].disco = hilo[x].disco /\ hilo[c].fase \in Vivas
        => hilo[x].fase \notin Vivas /\ aDisco[x] = <<>>

UnAnuncio == \A c \in Conexiones : \A k \in 1..Len(deDisco[c]) :
    deDisco[c][k].t = "HILO" => k = 1

SinRuta == \A c \in Conexiones, i \in Pos :
    PorAnunciar(c) /\ sDiscos[i].nombre = hilo[c].disco
        => sDiscos[i].estado = "CONECTADO" /\ sDiscos[i].hilo \notin Conexiones

Anunciadas == \A c \in Conexiones, i \in Pos :
    sDiscos[i].hilo = c => hilo[c].fase = "activa" /\ ~PorAnunciar(c)

ConPuente == \A i \in Pos : sDiscos[i].estado \in Sincro => sDiscos[i].hilo \in Conexiones

InvPuentes == /\ SinRoturas /\ Calladas /\ UnPuente /\ UnAnuncio
              /\ SinRuta /\ Anunciadas /\ ConPuente

\* What the steps that open or close no bridge do.
RutasSiguen == \A i \in Pos :
    /\ sDiscos'[i].nombre = sDiscos[i].nombre /\ sDiscos'[i].hilo = sDiscos[i].hilo
    /\ sDiscos'[i].estado = sDiscos[i].estado \/ sDiscos[i].hilo \in Conexiones

\* Nothing new is announced, and the rest moves towards the head.
Avanza(s, t) == \A k \in 1..Len(t) : Especial(t[k]) =>
    \E l \in 1..Len(s) : k <= l /\ t[k] = s[l]

AvisosSiguen == \A c \in Conexiones :
    /\ Avanza(deDisco[c], deDisco'[c])
    /\ hilo[c].fase # "activa" /\ deDisco[c] = <<>> => deDisco'[c] = <<>>

MudosSiguen == \A c \in Conexiones :
    hilo[c].fase # "activa" /\ aDisco[c] = <<>> => aDisco'[c] = <<>>

LEMMA AvisaSigue ==
    ASSUME InvPuentes, AvisosSiguen, NEW c \in Conexiones,
           deDisco \in [Conexiones -> Seq(DelDisco)],
           NEW k \in 1..Len(deDisco'[c]), Especial(deDisco'[c][k])
    PROVE  k = 1 /\ deDisco'[c][k].t = "HILO" /\ Avisa(c)
<1>1. PICK l \in 1..Len(deDisco[c]) : k <= l /\ deDisco'[c][k] = deDisco[c][l]
  BY DEF AvisosSiguen, Avanza
<1>2. deDisco[c][l].t = "HILO"
  BY <1>1 DEF Especial, InvPuentes, SinRoturas
<1>3. l = 1
  BY <1>2 DEF InvPuentes, UnAnuncio
<1>4. Len(deDisco[c]) \in Nat
  OBVIOUS
<1>. QED BY <1>1, <1>2, <1>3, <1>4 DEF Avisa

LEMMA PuentesSiguen ==
    ASSUME InvTipos, InvPuentes, UNCHANGED hilo, RutasSiguen, AvisosSiguen, MudosSiguen
    PROVE  InvPuentes'
<1>0. deDisco \in [Conexiones -> Seq(DelDisco)]
  BY DEF InvTipos, TypeOK, TipoHilos
<1>1. \A c \in Conexiones : \A k \in 1..Len(deDisco'[c]) :
         Especial(deDisco'[c][k]) => k = 1 /\ deDisco'[c][k].t = "HILO" /\ Avisa(c)
  BY <1>0, AvisaSigue
<1>2. \A c \in Conexiones : PorAnunciar(c)' => PorAnunciar(c)
  BY <1>1 DEF PorAnunciar, Avisa, Especial
<1>3. SinRoturas'
  BY <1>1 DEF InvPuentes, SinRoturas, Especial
<1>4. Calladas'
  BY DEF InvPuentes, Calladas, AvisosSiguen
<1>5. UnPuente'
  BY DEF InvPuentes, UnPuente, MudosSiguen, Vivas
<1>6. UnAnuncio'
  BY <1>1 DEF UnAnuncio, Especial
<1>7. SinRuta'
  BY <1>2 DEF InvPuentes, SinRuta, RutasSiguen
<1>8. Anunciadas'
  BY <1>2 DEF InvPuentes, Anunciadas, RutasSiguen
<1>9. ConPuente'
  BY DEF InvPuentes, ConPuente, RutasSiguen
<1>. QED BY <1>3, <1>4, <1>5, <1>6, <1>7, <1>8, <1>9 DEF InvPuentes

\* How the channels move.
LEMMA AvanzaMismo ==
    ASSUME NEW S, NEW s \in Seq(S)
    PROVE  Avanza(s, s)
  BY DEF Avanza

LEMMA AvanzaResto ==
    ASSUME NEW S, NEW s \in Seq(S), s # <<>>
    PROVE  Avanza(s, Tail(s))
<1>1. /\ Len(Tail(s)) = Len(s) - 1 /\ Len(s) \in Nat
      /\ \A k \in 1..Len(Tail(s)) : Tail(s)[k] = s[k + 1]
  OBVIOUS
<1>2. ASSUME NEW k \in 1..Len(Tail(s))
      PROVE  k + 1 \in 1..Len(s) /\ k <= k + 1
  BY <1>1
<1>. QED BY <1>1, <1>2 DEF Avanza

LEMMA AvanzaMas ==
    ASSUME NEW S, NEW s \in Seq(S), NEW m, ~Especial(m)
    PROVE  Avanza(s, Append(s, m))
<1>1. /\ Len(Append(s, m)) = Len(s) + 1 /\ Len(s) \in Nat
      /\ Append(s, m)[Len(s) + 1] = m
      /\ \A k \in 1..Len(s) : Append(s, m)[k] = s[k]
  OBVIOUS
<1>. QED BY <1>1 DEF Avanza

LEMMA MudosQuietos ==
    ASSUME UNCHANGED aDisco \/ \E f, p : Enviar(f, p)
    PROVE  MudosSiguen
  BY DEF MudosSiguen, Enviar

LEMMA AvisosLeidos ==
    ASSUME InvTipos, \/ UNCHANGED deDisco
                     \/ \E c \in Conexiones : deDisco[c] # <<>> /\ Recibir(c)
    PROVE  AvisosSiguen
<1>0. \A c \in Conexiones : deDisco[c] \in Seq(DelDisco)
  BY DEF InvTipos, TypeOK, TipoHilos
<1>1. CASE UNCHANGED deDisco
  BY <1>0, <1>1, AvanzaMismo DEF AvisosSiguen
<1>2. ASSUME NEW c \in Conexiones, deDisco[c] # <<>>, Recibir(c)
      PROVE  AvisosSiguen
  <2>1. \A x \in Conexiones : deDisco'[x] = IF x = c THEN Tail(deDisco[c]) ELSE deDisco[x]
    BY <1>2 DEF Recibir, InvTipos, TypeOK, TipoHilos
  <2>. QED BY <1>0, <1>2, <2>1, AvanzaMismo, AvanzaResto DEF AvisosSiguen
<1>. QED BY <1>1, <1>2

-----------------------------------------------------------------------------
(* The copy: the entries of the queue that wait have copied nothing, and the   *)
(* places of the one that goes on are what they were when it started.          *)

DesdeCero(q) == \A k \in Pos : k # 0 /\ q[k].id # NULO => q[k].act = 0

Copiando == EnCurso /\ cola[0].act >= 1
Orig == sDiscos[cola[0].orig]
Dest == sDiscos[cola[0].dest]

LugaresDeCopia == Copiando => Orig.estado = "SINCRONIZADO" /\ Dest.estado = "SINCRONIZANDO"

InvLugares == DesdeCero(cola) /\ LugaresDeCopia

\* The tail of the iteration starts no synchronisation again.
LEMMA CierreEs ==
    ASSUME InvTipos, ColaContigua, InvSinc, Cierre
    PROVE  /\ UNCHANGED <<sDiscos, aDisco, deDisco, hilo, datos>>
           /\ cola' = cola \/ (~EnCurso /\ cola' = Correr(cola))
<1>0. /\ cola \in [Pos -> EntradaCola] /\ 0 \in Pos /\ 1 \in Pos
  BY NAssumption DEF InvTipos, TypeOK, TipoTablas, Pos
<1>1. SigueSincronizando(cola)
  <2>1. cola[1].act < Total - 1
    BY <1>0 DEF InvSinc, SinEmpezar
  <2>. QED BY <2>1 DEF SigueSincronizando
<1>2. UNCHANGED <<deDisco, hilo, datos>>
  BY DEF Cierre
<1>3. CASE EnviarOtroASincronizar /\ EnCurso
  BY <1>1, <1>2, <1>3 DEF EnviarOtroASincronizar
<1>4. CASE EnviarOtroASincronizar /\ ~EnCurso
  <2>1. Correr(cola)[0].id = NULO
    BY <1>0, <1>4, CorrerVacia
  <2>. QED BY <1>2, <1>4, <2>1 DEF EnviarOtroASincronizar
<1>5. CASE UNCHANGED <<sDiscos, cola, aDisco>>
  BY <1>2, <1>5
<1>. QED BY <1>3, <1>4, <1>5 DEF Cierre

Entrada0(o, i, a) == [id |-> IdConsola, act |-> a, orig |-> o, dest |-> i]

\* What the operator adds: the first synchronised disk, or one to be
\* synchronised, that waits or starts at once.
AgregaPrimera(i) ==
    /\ EnEstado(sDiscos, "SINCRONIZADO") = {}
    /\ sDiscos' = PonerEstado(sDiscos, i, "SINCRONIZADO")
    /\ UNCHANGED <<cola, aDisco>>

AgregaEnCola(i, o) ==
    /\ EnCurso
    /\ sDiscos' = PonerEstado(sDiscos, i, "SINCRONIZANDO")
    /\ UNCHANGED aDisco
    /\ \/ UNCHANGED cola
       \/ \E k \in Pos : k # 0 /\ cola' = Cargar(cola, k, Entrada0(o, i, 0))

AgregaYEmpieza(i, o) ==
    /\ ~EnCurso
    /\ sDiscos[o].estado = "SINCRONIZADO"
    /\ sDiscos' = PonerEstado(sDiscos, i, "SINCRONIZANDO")
    /\ cola'[0] = Entrada0(o, i, 1)
    /\ \A k \in Pos : k # 0 => cola'[k].id = NULO
    /\ \E p : Enviar(Por(sDiscos[o].hilo, Get2(IdConsola, 0, 1)), p)

Agrega(i) ==
    /\ sDiscos[i].hilo \in Conexiones
    /\ sDiscos[i].estado # "SINCRONIZADO"
    /\ \/ AgregaPrimera(i)
       \/ \E o \in Pos : AgregaEnCola(i, o) \/ AgregaYEmpieza(i, o)

LEMMA AgregarEs ==
    ASSUME InvTipos, ColaContigua, AgregaConHilo,
           NEW d \in Discos, ConsolaAgregar(d)
    PROVE  /\ UNCHANGED <<deDisco, hilo, datos>>
           /\ UNCHANGED <<sDiscos, cola, aDisco>> \/ \E i \in Pos : Agrega(i)
<1>0. /\ sDiscos \in [Pos -> Lugar] /\ cola \in [Pos -> EntradaCola] /\ 0 \in Pos
  BY NAssumption DEF InvTipos, TypeOK, TipoTablas, Pos
<1>1. UNCHANGED <<deDisco, hilo, datos>>
  BY DEF ConsolaAgregar
<1>2. ASSUME NEW i \in Pos, AgregarPrimero(i)
      PROVE  AgregaPrimera(i)
  BY <1>2 DEF AgregarPrimero, AgregaPrimera
<1>3. ASSUME NEW i \in Pos, NEW o \in Pos, AgregarSincroniza(i, o)
      PROVE  AgregaEnCola(i, o) \/ AgregaYEmpieza(i, o)
  <2>1. PICK x : x = Entrada0(o, i, 0)
    OBVIOUS
  <2>2. CASE EnCurso
    <3>1. sDiscos' = PonerEstado(sDiscos, i, "SINCRONIZANDO") /\ UNCHANGED aDisco
      BY <1>3, <2>2 DEF AgregarSincroniza, ColaLlena
    <3>2. \/ UNCHANGED cola
          \/ \E k \in Pos : /\ EsPrimero(k, Vacias(cola))
                            /\ cola' = Cargar(cola, k, Entrada0(o, i, 0))
      BY <1>3, <2>2 DEF AgregarSincroniza, ColaLlena, Entrada0
    <3>3. \A k \in Pos : EsPrimero(k, Vacias(cola)) => k # 0
      BY <2>2 DEF EsPrimero, Vacias, EnCurso
    <3>. QED BY <2>2, <3>1, <3>2, <3>3 DEF AgregaEnCola
  <2>3. CASE ~EnCurso
    <3>1. PICK e : e = PonerEstado(sDiscos, i, "SINCRONIZANDO")
      OBVIOUS
    <3>2. PICK k \in Pos : /\ EsPrimero(k, Vacias(Correr(cola)))
                           /\ SincronizarDisco(e, Cargar(Correr(cola), k, x))
      BY <1>3, <2>1, <2>3, <3>1 DEF AgregarSincroniza, Entrada0
    <3>3. Correr(cola) \in [Pos -> EntradaCola] /\ \A j \in Pos : Correr(cola)[j].id = NULO
      BY <2>3, CorrerVacia
    <3>4. k = 0
      <4>1. 0 \in Vacias(Correr(cola))
        BY <1>0, <3>3 DEF Vacias
      <4>2. k <= 0
        BY <3>2, <4>1 DEF EsPrimero
      <4>. QED BY <4>2, NAssumption DEF Pos
    <3>5. PICK q : q = Cargar(Correr(cola), k, x)
      OBVIOUS
    <3>6. q[0] = x /\ (\A j \in Pos : j # 0 => q[j].id = NULO) /\ DOMAIN q = Pos
      BY <1>0, <3>3, <3>4, <3>5 DEF Cargar
    <3>7. x.id = IdConsola /\ x.orig = o /\ x.dest = i /\ Entrada0(o, i, 1) = [x EXCEPT !.act = 1]
      <4>. DEFINE n == IdConsola
      <4>. HIDE DEF n
      <4>1. \A z : z = [id |-> n, act |-> 0, orig |-> o, dest |-> i] =>
               /\ z.id = n /\ z.orig = o /\ z.dest = i
               /\ [id |-> n, act |-> 1, orig |-> o, dest |-> i] = [z EXCEPT !.act = 1]
        OBVIOUS
      <4>. QED BY <2>1, <4>1 DEF Entrada0, n
    <3>8. /\ cola' = [q EXCEPT ![0].act = 1]
          /\ sDiscos' = PonerEstado(e, i, "SINCRONIZANDO")
          /\ Enviar(Por(e[o].hilo, Get2(IdConsola, 0, 1)), proceso)
      BY <3>2, <3>5, <3>6, <3>7 DEF SincronizarDisco
    <3>9. PonerEstado(e, i, "SINCRONIZANDO") = e /\ e[o].hilo = sDiscos[o].hilo
      BY <1>0, <3>1 DEF PonerEstado, Lugar
    <3>10. cola'[0] = Entrada0(o, i, 1) /\ \A j \in Pos : j # 0 => cola'[j].id = NULO
      BY <1>0, <3>6, <3>7, <3>8
    <3>11. sDiscos[o].estado = "SINCRONIZADO"
      BY <1>3 DEF AgregarSincroniza, EsPrimero, EnEstado
    <3>. QED BY <2>3, <3>1, <3>8, <3>9, <3>10, <3>11 DEF AgregaYEmpieza
  <2>. QED BY <2>2, <2>3
<1>4. CASE AgregarNada(d)
  BY <1>1, <1>4 DEF AgregarNada, tabla
<1>5. ASSUME NEW i \in Pos, sDiscos[i].hilo \in Conexiones, sDiscos[i].estado # "SINCRONIZADO",
             AgregarPrimero(i) \/ \E o \in Pos : AgregarSincroniza(i, o)
      PROVE  Agrega(i)
  BY <1>2, <1>3, <1>5 DEF Agrega
<1>6. CASE ~AgregarNada(d)
  <2>1. PICK i \in Pos : /\ sDiscos[i].estado # "SINCRONIZADO"
                         /\ sDiscos[i].hilo \in Conexiones
                         /\ AgregarPrimero(i) \/ \E o \in Pos : AgregarSincroniza(i, o)
    BY <1>6, Zenon DEF ConsolaAgregar, AgregaConHilo
  <2>. QED BY <1>1, <1>5, <2>1
<1>. QED BY <1>4, <1>6, <1>1

\* What an answer of the synchronisation finds: it is of entry 0, which goes on,
\* and nothing else of the synchronisation travels.
LEMMA RespuestaHalla ==
    ASSUME InvTipos, InvSinc, NEW c \in Conexiones, RespuestaSincronizacion(c)
    PROVE  /\ deDisco[c] # <<>> /\ Recibir(c) /\ UNCHANGED <<hilo, datos>>
           /\ Head(deDisco[c]) \in [t : {"RTA"}, id : Ids, d1 : Buffers, d2 : Buffers]
           /\ SincEn(c, "vuelta", 1) /\ Head(deDisco[c]) = deDisco[c][1]
           /\ cola[0] \in EntradaCola /\ cola[0].id = Head(deDisco[c]).id
           /\ Copiando /\ cola[0].act \in Nat /\ cola[0].act >= 1
           /\ NingunaPorVia("ida") /\ NingunaPorVia("vuelta")'
<1>0. /\ deDisco \in [Conexiones -> Seq(DelDisco)]
      /\ cola \in [Pos -> EntradaCola] /\ 0 \in Pos
  BY NAssumption DEF InvTipos, TypeOK, TipoTablas, TipoHilos, Pos
<1>1. /\ deDisco[c] # <<>> /\ Recibir(c) /\ Trae(c, "vuelta", 1)
      /\ Head(deDisco[c]) \in [t : {"RTA"}, id : Ids, d1 : Buffers, d2 : Buffers]
      /\ Head(deDisco[c]).id = cola[0].id /\ Head(deDisco[c]).id[1] = "consola"
  BY RespuestaSincEs DEF InvSinc
<1>2. UNCHANGED <<hilo, datos>>
  BY DEF RespuestaSincronizacion
<1>3. /\ Head(deDisco[c]) = deDisco[c][1]
      /\ Len(Tail(deDisco[c])) = Len(deDisco[c]) - 1 /\ Len(deDisco[c]) \in Nat
      /\ \A k \in 1..Len(Tail(deDisco[c])) : Tail(deDisco[c])[k] = deDisco[c][k + 1]
  <2>1. deDisco[c] \in Seq(DelDisco)
    BY <1>0
  <2>. QED BY <1>1, <2>1
<1>4. SincEn(c, "vuelta", 1) /\ "vuelta" \in Sentidos /\ "ida" \in Sentidos /\ 1 \in Nat
  BY <1>1, <1>3 DEF SincEn, Canal, De, Sentidos
<1>5. cola[0].id # NULO /\ cola[0] \in EntradaCola
  BY <1>0, <1>1, IdsAssumption
<1>6. cola[0].act >= 1 /\ cola[0].act \in Int
  BY <1>4, <1>5 DEF InvSinc, DeLaEntrada, EsDeLaEntrada, EntradaCola
<1>7. Copiando /\ cola[0].act \in Nat
  BY <1>5, <1>6 DEF Copiando, EnCurso
<1>8. NingunaPorVia("ida")
  BY <1>4 DEF NingunaPorVia, InvSinc, UnaSola
<1>9. NingunaPorVia("vuelta")'
  <2>. SUFFICES ASSUME NEW e \in Conexiones, NEW k \in Nat, SincEn(e, "vuelta", k)'
                PROVE  FALSE
    BY DEF NingunaPorVia
  <2>1. k \in 1..Len(deDisco'[e]) /\ De(deDisco'[e][k], "consola")
    BY DEF SincEn, Trae, Canal
  <2>2. deDisco'[e] = IF e = c THEN Tail(deDisco[c]) ELSE deDisco[e]
    BY <1>0, <1>1 DEF Recibir
  <2>3. CASE e = c
    <3>1. k + 1 \in 1..Len(deDisco[c]) /\ deDisco'[e][k] = deDisco[c][k + 1]
      BY <1>3, <2>1, <2>2, <2>3
    <3>2. SincEn(c, "vuelta", k + 1)
      BY <2>1, <3>1 DEF SincEn, Trae, Canal
    <3>3. k + 1 \in Nat /\ k + 1 # 1
      BY <2>1
    <3>. QED BY <1>4, <3>2, <3>3 DEF InvSinc, UnaSola
  <2>4. CASE e # c
    <3>1. SincEn(e, "vuelta", k)
      BY <2>1, <2>2, <2>4 DEF SincEn, Trae, Canal
    <3>. QED BY <1>4, <2>4, <3>1 DEF InvSinc, UnaSola
  <2>. QED BY <2>3, <2>4
<1>. QED BY <1>1, <1>2, <1>3, <1>4, <1>5, <1>6, <1>7, <1>8, <1>9

\* The pair it brings is written, and the next one is asked for or it ends.
ParLeido(m) == Put(m.id, cola[0].act - 1, cola[0].act, m.d1, m.d2)
ParSig(m) == Get2(m.id, cola[0].act + 1, cola[0].act + 2)

CopiaSigue(m) ==
    /\ HaySector(cola[0].act + 1)
    /\ UNCHANGED sDiscos
    /\ cola' = [cola EXCEPT ![0].act = cola[0].act + 2]
    /\ Enviar(Luego(Por(Dest.hilo, ParLeido(m)), Por(Orig.hilo, ParSig(m))), proceso)

CopiaTermina(m) ==
    /\ ~HaySector(cola[0].act + 1)
    /\ sDiscos' = PonerEstado(sDiscos, cola[0].dest, "SINCRONIZADO")
    /\ cola' = Correr([cola EXCEPT ![0].act = cola[0].act + 2, ![0].id = NULO])
    /\ Enviar(Por(Dest.hilo, ParLeido(m)), proceso)

LEMMA RespuestaEs ==
    ASSUME InvTipos, InvSinc, NEW c \in Conexiones, RespuestaSincronizacion(c)
    PROVE  CopiaSigue(Head(deDisco[c])) \/ CopiaTermina(Head(deDisco[c]))
<1>1. PICK m : m = Head(deDisco[c])
  OBVIOUS
<1>2. /\ m.id = cola[0].id /\ cola[0].act \in Nat /\ cola[0].act >= 1
      /\ cola[0].act % 2 = 1
  <2>1. SincEn(c, "vuelta", 1) /\ "vuelta" \in Sentidos /\ 1 \in Nat
    BY RespuestaHalla DEF Sentidos
  <2>2. EsDeLaEntrada(Canal(c, "vuelta")[1], "vuelta", cola[0])
    BY <2>1 DEF InvSinc, DeLaEntrada
  <2>. QED BY <1>1, <2>2, RespuestaHalla DEF EsDeLaEntrada
<1>3. Continuar(m)
  BY <1>1 DEF RespuestaSincronizacion
<1>4. CASE HaySector(cola[0].act + 1)
  <2>1. CalcularCHS(cola[0].act + 2, cola[0].act) = cola[0].act + 2
    BY <1>2, <1>4, ParSiguiente DEF CalcularCHS
  <2>. QED BY <1>1, <1>3, <1>4, <2>1
           DEF Continuar, CopiaSigue, ParLeido, ParSig, Orig, Dest
<1>5. CASE ~HaySector(cola[0].act + 1)
  BY <1>1, <1>3, <1>5 DEF Continuar, CopiaTermina, ParLeido, Dest
<1>. QED BY <1>4, <1>5

-----------------------------------------------------------------------------
(* The steps that open and close no bridge.                                   *)

InvRutas == InvPuentes /\ InvLugares

LEMMA RutasQuietas ==
    ASSUME UNCHANGED sDiscos
    PROVE  RutasSiguen
  BY DEF RutasSiguen

LEMMA RutaPuesta ==
    ASSUME sDiscos \in [Pos -> Lugar], NEW i \in Pos, sDiscos[i].hilo \in Conexiones,
           NEW s, sDiscos' = PonerEstado(sDiscos, i, s)
    PROVE  RutasSiguen
<1>1. \A j \in Pos : /\ sDiscos'[j].nombre = sDiscos[j].nombre
                     /\ sDiscos'[j].hilo = sDiscos[j].hilo
                     /\ sDiscos'[j].estado = IF j = i THEN s ELSE sDiscos[j].estado
  BY DEF PonerEstado, Lugar
<1>. QED BY <1>1 DEF RutasSiguen

LEMMA EntradaEnTabla ==
    ASSUME InvTipos
    PROVE  /\ 0 \in Pos /\ cola \in [Pos -> EntradaCola] /\ sDiscos \in [Pos -> Lugar]
           /\ cola[0].orig \in Pos /\ cola[0].dest \in Pos /\ cola[0].act \in Int
<1>1. 0 \in Pos /\ cola \in [Pos -> EntradaCola] /\ sDiscos \in [Pos -> Lugar]
  BY NAssumption DEF InvTipos, TypeOK, TipoTablas, Pos
<1>. QED BY <1>1 DEF EntradaCola

LEMMA LugaresQuietos ==
    ASSUME InvTipos, InvLugares, UNCHANGED cola,
           \A i \in Pos : sDiscos[i].estado \in Sincro => sDiscos'[i].estado = sDiscos[i].estado
    PROVE  InvLugares'
<1>1. cola[0].orig \in Pos /\ cola[0].dest \in Pos
  BY EntradaEnTabla
<1>2. Copiando' => Copiando
  BY DEF Copiando, EnCurso
<1>. QED BY <1>1, <1>2 DEF InvLugares, LugaresDeCopia, Orig, Dest, Sincro

LEMMA CopiaConPuente ==
    ASSUME InvTipos, InvRutas, Copiando
    PROVE  /\ Orig.estado = "SINCRONIZADO" /\ Dest.estado = "SINCRONIZANDO"
           /\ Orig.hilo \in Conexiones /\ Dest.hilo \in Conexiones
           /\ cola[0].orig # cola[0].dest
<1>1. cola[0].orig \in Pos /\ cola[0].dest \in Pos
  BY EntradaEnTabla
<1>2. Orig.estado = "SINCRONIZADO" /\ Dest.estado = "SINCRONIZANDO"
  BY DEF InvRutas, InvLugares, LugaresDeCopia
<1>. QED BY <1>1, <1>2 DEF InvRutas, InvPuentes, ConPuente, Sincro, Orig, Dest

\* After a copy that ends the queue holds entries that wait.
LEMMA TerminadaCola ==
    ASSUME InvTipos, InvRutas, NEW m, CopiaTermina(m)
    PROVE  \A k \in Pos : cola'[k].id # NULO => cola'[k].act = 0
<1>0. cola \in [Pos -> EntradaCola]
  BY EntradaEnTabla
<1>1. PICK z : z = [cola EXCEPT ![0].act = cola[0].act + 2, ![0].id = NULO]
  OBVIOUS
<1>2. \A k \in Pos : k # 0 => z[k] = cola[k]
  BY <1>0, <1>1
<1>3. \A k \in Pos : k # N - 1 => k + 1 \in Pos /\ k + 1 # 0
  BY NAssumption DEF Pos
<1>4. N - 1 \in Pos /\ N - 1 # 0
  BY NAssumption DEF Pos
<1>5. cola' = Correr(z)
  BY <1>1 DEF CopiaTermina
<1>6. \A k \in Pos : cola'[k].id # NULO => cola'[k].act = 0
  BY <1>2, <1>3, <1>4, <1>5 DEF Correr, InvRutas, InvLugares, DesdeCero
<1>. QED BY <1>6

LEMMA RespuestaRutas ==
    ASSUME InvTipos, InvSinc, InvRutas, NEW c \in Conexiones, RespuestaSincronizacion(c)
    PROVE  InvRutas'
<1>0. /\ 0 \in Pos /\ cola \in [Pos -> EntradaCola] /\ sDiscos \in [Pos -> Lugar]
      /\ cola[0].orig \in Pos /\ cola[0].dest \in Pos /\ cola[0].act \in Int
  BY EntradaEnTabla
<1>1. deDisco[c] # <<>> /\ Recibir(c) /\ UNCHANGED hilo /\ Copiando
  BY RespuestaHalla
<1>2. /\ Orig.estado = "SINCRONIZADO" /\ Dest.estado = "SINCRONIZANDO"
      /\ Dest.hilo \in Conexiones /\ cola[0].orig # cola[0].dest
  BY <1>1, CopiaConPuente
<1>3. AvisosSiguen
  BY <1>1, AvisosLeidos
<1>4. ASSUME NEW m, CopiaSigue(m)
      PROVE  InvRutas'
  <2>1. RutasSiguen /\ MudosSiguen
    BY <1>4, RutasQuietas, MudosQuietos DEF CopiaSigue
  <2>2. \A k \in Pos : /\ cola'[k].id = cola[k].id /\ (k # 0 => cola'[k] = cola[k])
                       /\ cola'[k].orig = cola[k].orig /\ cola'[k].dest = cola[k].dest
    BY <1>0, <1>4 DEF CopiaSigue, EntradaCola
  <2>3. InvLugares'
    BY <1>0, <1>2, <1>4, <2>2 DEF CopiaSigue, InvRutas, InvLugares, DesdeCero,
       LugaresDeCopia, Orig, Dest
  <2>. QED BY <1>1, <1>3, <2>1, <2>3, PuentesSiguen DEF InvRutas
<1>5. ASSUME NEW m, CopiaTermina(m)
      PROVE  InvRutas'
  <2>1. RutasSiguen /\ MudosSiguen
    BY <1>0, <1>2, <1>5, RutaPuesta, MudosQuietos DEF CopiaTermina, Dest
  <2>7. \A k \in Pos : cola'[k].id # NULO => cola'[k].act = 0
    BY <1>5, TerminadaCola
  <2>8. ~(cola'[0].id # NULO /\ cola'[0].act >= 1)
    BY <1>0, <2>7
  <2>9. InvLugares'
    BY <2>7, <2>8 DEF InvLugares, DesdeCero, LugaresDeCopia, Copiando, EnCurso
  <2>. QED BY <1>1, <1>3, <2>1, <2>9, PuentesSiguen DEF InvRutas
<1>. QED BY <1>4, <1>5, RespuestaEs

LEMMA AgregarRutas ==
    ASSUME InvTipos, ColaContigua, InvRutas, AgregaConHilo,
           NEW d \in Discos, ConsolaAgregar(d)
    PROVE  InvRutas'
<1>0. /\ 0 \in Pos /\ cola \in [Pos -> EntradaCola] /\ sDiscos \in [Pos -> Lugar]
      /\ cola[0].orig \in Pos /\ cola[0].dest \in Pos /\ cola[0].act \in Int
  BY EntradaEnTabla
<1>1. UNCHANGED <<deDisco, hilo>>
  BY AgregarEs
<1>2. AvisosSiguen
  BY <1>1, AvisosLeidos
<1>3. CASE UNCHANGED <<sDiscos, cola, aDisco>>
  <2>1. RutasSiguen /\ MudosSiguen
    BY <1>3, RutasQuietas, MudosQuietos
  <2>2. InvLugares'
    BY <1>3, LugaresQuietos DEF InvRutas
  <2>. QED BY <1>1, <1>2, <2>1, <2>2, PuentesSiguen DEF InvRutas
<1>4. ASSUME NEW i \in Pos, Agrega(i)
      PROVE  InvRutas'
  <2>1. sDiscos[i].hilo \in Conexiones /\ sDiscos[i].estado # "SINCRONIZADO"
    BY <1>4 DEF Agrega
  <2>2. ASSUME AgregaPrimera(i)
        PROVE  InvRutas'
    <3>1. RutasSiguen /\ MudosSiguen
      BY <1>0, <2>1, <2>2, RutaPuesta, MudosQuietos DEF AgregaPrimera
    <3>2. ~Copiando
      BY <1>0, <2>2 DEF AgregaPrimera, EnEstado, InvRutas, InvLugares, LugaresDeCopia, Orig
    <3>3. InvLugares'
      BY <2>2, <3>2 DEF AgregaPrimera, InvRutas, InvLugares, LugaresDeCopia, Copiando, EnCurso
    <3>. QED BY <1>1, <1>2, <3>1, <3>3, PuentesSiguen DEF InvRutas
  <2>3. ASSUME NEW o \in Pos, AgregaEnCola(i, o)
        PROVE  InvRutas'
    <3>1. RutasSiguen /\ MudosSiguen
      BY <1>0, <2>1, <2>3, RutaPuesta, MudosQuietos DEF AgregaEnCola
    <3>2. \A j \in Pos : sDiscos'[j].estado =
                            IF j = i THEN "SINCRONIZANDO" ELSE sDiscos[j].estado
      BY <1>0, <2>3 DEF AgregaEnCola, PonerEstado, Lugar
    <3>3. cola'[0] = cola[0] /\ DesdeCero(cola')
      <4>1. CASE UNCHANGED cola
        BY <4>1 DEF InvRutas, InvLugares
      <4>2. ASSUME NEW k \in Pos, k # 0, cola' = Cargar(cola, k, Entrada0(o, i, 0))
            PROVE  cola'[0] = cola[0] /\ DesdeCero(cola')
        <5>1. Entrada0(o, i, 0).act = 0
          BY DEF Entrada0
        <5>2. \A j \in Pos : cola'[j] = IF j = k THEN Entrada0(o, i, 0) ELSE cola[j]
          BY <1>0, <4>2 DEF Cargar
        <5>. QED BY <1>0, <4>2, <5>1, <5>2 DEF InvRutas, InvLugares, DesdeCero
      <4>. QED BY <2>3, <4>1, <4>2 DEF AgregaEnCola
    <3>4. LugaresDeCopia'
      BY <1>0, <2>1, <3>2, <3>3 DEF InvRutas, InvLugares, LugaresDeCopia, Copiando, EnCurso,
         Orig, Dest
    <3>. QED BY <1>1, <1>2, <3>1, <3>3, <3>4, PuentesSiguen DEF InvRutas, InvLugares
  <2>4. ASSUME NEW o \in Pos, AgregaYEmpieza(i, o)
        PROVE  InvRutas'
    <3>1. RutasSiguen /\ MudosSiguen
      BY <1>0, <2>1, <2>4, RutaPuesta, MudosQuietos DEF AgregaYEmpieza
    <3>2. \A j \in Pos : sDiscos'[j].estado =
                            IF j = i THEN "SINCRONIZANDO" ELSE sDiscos[j].estado
      BY <1>0, <2>4 DEF AgregaYEmpieza, PonerEstado, Lugar
    <3>3. cola'[0].orig = o /\ cola'[0].dest = i /\ sDiscos[o].estado = "SINCRONIZADO"
      BY <2>4 DEF AgregaYEmpieza, Entrada0
    <3>4. LugaresDeCopia'
      BY <2>1, <3>2, <3>3 DEF LugaresDeCopia, Orig, Dest
    <3>5. DesdeCero(cola')
      BY <2>4 DEF AgregaYEmpieza, DesdeCero
    <3>. QED BY <1>1, <1>2, <3>1, <3>4, <3>5, PuentesSiguen DEF InvRutas, InvLugares
  <2>. QED BY <1>4, <2>2, <2>3, <2>4 DEF Agrega
<1>. QED BY <1>3, <1>4, AgregarEs

LEMMA CierreRutas ==
    ASSUME InvTipos, ColaContigua, InvSinc, InvRutas, Cierre
    PROVE  InvRutas'
<1>1. /\ UNCHANGED <<sDiscos, aDisco, deDisco, hilo>>
      /\ cola' = cola \/ (~EnCurso /\ cola' = Correr(cola))
  BY CierreEs
<1>2. InvPuentes'
  BY <1>1, PuentesSiguen, RutasQuietas, MudosQuietos, AvisosLeidos DEF InvRutas
<1>3. CASE UNCHANGED cola
  BY <1>1, <1>2, <1>3, LugaresQuietos DEF InvRutas
<1>4. CASE ~EnCurso /\ cola' = Correr(cola)
  <2>1. 0 \in Pos /\ \A k \in Pos : cola'[k].id = NULO
    BY <1>4, CorrerVacia, EntradaEnTabla
  <2>2. InvLugares'
    BY <2>1 DEF InvLugares, DesdeCero, LugaresDeCopia, Copiando, EnCurso
  <2>. QED BY <1>2, <2>2 DEF InvRutas
<1>. QED BY <1>1, <1>3, <1>4

\* The entry a half answer is for was waiting for it: it is read whole.
LEMMA UnoRecibe ==
    ASSUME InvFondo, InvLecturas, Alcanza, NEW c \in Conexiones, RespuestaUno(c)
    PROVE  deDisco[c] # <<>> /\ Recibir(c)
<1>0. InvTipos /\ deDisco \in [Conexiones -> Seq(DelDisco)]
  BY DEF InvFondo, InvTipos, TypeOK, TipoHilos
<1>1. PICK m : m = Head(deDisco[c])
  OBVIOUS
<1>2. Llega(c, "RTAb")
  BY DEF RespuestaUno
<1>3. m \in DelDisco /\ m.t = "RTAb" /\ deDisco[c] # <<>>
  BY <1>0, <1>1, <1>2, RecibidoTipo DEF Llega
<1>4. m.id[1] = "get"
  BY <1>3, ClaseMensaje
<1>5. PICK n \in Numeros : /\ LecEn(c, "vuelta", 1, n) /\ Canal(c, "vuelta")[1] = m
                           /\ m.id = <<"get", n>>
  BY <1>0, <1>1, <1>2, <1>4, DeLectura
<1>6. EsMitad(m) /\ "vuelta" \in Sentidos
  BY <1>3 DEF EsMitad, Sentidos
<1>7. PedidosDe(pedidos, m.id) # {}
  BY <1>5, <1>6 DEF InvLecturas, InvPedidos, EntradaPorMitad
<1>8. PICK k \in Entradas :
         /\ EsPrimero(k, PedidosDe(pedidos, m.id))
         /\ IF c \in {pedidos[k].h1, pedidos[k].h2} THEN Recibir(c) ELSE SinLeer(c)
  BY <1>1, <1>7 DEF RespuestaUno
<1>9. MitadBien(m, c, pedidos[k], lecturas[n])
  BY <1>5, <1>6, <1>8 DEF EsPrimero, InvLecturas, InvPedidos, MitadesBien
<1>. QED BY <1>3, <1>8, <1>9 DEF MitadBien

LEMMA DiscoRutas ==
    ASSUME InvTipos, InvRutas, NEW c \in Conexiones, DiscoAtiende(c)
    PROVE  InvRutas'
<1>0. /\ aDisco \in [Conexiones -> Seq(AlDisco)] /\ deDisco \in [Conexiones -> Seq(DelDisco)]
      /\ UNCHANGED <<sDiscos, cola, hilo>>
  BY DEF InvTipos, TypeOK, TipoHilos, DiscoAtiende, tabla
<1>1. MudosSiguen
  <2>1. \A x \in Conexiones : x # c => aDisco'[x] = aDisco[x]
    BY <1>0 DEF DiscoAtiende
  <2>2. aDisco[c] # <<>>
    BY DEF DiscoAtiende
  <2>. QED BY <2>1, <2>2 DEF MudosSiguen
<1>2. AvisosSiguen
  <2>1. CASE UNCHANGED deDisco
    BY <2>1, AvisosLeidos
  <2>2. ASSUME NEW m, ~Especial(m), Contestar(c, m), hilo[c].fase = "activa"
        PROVE  AvisosSiguen
    <3>1. \A x \in Conexiones :
              deDisco'[x] = IF x = c THEN Append(deDisco[c], m) ELSE deDisco[x]
      BY <1>0, <2>2 DEF Contestar
    <3>2. \A x \in Conexiones : deDisco[x] \in Seq(DelDisco)
      BY <1>0
    <3>3. \A x \in Conexiones : Avanza(deDisco[x], deDisco'[x])
      BY <2>2, <3>1, <3>2, AvanzaMas, AvanzaMismo
    <3>. QED BY <2>2, <3>1, <3>3 DEF AvisosSiguen
  <2>3. \A x, s : ~Especial(Servir(x, s))
    BY DEF Servir, Especial
  <2>. QED BY <2>1, <2>2, <2>3 DEF DiscoAtiende
<1>3. InvPuentes'
  BY <1>0, <1>1, <1>2, RutasQuietas, PuentesSiguen DEF InvRutas
<1>4. InvLugares'
  BY <1>0, LugaresQuietos DEF InvRutas
<1>. QED BY <1>3, <1>4 DEF InvRutas

\* The steps that touch neither the table of disks nor the queue.
Sereno ==
    \/ \E c \in Conexiones : RespuestaDos(c) \/ RespuestaUno(c) \/ RespuestaPut(c)
    \/ \E par \in Pares : VskGet(par) \/ VskPut(par)
    \/ ConsolaIniciar \/ ConsolaDetener \/ ConsolaEstado \/ ConsolaSalir
    \/ VskDesconecta \/ SaleDelCiclo
    \/ UNCHANGED <<sDiscos, cola, hilo, aDisco, deDisco, datos>>

LEMMA SerenoEs ==
    ASSUME InvFondo, InvLecturas, Alcanza, Sereno
    PROVE  /\ UNCHANGED <<sDiscos, cola, hilo, datos>>
           /\ UNCHANGED deDisco \/ \E c \in Conexiones : deDisco[c] # <<>> /\ Recibir(c)
           /\ UNCHANGED aDisco \/ \E f, p : Enviar(f, p)
<1>. USE DEF tabla, canales
<1>0. \A c \in Conexiones : \A t : Llega(c, t) => deDisco[c] # <<>>
  BY DEF Llega
<1>1. ASSUME NEW c \in Conexiones, RespuestaDos(c) \/ RespuestaPut(c)
      PROVE  /\ UNCHANGED <<sDiscos, cola, hilo, datos, aDisco>>
             /\ deDisco[c] # <<>> /\ Recibir(c)
  BY <1>0, <1>1 DEF RespuestaDos, RespuestaPut
<1>2. ASSUME NEW c \in Conexiones, RespuestaUno(c)
      PROVE  /\ UNCHANGED <<sDiscos, cola, hilo, datos, aDisco>>
             /\ deDisco[c] # <<>> /\ Recibir(c)
  <2>1. UNCHANGED <<sDiscos, cola, hilo, datos, aDisco>>
    BY <1>2 DEF RespuestaUno
  <2>. QED BY <1>2, <2>1, UnoRecibe
<1>3. ASSUME NEW par \in Pares, VskGet(par)
      PROVE  /\ UNCHANGED <<sDiscos, cola, hilo, datos, deDisco>>
             /\ UNCHANGED aDisco \/ \E f, p : Enviar(f, p)
  <2>1. UNCHANGED <<sDiscos, cola, hilo, datos, deDisco>>
    BY <1>3 DEF VskGet
  <2>2. ASSUME NEW t1, NEW t2, Repartir(par, t1, t2)
        PROVE  \E f, p : Enviar(f, p)
    BY <2>2 DEF Repartir
  <2>3. UNCHANGED aDisco \/ \E t1, t2 \in Selectores : Repartir(par, t1, t2)
    BY <1>3 DEF VskGet
  <2>. QED BY <2>1, <2>2, <2>3
<1>4. ASSUME NEW par \in Pares, VskPut(par)
      PROVE  /\ UNCHANGED <<sDiscos, cola, hilo, datos, deDisco>>
             /\ \E f, p : Enviar(f, p)
  <2>1. UNCHANGED <<sDiscos, cola, hilo, datos, deDisco>>
    BY <1>4 DEF VskPut
  <2>2. \E f, p : Enviar(f, p)
    BY <1>4, Zenon DEF VskPut
  <2>. QED BY <2>1, <2>2
<1>5. CASE ConsolaIniciar \/ ConsolaDetener \/ ConsolaEstado \/ ConsolaSalir
  BY <1>5 DEF ConsolaIniciar, ConsolaDetener, ConsolaEstado, ConsolaSalir
<1>6. CASE VskDesconecta \/ SaleDelCiclo
  BY <1>6 DEF VskDesconecta, SaleDelCiclo
<1>7. CASE UNCHANGED <<sDiscos, cola, hilo, aDisco, deDisco, datos>>
  BY <1>7
<1>. QED BY <1>1, <1>2, <1>3, <1>4, <1>5, <1>6, <1>7 DEF Sereno

LEMMA SerenoRutas ==
    ASSUME InvFondo, InvLecturas, Alcanza, InvRutas, Sereno
    PROVE  InvRutas'
<1>0. InvTipos
  BY DEF InvFondo
<1>1. InvPuentes'
  BY <1>0, SerenoEs, RutasQuietas, MudosQuietos, AvisosLeidos, PuentesSiguen DEF InvRutas
<1>2. InvLugares'
  BY <1>0, SerenoEs, LugaresQuietos DEF InvRutas
<1>. QED BY <1>1, <1>2 DEF InvRutas

-----------------------------------------------------------------------------
(* The steps that open and close a bridge.                                    *)

\* A place of a disk that has no live bridge has none, and copies nothing.
LEMMA LugarSinPuente ==
    ASSUME InvTipos, InvTabla, InvPuentes, NEW d \in Discos, ~Conectado(d), NEW i \in Pos,
           sDiscos[i].nombre \in {d, NULO}
    PROVE  sDiscos[i].hilo \notin Conexiones /\ sDiscos[i].estado \notin Sincro
<1>1. sDiscos[i].hilo \notin Conexiones
  <2>. SUFFICES ASSUME NEW c \in Conexiones, sDiscos[i].hilo = c
                PROVE  FALSE
    OBVIOUS
  <2>1. sDiscos[i].nombre # NULO
    BY ValoresAssumption DEF InvTabla, LugarLibre
  <2>2. hilo[c].disco = d
    BY <2>1 DEF InvTabla, RutaCorrecta
  <2>3. hilo[c].fase = "activa"
    BY DEF InvPuentes, Anunciadas
  <2>. QED BY <2>2, <2>3 DEF Conectado
<1>. QED BY <1>1 DEF InvPuentes, ConPuente

\* A bridge that is to be announced lives.
LEMMA PorAnunciarVive ==
    ASSUME InvTipos, InvPuentes, NEW c \in Conexiones, PorAnunciar(c)
    PROVE  hilo[c].fase \in Vivas /\ hilo[c].disco \in Discos
<1>1. CASE hilo[c].fase = "nueva"
  BY <1>1 DEF Vivas, InvTipos, HilosConDisco
<1>2. CASE Avisa(c)
  <2>1. deDisco[c] # <<>>
    BY <1>2 DEF Avisa
  <2>2. hilo[c].fase = "activa"
    BY <2>1 DEF InvPuentes, Calladas
  <2>. QED BY <2>2 DEF Vivas, InvTipos, HilosConDisco
<1>. QED BY <1>1, <1>2 DEF PorAnunciar

LEMMA HandshakeRutas ==
    ASSUME InvTipos, InvTabla, InvRutas, NEW d \in Discos, HandshakeDisco(d)
    PROVE  InvRutas'
<1>0. /\ sDiscos \in [Pos -> Lugar] /\ hilo \in [Conexiones -> Hilos]
      /\ aDisco \in [Conexiones -> Seq(AlDisco)]
      /\ UNCHANGED <<deDisco, cola>> /\ ~Conectado(d) /\ d # NULO
  <2>1. UNCHANGED <<deDisco, cola>> /\ ~Conectado(d)
    BY DEF HandshakeDisco
  <2>2. /\ sDiscos \in [Pos -> Lugar] /\ hilo \in [Conexiones -> Hilos]
        /\ aDisco \in [Conexiones -> Seq(AlDisco)]
    BY DEF InvTipos, TypeOK, TipoTablas, TipoHilos
  <2>. QED BY <2>1, <2>2, ValoresAssumption
<1>1. CASE HandshakeRechazado(d)
  <2>1. UNCHANGED <<sDiscos, hilo, aDisco>>
    BY <1>1 DEF HandshakeRechazado
  <2>2. InvPuentes'
    BY <1>0, <2>1, RutasQuietas, MudosQuietos, AvisosLeidos, PuentesSiguen DEF InvRutas
  <2>3. InvLugares'
    BY <1>0, <2>1, LugaresQuietos DEF InvRutas
  <2>. QED BY <2>2, <2>3 DEF InvRutas
<1>2. ASSUME NEW c \in Conexiones, NEW i \in Pos,
             hilo[c].fase = "libre", HandshakeAceptado(d, c, i)
      PROVE  InvRutas'
  <2>1. /\ sDiscos'[i].nombre = d /\ sDiscos'[i].estado = "CONECTADO"
        /\ \A j \in Pos : sDiscos'[j].hilo = sDiscos[j].hilo
        /\ \A j \in Pos : j # i => sDiscos'[j] = sDiscos[j]
    BY <1>0, <1>2 DEF HandshakeAceptado, AsignarDisco, Lugar
  <2>2. /\ hilo'[c].fase = "nueva" /\ hilo'[c].disco = d
        /\ \A x \in Conexiones : x # c => hilo'[x] = hilo[x]
    BY <1>0, <1>2 DEF HandshakeAceptado
  <2>3. \A j \in Pos : j # i => sDiscos[j].nombre # d
    BY <1>0, <1>2 DEF HandshakeAceptado, EsAsignado, EsPrimero, Nombrados,
                      InvTabla, NombresUnicos
  <2>4. sDiscos[i].nombre \in {d, NULO}
    BY <1>2 DEF HandshakeAceptado, EsAsignado, EsPrimero, Nombrados,
                Disponibles, InvTabla, LugarLibre
  <2>5. sDiscos[i].hilo \notin Conexiones /\ sDiscos[i].estado \notin Sincro
    BY <1>0, <2>4, LugarSinPuente DEF InvRutas
  <2>6. /\ \A x \in Conexiones : aDisco'[x] = IF hilo[x].disco = d THEN <<>> ELSE aDisco[x]
        /\ deDisco[c] = <<>>
    BY <1>2 DEF HandshakeAceptado, InvTabla, LibreIntacta
  <2>7. \A x \in Conexiones : hilo[x].disco = d => hilo[x].fase \notin Vivas
    BY <1>0 DEF Conectado, Vivas
  <2>8. ~Avisa(c)
    BY <2>6 DEF Avisa
  <2>9. \A x \in Conexiones : x # c => (PorAnunciar(x)' <=> PorAnunciar(x))
    BY <1>0, <2>2 DEF PorAnunciar, Avisa
  <2>10. SinRoturas' /\ Calladas' /\ UnAnuncio'
    BY <1>0, <2>2, <2>6 DEF InvRutas, InvPuentes, SinRoturas, Calladas, UnAnuncio
  <2>11. UnPuente'
    <3>. SUFFICES ASSUME NEW x \in Conexiones, NEW y \in Conexiones, x # y,
                         hilo'[x].disco = hilo'[y].disco, hilo'[x].fase \in Vivas
                  PROVE  hilo'[y].fase \notin Vivas /\ aDisco'[y] = <<>>
      BY DEF UnPuente
    <3>1. CASE x = c
      BY <2>2, <2>6, <2>7, <3>1
    <3>2. CASE y = c
      BY <2>2, <2>7, <3>2
    <3>3. CASE x # c /\ y # c
      BY <2>2, <2>6, <3>3 DEF InvRutas, InvPuentes, UnPuente
    <3>. QED BY <3>1, <3>2, <3>3
  <2>12. SinRuta'
    <3>. SUFFICES ASSUME NEW x \in Conexiones, NEW j \in Pos, PorAnunciar(x)',
                         sDiscos'[j].nombre = hilo'[x].disco
                  PROVE  sDiscos'[j].estado = "CONECTADO" /\ sDiscos'[j].hilo \notin Conexiones
      BY DEF SinRuta
    <3>1. CASE x = c
      BY <2>1, <2>2, <2>3, <2>5, <3>1
    <3>2. CASE x # c
      <4>1. PorAnunciar(x) /\ hilo[x].fase \in Vivas /\ hilo'[x] = hilo[x]
        BY <2>2, <2>9, <3>2, PorAnunciarVive DEF InvRutas
      <4>2. j # i
        BY <2>1, <2>7, <4>1
      <4>. QED BY <2>1, <4>1, <4>2 DEF InvRutas, InvPuentes, SinRuta
    <3>. QED BY <3>1, <3>2
  <2>13. Anunciadas'
    <3>. SUFFICES ASSUME NEW x \in Conexiones, NEW j \in Pos, sDiscos'[j].hilo = x
                  PROVE  hilo'[x].fase = "activa" /\ ~PorAnunciar(x)'
      BY DEF Anunciadas
    <3>1. hilo[x].fase = "activa" /\ ~PorAnunciar(x)
      BY <2>1 DEF InvRutas, InvPuentes, Anunciadas
    <3>2. x # c
      BY <1>2, <3>1
    <3>. QED BY <2>2, <2>9, <3>1, <3>2
  <2>14. ConPuente'
    BY <2>1 DEF InvRutas, InvPuentes, ConPuente, Sincro
  <2>15. InvPuentes'
    BY <2>10, <2>11, <2>12, <2>13, <2>14 DEF InvPuentes
  <2>16. InvLugares'
    BY <1>0, <2>1, <2>5, LugaresQuietos DEF InvRutas
  <2>. QED BY <2>15, <2>16 DEF InvRutas
<1>. QED BY <1>1, <1>2 DEF HandshakeDisco

LEMMA AsociarRutas ==
    ASSUME InvTipos, InvTabla, InvRutas, NEW c \in Conexiones, AsociarHilo(c)
    PROVE  InvRutas'
<1>0. /\ sDiscos \in [Pos -> Lugar] /\ hilo \in [Conexiones -> Hilos]
      /\ deDisco \in [Conexiones -> Seq(DelDisco)]
      /\ Llega(c, "HILO") /\ Recibir(c) /\ UNCHANGED <<hilo, cola, aDisco>>
  BY DEF InvTipos, TypeOK, TipoTablas, TipoHilos, AsociarHilo
<1>1. PICK d : d = Head(deDisco[c]).nombre
  OBVIOUS
<1>2. deDisco[c] # <<>> /\ Head(deDisco[c]).t = "HILO"
  BY <1>0 DEF Llega
<1>3. Head(deDisco[c]) = deDisco[c][1] /\ 1 \in 1..Len(deDisco[c])
  BY <1>0, <1>2
<1>4. hilo[c].disco = d /\ PorAnunciar(c)
  BY <1>1, <1>2, <1>3 DEF InvTabla, HiloDiceSuDisco, HiloDice, PorAnunciar, Avisa
<1>5. hilo[c].fase = "activa"
  BY <1>2 DEF InvRutas, InvPuentes, Calladas
<1>6. AvisosSiguen /\ MudosSiguen
  BY <1>0, <1>2, AvisosLeidos, MudosQuietos
<1>7. CASE UNCHANGED sDiscos
  <2>1. InvPuentes' /\ InvLugares'
    BY <1>0, <1>6, <1>7, RutasQuietas, PuentesSiguen, LugaresQuietos DEF InvRutas
  <2>. QED BY <2>1 DEF InvRutas
<1>8. ASSUME NEW i \in Pos, EsPrimero(i, Nombrados(sDiscos, d)),
             sDiscos' = AsociarSocketHilo(sDiscos, c, i)
      PROVE  InvRutas'
  <2>1. sDiscos[i].nombre = d
    BY <1>8 DEF EsPrimero, Nombrados
  <2>2. sDiscos[i].estado = "CONECTADO" /\ sDiscos[i].hilo \notin Conexiones
    BY <1>4, <2>1 DEF InvRutas, InvPuentes, SinRuta
  <2>3. /\ \A j \in Pos : /\ sDiscos'[j].nombre = sDiscos[j].nombre
                          /\ sDiscos'[j].estado = sDiscos[j].estado
                          /\ j # i => sDiscos'[j].hilo = sDiscos[j].hilo
        /\ sDiscos'[i].hilo = c
    BY <1>0, <1>8, <2>2 DEF AsociarSocketHilo, Lugar
  <2>4. \A x \in Conexiones : deDisco'[x] = IF x = c THEN Tail(deDisco[c]) ELSE deDisco[x]
    BY <1>0 DEF Recibir
  <2>5. /\ Len(Tail(deDisco[c])) = Len(deDisco[c]) - 1 /\ Len(deDisco[c]) \in Nat
        /\ \A k \in 1..Len(Tail(deDisco[c])) : Tail(deDisco[c])[k] = deDisco[c][k + 1]
    <3>1. deDisco[c] \in Seq(DelDisco)
      BY <1>0
    <3>. QED BY <1>2, <3>1
  <2>6. ~Avisa(c)'
    <3>. SUFFICES ASSUME NEW k \in 1..Len(deDisco'[c]), deDisco'[c][k].t = "HILO"
                  PROVE  FALSE
      BY DEF Avisa
    <3>. DEFINE r == Tail(deDisco[c])
    <3>00. deDisco'[c] = r
      BY <2>4
    <3>0. k \in 1..Len(r) /\ r[k].t = "HILO" /\ k \in Nat
      BY <3>00
    <3>1. k + 1 \in 1..Len(deDisco[c]) /\ deDisco[c][k + 1].t = "HILO" /\ k + 1 # 1
      BY <2>5, <3>0
    <3>. QED BY <3>1 DEF InvRutas, InvPuentes, UnAnuncio
  <2>7. \A x \in Conexiones : x # c => (PorAnunciar(x)' <=> PorAnunciar(x))
    BY <1>0, <2>4 DEF PorAnunciar, Avisa
  <2>8. ~PorAnunciar(c)'
    BY <1>0, <1>5, <2>6 DEF PorAnunciar
  <2>9. SinRoturas' /\ Calladas' /\ UnPuente' /\ UnAnuncio'
    <3>1. \A x \in Conexiones : \A k \in 1..Len(deDisco'[x]) : Especial(deDisco'[x][k]) =>
             k = 1 /\ deDisco'[x][k].t = "HILO"
      BY <1>0, <1>6, AvisaSigue DEF InvRutas
    <3>2. SinRoturas' /\ UnAnuncio'
      BY <1>0, <3>1 DEF InvRutas, InvPuentes, SinRoturas, UnAnuncio, Especial
    <3>3. Calladas'
      BY <1>0, <1>6 DEF InvRutas, InvPuentes, Calladas, AvisosSiguen
    <3>4. UnPuente'
      BY <1>0 DEF InvRutas, InvPuentes, UnPuente
    <3>. QED BY <3>2, <3>3, <3>4
  <2>10. SinRuta'
    <3>. SUFFICES ASSUME NEW x \in Conexiones, NEW j \in Pos, PorAnunciar(x)',
                         sDiscos'[j].nombre = hilo'[x].disco
                  PROVE  sDiscos'[j].estado = "CONECTADO" /\ sDiscos'[j].hilo \notin Conexiones
      BY DEF SinRuta
    <3>1. x # c /\ PorAnunciar(x)
      BY <2>7, <2>8
    <3>2. sDiscos[j].estado = "CONECTADO" /\ sDiscos[j].hilo \notin Conexiones
      BY <1>0, <2>3, <3>1 DEF InvRutas, InvPuentes, SinRuta
    <3>3. j # i
      <4>. SUFFICES ASSUME j = i
                    PROVE  FALSE
        OBVIOUS
      <4>1. hilo[x].disco = hilo[c].disco
        BY <1>0, <1>4, <2>1, <2>3
      <4>2. hilo[x].fase \in Vivas
        BY <3>1, PorAnunciarVive DEF InvRutas
      <4>. QED BY <1>5, <3>1, <4>1, <4>2 DEF InvRutas, InvPuentes, UnPuente, Vivas
    <3>. QED BY <2>3, <3>2, <3>3
  <2>11. Anunciadas'
    <3>. SUFFICES ASSUME NEW x \in Conexiones, NEW j \in Pos, sDiscos'[j].hilo = x
                  PROVE  hilo'[x].fase = "activa" /\ ~PorAnunciar(x)'
      BY DEF Anunciadas
    <3>1. CASE x = c
      BY <1>0, <1>5, <2>8, <3>1
    <3>2. CASE x # c
      BY <1>0, <2>3, <2>7, <3>2 DEF InvRutas, InvPuentes, Anunciadas
    <3>. QED BY <3>1, <3>2
  <2>12. ConPuente'
    BY <2>2, <2>3 DEF InvRutas, InvPuentes, ConPuente, Sincro
  <2>13. InvPuentes'
    BY <2>9, <2>10, <2>11, <2>12 DEF InvPuentes
  <2>14. InvLugares'
    BY <1>0, <2>3, LugaresQuietos DEF InvRutas
  <2>. QED BY <2>13, <2>14 DEF InvRutas
<1>. QED BY <1>1, <1>7, <1>8 DEF AsociarHilo

LEMMA IniciaRutas ==
    ASSUME InvTipos, InvTabla, InvRutas, NEW c \in Conexiones, HiloInicia(c)
    PROVE  InvRutas'
<1>0. /\ hilo \in [Conexiones -> Hilos] /\ deDisco \in [Conexiones -> Seq(DelDisco)]
      /\ UNCHANGED <<sDiscos, cola, aDisco>> /\ hilo[c].fase = "nueva"
  BY DEF InvTipos, TypeOK, TipoHilos, HiloInicia, tabla
<1>1. InvLugares'
  BY <1>0, LugaresQuietos DEF InvRutas
<1>2. CASE UNCHANGED <<hilo, deDisco>>
  <2>1. InvPuentes'
    BY <1>0, <1>2, RutasQuietas, MudosQuietos, AvisosLeidos, PuentesSiguen DEF InvRutas
  <2>. QED BY <1>1, <2>1 DEF InvRutas
<1>3. ASSUME NEW m, m.t = "HILO", hilo' = [hilo EXCEPT ![c].fase = "activa"], Contestar(c, m)
      PROVE  InvRutas'
  <2>1. /\ hilo'[c].fase = "activa" /\ hilo'[c].disco = hilo[c].disco
        /\ \A x \in Conexiones : x # c => hilo'[x] = hilo[x]
    BY <1>0, <1>3 DEF Hilos
  <2>2. deDisco[c] = <<>>
    BY <1>0 DEF InvRutas, InvPuentes, Calladas
  <2>3. \A x \in Conexiones : x # c => deDisco'[x] = deDisco[x]
    BY <1>0, <1>3 DEF Contestar
  <2>4. Len(deDisco'[c]) = 1 /\ deDisco'[c][1] = m
    BY <1>0, <1>3, <2>2 DEF Contestar
  <2>5. PorAnunciar(c)
    BY <1>0 DEF PorAnunciar
  <2>6. \A x \in Conexiones : PorAnunciar(x)' => PorAnunciar(x)
    BY <2>1, <2>3, <2>5 DEF PorAnunciar, Avisa
  <2>7. SinRoturas' /\ Calladas' /\ UnAnuncio'
    BY <1>3, <2>1, <2>3, <2>4 DEF InvRutas, InvPuentes, SinRoturas, Calladas, UnAnuncio
  <2>8. UnPuente'
    BY <1>0, <2>1 DEF InvRutas, InvPuentes, UnPuente, Vivas
  <2>9. SinRuta'
    BY <1>0, <2>1, <2>6 DEF InvRutas, InvPuentes, SinRuta
  <2>10. Anunciadas'
    BY <1>0, <2>1, <2>5, <2>6 DEF InvRutas, InvPuentes, Anunciadas
  <2>11. ConPuente'
    BY <1>0 DEF InvRutas, InvPuentes, ConPuente
  <2>. QED BY <1>1, <2>7, <2>8, <2>9, <2>10, <2>11 DEF InvRutas, InvPuentes
<1>. QED BY <1>2, <1>3 DEF HiloInicia

\* What the removal of a disk does: its place is freed, and its bridge closed.
Quita(i) ==
    /\ sDiscos' = DesconectarLugar(sDiscos, i)
    /\ UNCHANGED <<cola, datos>>
    /\ SinSincronizar(sDiscos) = {}
    /\ \/ sDiscos[i].hilo \notin Conexiones /\ UNCHANGED <<hilo, aDisco, deDisco>>
       \/ \E c \in Conexiones : c = sDiscos[i].hilo /\ EliminaPuente(c)

LEMMA EliminarEs ==
    ASSUME NEW d \in Discos, ConsolaEliminar(d)
    PROVE  \/ UNCHANGED <<sDiscos, cola, hilo, aDisco, deDisco, datos>>
           \/ \E i \in Pos : sDiscos[i].nombre = d /\ Quita(i)
<1>1. UNCHANGED <<cola, datos>>
  BY Zenon DEF ConsolaEliminar
<1>2. \/ UNCHANGED <<sDiscos, hilo, canales>>
      \/ /\ SinSincronizar(sDiscos) = {}
         /\ \E i \in Pos :
               /\ EsUltimo(i, Nombrados(sDiscos, d))
               /\ sDiscos' = DesconectarLugar(sDiscos, i)
               /\ \/ sDiscos[i].hilo \notin Conexiones /\ UNCHANGED <<hilo, canales>>
                  \/ \E c \in Conexiones : c = sDiscos[i].hilo /\ EliminaPuente(c)
  BY Zenon DEF ConsolaEliminar
<1>. QED BY <1>1, <1>2 DEF Quita, canales, EsUltimo, Nombrados

LEMMA QuitaRutas ==
    ASSUME InvTipos, InvTabla, InvRutas, NEW i \in Pos, sDiscos[i].nombre # NULO, Quita(i)
    PROVE  InvRutas'
<1>0. /\ sDiscos \in [Pos -> Lugar] /\ hilo \in [Conexiones -> Hilos]
      /\ aDisco \in [Conexiones -> Seq(AlDisco)] /\ deDisco \in [Conexiones -> Seq(DelDisco)]
      /\ cola[0].orig \in Pos /\ cola[0].dest \in Pos
      /\ DISPONIBLE \notin Conexiones /\ NULO \notin Discos
  BY EntradaEnTabla, ValoresAssumption DEF InvTipos, TypeOK, TipoTablas, TipoHilos
<1>1. /\ sDiscos'[i] = LugarVacio /\ \A j \in Pos : j # i => sDiscos'[j] = sDiscos[j]
      /\ LugarVacio.nombre = NULO /\ LugarVacio.hilo \notin Conexiones
      /\ LugarVacio.estado = "NO_CONECTADO"
  BY <1>0 DEF Quita, DesconectarLugar, LugarVacio
<1>2. InvLugares'
  <2>1. ~Copiando
    BY <1>0 DEF Quita, SinSincronizar, EnEstado, InvRutas, InvLugares, LugaresDeCopia, Dest
  <2>. QED BY <2>1 DEF Quita, InvRutas, InvLugares, LugaresDeCopia, Copiando, EnCurso
<1>3. ConPuente'
  BY <1>1 DEF InvRutas, InvPuentes, ConPuente, Sincro
<1>4. CASE UNCHANGED <<hilo, aDisco, deDisco>>
  <2>1. \A x \in Conexiones : PorAnunciar(x)' <=> PorAnunciar(x)
    BY <1>4 DEF PorAnunciar, Avisa
  <2>2. SinRoturas' /\ Calladas' /\ UnPuente' /\ UnAnuncio'
    BY <1>4 DEF InvRutas, InvPuentes, SinRoturas, Calladas, UnPuente, UnAnuncio
  <2>3. \A x \in Conexiones : PorAnunciar(x) => hilo[x].disco # NULO
    BY <1>0, PorAnunciarVive DEF InvRutas
  <2>4. SinRuta'
    BY <1>1, <1>4, <2>1, <2>3 DEF InvRutas, InvPuentes, SinRuta
  <2>5. Anunciadas'
    BY <1>1, <1>4, <2>1 DEF InvRutas, InvPuentes, Anunciadas
  <2>. QED BY <1>2, <1>3, <2>2, <2>4, <2>5 DEF InvRutas, InvPuentes
<1>5. ASSUME NEW c \in Conexiones, c = sDiscos[i].hilo, EliminaPuente(c)
      PROVE  InvRutas'
  <2>1. /\ hilo'[c].fase = "cerrada" /\ hilo'[c].disco = hilo[c].disco /\ deDisco'[c] = <<>>
        /\ \A x \in Conexiones : x # c => hilo'[x] = hilo[x] /\ deDisco'[x] = deDisco[x]
                                          /\ aDisco'[x] = aDisco[x]
    BY <1>0, <1>5 DEF EliminaPuente, Hilos
  <2>2. /\ hilo[c].fase = "activa" /\ ~PorAnunciar(c)
        /\ \A j \in Pos : j # i => sDiscos[j].hilo # c
    <3>1. hilo[c].fase = "activa" /\ ~PorAnunciar(c)
      BY <1>5 DEF InvRutas, InvPuentes, Anunciadas
    <3>2. \A j \in Pos : sDiscos[j].hilo = c => sDiscos[j].nombre = sDiscos[i].nombre
      BY <1>5 DEF InvTabla, RutaCorrecta
    <3>. QED BY <3>1, <3>2 DEF InvTabla, NombresUnicos
  <2>3. ~PorAnunciar(c)'
    BY <2>1 DEF PorAnunciar, Avisa
  <2>4. \A x \in Conexiones : x # c => (PorAnunciar(x)' <=> PorAnunciar(x))
    BY <2>1 DEF PorAnunciar, Avisa
  <2>5. SinRoturas' /\ Calladas' /\ UnAnuncio'
    BY <2>1 DEF InvRutas, InvPuentes, SinRoturas, Calladas, UnAnuncio
  <2>6. UnPuente'
    <3>. SUFFICES ASSUME NEW x \in Conexiones, NEW y \in Conexiones, x # y,
                         hilo'[x].disco = hilo'[y].disco, hilo'[x].fase \in Vivas
                  PROVE  hilo'[y].fase \notin Vivas /\ aDisco'[y] = <<>>
      BY DEF UnPuente
    <3>1. x # c
      BY <2>1 DEF Vivas
    <3>2. hilo[x].disco = hilo[y].disco /\ hilo[x].fase \in Vivas
      BY <2>1, <3>1
    <3>3. hilo[y].fase \notin Vivas /\ aDisco[y] = <<>>
      BY <3>2 DEF InvRutas, InvPuentes, UnPuente
    <3>4. y # c
      BY <2>2, <3>3 DEF Vivas
    <3>. QED BY <2>1, <3>3, <3>4
  <2>7. SinRuta'
    <3>1. \A x \in Conexiones : PorAnunciar(x) => hilo[x].disco # NULO
      BY <1>0, PorAnunciarVive DEF InvRutas
    <3>2. \A x \in Conexiones : PorAnunciar(x)' =>
             PorAnunciar(x) /\ hilo'[x].disco = hilo[x].disco /\ hilo[x].disco # NULO
      BY <2>1, <2>3, <2>4, <3>1
    <3>. QED BY <1>1, <3>2 DEF InvRutas, InvPuentes, SinRuta
  <2>8. Anunciadas'
    BY <1>1, <2>1, <2>2, <2>4 DEF InvRutas, InvPuentes, Anunciadas
  <2>. QED BY <1>2, <1>3, <2>5, <2>6, <2>7, <2>8 DEF InvRutas, InvPuentes
<1>. QED BY <1>4, <1>5 DEF Quita

-----------------------------------------------------------------------------

\* While no disk falls no socket is found closed or out of step.
LEMMA SinCaidas ==
    ASSUME InvTipos, InvRutas, MaxCaidas = 0, NEW c \in Conexiones
    PROVE  ~Desconexion(c) /\ ~ProtocoloIncorrecto(c) /\ ~DiscoCae(c)
<1>1. \A t : Llega(c, t) => 1 \in 1..Len(deDisco[c]) /\ deDisco[c][1].t = t
  <2>1. deDisco[c] \in Seq(DelDisco)
    BY DEF InvTipos, TypeOK, TipoHilos
  <2>. QED BY <2>1 DEF Llega
<1>2. ~Llega(c, "EOF") /\ ~Llega(c, "BASURA")
  BY <1>1 DEF InvRutas, InvPuentes, SinRoturas
<1>3. ~DiscoCae(c)
  BY DEF DiscoCae, InvTipos, TypeOK, TipoControl
<1>. QED BY <1>2, <1>3 DEF Desconexion, ProtocoloIncorrecto

\* What holds whatever falls, and what the steps of the regime are.
InvBase == InvTipos /\ ColaContigua /\ InvSinc /\ InvTabla /\ InvFondo /\ InvLecturas

LEMMA PasosDelRegimen ==
    ASSUME Regimen, InvBase, InvRutas, [Next]_vars
    PROVE  \/ Sereno
           \/ \E d \in Discos : HandshakeDisco(d) \/ ConsolaAgregar(d) \/ ConsolaEliminar(d)
           \/ \E c \in Conexiones : \/ AsociarHilo(c) \/ RespuestaSincronizacion(c)
                                    \/ HiloInicia(c) \/ DiscoAtiende(c)
           \/ Cierre
<1>0. InvTipos /\ \A c \in Conexiones : ~Desconexion(c) /\ ~ProtocoloIncorrecto(c) /\ ~DiscoCae(c)
  BY SinCaidas DEF InvBase, Regimen
<1>1. CASE UNCHANGED vars
  BY <1>1 DEF vars, Sereno
<1>2. ASSUME NEW c \in Conexiones, Respuesta(c) \/ HiloInicia(c) \/ DiscoAtiende(c) \/ DiscoCae(c)
      PROVE  \/ Sereno
             \/ AsociarHilo(c) \/ RespuestaSincronizacion(c) \/ HiloInicia(c) \/ DiscoAtiende(c)
  BY <1>0, <1>2 DEF Respuesta, Sereno
<1>3. CASE Consola
  BY <1>3 DEF Consola, Sereno
<1>4. CASE Vsk \/ SaleDelCiclo
  BY <1>4 DEF Vsk, Sereno
<1>. QED BY <1>1, <1>2, <1>3, <1>4 DEF Next

LEMMA RutasPaso ==
    Regimen /\ InvBase /\ InvRutas /\ [Next]_vars => InvRutas'
<1>. SUFFICES ASSUME Regimen, InvBase, InvRutas, [Next]_vars
              PROVE  InvRutas'
  OBVIOUS
<1>0. /\ InvTipos /\ ColaContigua /\ InvSinc /\ InvTabla /\ InvFondo /\ InvLecturas
      /\ Alcanza /\ AgregaConHilo
  BY DEF InvBase, Regimen
<1>1. CASE Sereno
  BY <1>0, <1>1, SerenoRutas
<1>2. ASSUME NEW d \in Discos, HandshakeDisco(d) \/ ConsolaAgregar(d)
      PROVE  InvRutas'
  BY <1>0, <1>2, HandshakeRutas, AgregarRutas
<1>3. ASSUME NEW d \in Discos, ConsolaEliminar(d)
      PROVE  InvRutas'
  <2>1. CASE UNCHANGED <<sDiscos, cola, hilo, aDisco, deDisco, datos>>
    BY <1>0, <2>1, SerenoRutas DEF Sereno
  <2>2. d # NULO
    BY ValoresAssumption
  <2>. QED BY <1>0, <1>3, <2>1, <2>2, EliminarEs, QuitaRutas
<1>4. ASSUME NEW c \in Conexiones, \/ AsociarHilo(c) \/ RespuestaSincronizacion(c)
                                   \/ HiloInicia(c) \/ DiscoAtiende(c)
      PROVE  InvRutas'
  BY <1>0, <1>4, AsociarRutas, RespuestaRutas, IniciaRutas, DiscoRutas
<1>5. CASE Cierre
  BY <1>0, <1>5, CierreRutas
<1>. QED BY <1>1, <1>2, <1>3, <1>4, <1>5, PasosDelRegimen

LEMMA RutasInicial == Init => InvRutas
<1>. SUFFICES ASSUME Init PROVE InvRutas
  OBVIOUS
<1>1. InvTipos /\ InvTabla
  BY InitTipos, TablaInicial
<1>2. \A c \in Conexiones : hilo[c].fase = "libre" /\ aDisco[c] = <<>> /\ deDisco[c] = <<>>
  BY DEF Init
<1>3. \A i \in Pos : sDiscos[i].estado = "NO_CONECTADO"
  BY DEF Init, RespaldarLista, LugarVacio
<1>4. \A i \in Pos : sDiscos[i].hilo \notin Conexiones
  BY <1>1, <1>2 DEF InvTabla, LibreIntacta
<1>5. \A i \in Pos : cola[i].id = NULO
  BY DEF Init, ColaInicial
<1>6. InvPuentes
  BY <1>2, <1>3, <1>4 DEF InvPuentes, SinRoturas, Calladas, UnPuente, UnAnuncio, SinRuta,
     Anunciadas, ConPuente, PorAnunciar, Avisa, Vivas, Sincro
<1>7. InvLugares
  BY <1>1, <1>5, EntradaEnTabla DEF InvLugares, DesdeCero, LugaresDeCopia, Copiando, EnCurso
<1>. QED BY <1>6, <1>7 DEF InvRutas

LEMMA SpecBase == SinReinicio => (Spec => []InvBase)
<1>1. InvTipos /\ ColaContigua /\ InvSinc /\ InvFondo /\ InvLecturas => InvBase
  BY DEF InvBase, InvFondo
<1>. QED BY <1>1, SpecSinc, SpecLecturas, PTL

LEMMA SpecRutas == Regimen => (Spec => [](InvBase /\ InvRutas))
<1>. SUFFICES ASSUME Regimen PROVE Spec => [](InvBase /\ InvRutas)
  OBVIOUS
<1>1. Spec => []InvBase
  BY SpecBase DEF Regimen
<1>2. InvBase /\ InvRutas /\ [Next]_vars => InvRutas'
  BY RutasPaso
<1>. QED BY <1>1, <1>2, RutasInicial, PTL DEF Spec

\* disco.h:22.  While no disk falls, a synchronised disk has a bridge that lives,
\* whichever disks the operator adds and removes and however they come back.
THEOREM SincronizadoOpera == Regimen => (Spec => []SincronizadoPuedeOperar)
<1>1. InvRutas => SincronizadoPuedeOperar
  BY DEF InvRutas, InvPuentes, ConPuente, Anunciadas, SincronizadoPuedeOperar, EnEstado, Sincro
<1>. QED BY <1>1, SpecRutas, PTL

-----------------------------------------------------------------------------
(* What a sector will hold once the disk has done what is already sent to it:  *)
(* what its last write leaves, or what it holds if no write touches it.  Two   *)
(* disks are alike when their sectors will hold the same, however far each of  *)
(* them is with its own writes.                                                *)

Escribe(m, s) == m.t = "PUT" /\ (m.s1 = s \/ m.s2 = s)
Deja(m, s) == IF m.s2 = s THEN m.d2 ELSE m.d1

Ultima(q, k, s) == /\ k \in 1..Len(q) /\ Escribe(q[k], s)
                   /\ \A j \in 1..Len(q) : j > k => ~Escribe(q[j], s)
Intacto(q, s) == \A k \in 1..Len(q) : ~Escribe(q[k], s)

Quedan(q, l, s) == {Deja(q[k], s) : k \in {k \in 1..Len(q) : Ultima(q, k, s)}}
                   \union {x \in {l[s]} : Intacto(q, s)}

SinPuts(q) == \A k \in 1..Len(q) : q[k].t # "PUT"

\* The first message of q is w, and no other one is a write.
UnPut(q, w) == /\ 1 \in 1..Len(q) /\ q[1] = w
               /\ \A k \in 1..Len(q) : k # 1 => q[k].t # "PUT"

LEMMA QuedanSinPuts ==
    ASSUME NEW q, SinPuts(q), NEW l, NEW s
    PROVE  Quedan(q, l, s) = {l[s]}
  BY DEF SinPuts, Quedan, Ultima, Intacto, Escribe

LEMMA QuedanDice ==
    ASSUME NEW q, NEW l, NEW s, NEW x
    PROVE  x \in Quedan(q, l, s) <=>
              \/ \E k \in 1..Len(q) : Ultima(q, k, s) /\ x = Deja(q[k], s)
              \/ Intacto(q, s) /\ x = l[s]
  BY DEF Quedan

\* Where each message of a longer queue is.
LEMMA JuntaDice ==
    ASSUME NEW S, NEW q \in Seq(S), NEW f \in Seq(S)
    PROVE  /\ Len(q) \in Nat /\ Len(f) \in Nat /\ Len(q \o f) = Len(q) + Len(f)
           /\ \A k \in 1..Len(q) : k \in 1..Len(q \o f) /\ (q \o f)[k] = q[k]
           /\ \A k \in 1..Len(f) : /\ Len(q) + k \in 1..Len(q \o f)
                                   /\ (q \o f)[Len(q) + k] = f[k]
           /\ \A k \in 1..Len(q \o f) :
                 k \in 1..Len(q) \/ \E j \in 1..Len(f) : k = Len(q) + j
<1>1. Len(q) \in Nat /\ Len(f) \in Nat /\ Len(q \o f) = Len(q) + Len(f)
  OBVIOUS
<1>2. \A k \in 1..Len(q \o f) :
         k \in 1..Len(q) \/ (k - Len(q) \in 1..Len(f) /\ k = Len(q) + (k - Len(q)))
  BY <1>1
<1>3. \A k \in 1..Len(q) : k \in 1..Len(q \o f) /\ (q \o f)[k] = q[k]
  BY <1>1
<1>4. ASSUME NEW k \in 1..Len(f)
      PROVE  Len(q) + k \in 1..Len(q \o f) /\ (q \o f)[Len(q) + k] = f[k]
  BY <1>1
<1>. QED BY <1>1, <1>2, <1>3, <1>4

LEMMA QuedanIgual ==
    ASSUME NEW S, NEW q \in Seq(S), NEW f \in Seq(S), NEW l, NEW s, Intacto(f, s)
    PROVE  Quedan(q \o f, l, s) = Quedan(q, l, s)
<1>. DEFINE r == q \o f
            n == Len(q)
<1>1. /\ n \in Nat /\ Len(f) \in Nat /\ Len(r) = n + Len(f)
      /\ \A k \in 1..n : k \in 1..Len(r) /\ r[k] = q[k]
      /\ \A k \in 1..Len(f) : n + k \in 1..Len(r) /\ r[n + k] = f[k]
      /\ \A k \in 1..Len(r) : k \in 1..n \/ \E j \in 1..Len(f) : k = n + j
  BY JuntaDice
<1>. HIDE DEF r, n
<1>2. \A k \in 1..Len(r) : Escribe(r[k], s) => k \in 1..n
  BY <1>1 DEF Intacto
<1>3. \A k \in 1..n : Ultima(q, k, s) <=> Ultima(r, k, s)
  BY <1>1, <1>2 DEF Ultima, n
<1>4. Intacto(q, s) <=> Intacto(r, s)
  BY <1>1, <1>2 DEF Intacto, n
<1>5. \A k \in 1..Len(r) : Ultima(r, k, s) => k \in 1..n
  BY <1>2 DEF Ultima
<1>6. \A x : x \in Quedan(r, l, s) <=> x \in Quedan(q, l, s)
  <2>. SUFFICES ASSUME NEW x
                PROVE  x \in Quedan(r, l, s) <=> x \in Quedan(q, l, s)
    OBVIOUS
  <2>1. (\E k \in 1..Len(r) : Ultima(r, k, s) /\ x = Deja(r[k], s))
           <=> (\E k \in 1..Len(q) : Ultima(q, k, s) /\ x = Deja(q[k], s))
    BY <1>1, <1>3, <1>5 DEF n
  <2>2. x \in Quedan(r, l, s) <=>
           \/ \E k \in 1..Len(r) : Ultima(r, k, s) /\ x = Deja(r[k], s)
           \/ Intacto(r, s) /\ x = l[s]
    BY QuedanDice
  <2>3. x \in Quedan(q, l, s) <=>
           \/ \E k \in 1..Len(q) : Ultima(q, k, s) /\ x = Deja(q[k], s)
           \/ Intacto(q, s) /\ x = l[s]
    BY QuedanDice
  <2>. QED BY <1>4, <2>1, <2>2, <2>3
<1>. QED BY <1>6 DEF r

LEMMA QuedanEscrita ==
    ASSUME NEW q \in Seq(AlDisco), NEW f \in Seq(AlDisco), NEW l, NEW s, NEW w,
           UnPut(f, w), Escribe(w, s)
    PROVE  \A x : x \in Quedan(q \o f, l, s) <=> x = Deja(w, s)
<1>. DEFINE r == q \o f
            n == Len(q)
<1>1. /\ n \in Nat /\ Len(f) \in Nat /\ Len(r) = n + Len(f)
      /\ \A k \in 1..n : k \in 1..Len(r) /\ r[k] = q[k]
      /\ \A k \in 1..Len(f) : n + k \in 1..Len(r) /\ r[n + k] = f[k]
      /\ \A k \in 1..Len(r) : k \in 1..n \/ \E j \in 1..Len(f) : k = n + j
  BY JuntaDice
<1>. HIDE DEF r, n
<1>2. n + 1 \in 1..Len(r) /\ r[n + 1] = w
  BY <1>1 DEF UnPut
<1>3. \A k \in 1..Len(r) : k > n + 1 => ~Escribe(r[k], s)
  <2>. SUFFICES ASSUME NEW k \in 1..Len(r), k > n + 1
                PROVE  r[k].t # "PUT"
    BY DEF Escribe
  <2>1. PICK j \in 1..Len(f) : k = n + j
    BY <1>1
  <2>2. j # 1 /\ r[k] = f[j]
    BY <1>1, <2>1
  <2>. QED BY <2>2 DEF UnPut
<1>4. Ultima(r, n + 1, s)
  BY <1>2, <1>3 DEF Ultima
<1>5. \A k \in 1..Len(r) : Ultima(r, k, s) => k = n + 1
  <2>. SUFFICES ASSUME NEW k \in 1..Len(r), Ultima(r, k, s), k # n + 1
                PROVE  FALSE
    OBVIOUS
  <2>1. ~(k > n + 1)
    BY <1>3 DEF Ultima
  <2>2. n + 1 > k
    BY <1>1, <2>1
  <2>. QED BY <1>2, <2>2 DEF Ultima
<1>6. ~Intacto(r, s)
  BY <1>2 DEF Intacto
<1>7. \A x : x \in Quedan(r, l, s) <=> x = Deja(w, s)
  BY <1>2, <1>4, <1>5, <1>6, QuedanDice
<1>. QED BY <1>7 DEF r

\* A disk that does the first of its requests will hold what it would.
LEMMA QuedanGrabar ==
    ASSUME NEW q \in Seq(AlDisco), q # <<>>, NEW l \in [Sectores -> Buffers],
           NEW s \in Sectores
    PROVE  Quedan(Tail(q), Grabar(Head(q), l), s) = Quedan(q, l, s)
<1>. DEFINE r == Tail(q)
            m == Head(q)
            g == Grabar(m, l)
<1>1. /\ Len(r) = Len(q) - 1 /\ Len(q) \in Nat /\ Len(q) >= 1 /\ m = q[1]
      /\ \A k \in 1..Len(r) : r[k] = q[k + 1]
  OBVIOUS
<1>. DEFINE n == Len(r)
<1>2. /\ n \in Nat /\ Len(q) = n + 1 /\ m = q[1]
      /\ \A k \in 1..n : r[k] = q[k + 1]
  BY <1>1
<1>3. g[s] = IF Escribe(m, s) THEN Deja(m, s) ELSE l[s]
  BY DEF Grabar, Escribe, Deja
<1>. HIDE DEF r, m, g
<1>4. \A k \in 1..n : Ultima(r, k, s) <=> Ultima(q, k + 1, s)
  <2>. SUFFICES ASSUME NEW k \in 1..n
                PROVE  Ultima(r, k, s) <=> Ultima(q, k + 1, s)
    OBVIOUS
  <2>1. k + 1 \in 1..Len(q) /\ r[k] = q[k + 1] /\ k \in 1..Len(r)
    BY <1>2
  <2>2. ASSUME Ultima(r, k, s), NEW j \in 1..Len(q), j > k + 1
        PROVE  ~Escribe(q[j], s)
    <3>1. j - 1 \in 1..n /\ j - 1 > k /\ (j - 1) + 1 = j
      BY <1>2, <2>2
    <3>2. r[j - 1] = q[j]
      BY <1>2, <3>1
    <3>. QED BY <2>2, <3>1, <3>2 DEF Ultima
  <2>3. ASSUME Ultima(q, k + 1, s), NEW j \in 1..Len(r), j > k
        PROVE  ~Escribe(r[j], s)
    <3>1. j + 1 \in 1..Len(q) /\ j + 1 > k + 1 /\ r[j] = q[j + 1]
      BY <1>2, <2>3
    <3>. QED BY <2>3, <3>1 DEF Ultima
  <2>. QED BY <2>1, <2>2, <2>3 DEF Ultima
<1>5. Intacto(r, s) <=> \A k \in 1..Len(q) : k # 1 => ~Escribe(q[k], s)
  <2>1. ASSUME Intacto(r, s), NEW k \in 1..Len(q), k # 1
        PROVE  ~Escribe(q[k], s)
    <3>1. k - 1 \in 1..n /\ (k - 1) + 1 = k
      BY <1>2, <2>1
    <3>2. r[k - 1] = q[k]
      BY <1>2, <3>1
    <3>. QED BY <2>1, <3>1, <3>2 DEF Intacto
  <2>2. ASSUME \A k \in 1..Len(q) : k # 1 => ~Escribe(q[k], s), NEW k \in 1..Len(r)
        PROVE  ~Escribe(r[k], s)
    <3>1. k + 1 \in 1..Len(q) /\ k + 1 # 1 /\ r[k] = q[k + 1]
      BY <1>2
    <3>. QED BY <2>2, <3>1
  <2>. QED BY <2>1, <2>2 DEF Intacto
<1>6. 1 \in 1..Len(q) /\ (Ultima(q, 1, s) <=> Escribe(m, s) /\ Intacto(r, s))
  BY <1>2, <1>5 DEF Ultima
<1>7. Intacto(q, s) <=> ~Escribe(m, s) /\ Intacto(r, s)
  BY <1>2, <1>5 DEF Intacto
<1>8. \A x : x \in Quedan(r, g, s) <=> x \in Quedan(q, l, s)
  <2>. SUFFICES ASSUME NEW x
                PROVE  x \in Quedan(r, g, s) <=> x \in Quedan(q, l, s)
    OBVIOUS
  <2>1. (\E k \in 1..Len(r) : Ultima(r, k, s) /\ x = Deja(r[k], s))
           <=> (\E k \in 1..Len(q) : k # 1 /\ Ultima(q, k, s) /\ x = Deja(q[k], s))
    <3>1. ASSUME NEW k \in 1..Len(r), Ultima(r, k, s), x = Deja(r[k], s)
          PROVE  \E j \in 1..Len(q) : j # 1 /\ Ultima(q, j, s) /\ x = Deja(q[j], s)
      <4>1. k + 1 \in 1..Len(q) /\ k + 1 # 1 /\ Ultima(q, k + 1, s) /\ r[k] = q[k + 1]
        BY <1>2, <1>4, <3>1
      <4>. QED BY <3>1, <4>1
    <3>2. ASSUME NEW j \in 1..Len(q), j # 1, Ultima(q, j, s), x = Deja(q[j], s)
          PROVE  \E k \in 1..Len(r) : Ultima(r, k, s) /\ x = Deja(r[k], s)
      <4>1. j - 1 \in 1..n /\ (j - 1) + 1 = j
        BY <1>2, <3>2
      <4>2. Ultima(r, j - 1, s) /\ r[j - 1] = q[j]
        BY <1>2, <1>4, <3>2, <4>1
      <4>. QED BY <3>2, <4>1, <4>2
    <3>. QED BY <3>1, <3>2
  <2>2. x \in Quedan(q, l, s) <=>
           \/ \E k \in 1..Len(q) : k # 1 /\ Ultima(q, k, s) /\ x = Deja(q[k], s)
           \/ Escribe(m, s) /\ Intacto(r, s) /\ x = Deja(m, s)
           \/ ~Escribe(m, s) /\ Intacto(r, s) /\ x = l[s]
    BY <1>2, <1>6, <1>7, QuedanDice
  <2>3. x \in Quedan(r, g, s) <=>
           \/ \E k \in 1..Len(r) : Ultima(r, k, s) /\ x = Deja(r[k], s)
           \/ Intacto(r, s) /\ x = g[s]
    BY QuedanDice
  <2>. QED BY <1>3, <2>1, <2>2, <2>3
<1>. QED BY <1>8 DEF r, m, g

-----------------------------------------------------------------------------
(* The copy and the mirror.  A disk being copied will hold, in the sectors that *)
(* were copied, what the one it is copied from will; and so will any two disks  *)
(* that are synchronised.                                                       *)

\* The VSK writes with a disk to write to and none being synchronised.
EscribeEnReposo == "escribir siempre" \notin Libertades

Quedara(c, s) == Quedan(aDisco[c], datos[hilo[c].disco], s)

\* The same after a step.
Quedaran(c, s) == Quedan(aDisco'[c], datos'[hilo'[c].disco], s)

Copiados == Copiando => \A s \in Sectores :
    s < cola[0].act - 1 => Quedara(Dest.hilo, s) = Quedara(Orig.hilo, s)

\* The pair is asked to the disk that is copied, with no write behind it.
Pedida == \A c \in Conexiones, k \in Nat : SincEn(c, "ida", k) =>
    /\ c = Orig.hilo
    /\ \A j \in 1..Len(aDisco[c]) : j > k => aDisco[c][j].t # "PUT"

\* What it answered is what it still will hold.
Traida == \A c \in Conexiones, k \in Nat : SincEn(c, "vuelta", k) =>
    /\ cola[0].act \in Sectores
    /\ Quedara(Orig.hilo, cola[0].act - 1) = {deDisco[c][k].d1}
    /\ Quedara(Orig.hilo, cola[0].act) = {deDisco[c][k].d2}

Iguales(c, x) == \A s \in Sectores : Quedara(c, s) = Quedara(x, s)

Parejos == \A i, j \in EnEstado(sDiscos, "SINCRONIZADO") :
    Iguales(sDiscos[i].hilo, sDiscos[j].hilo)

InvCopia == Copiados /\ Pedida /\ Traida /\ Parejos

\* A message of the synchronisation that travels is of a copy that goes on.
LEMMA SincCopiando ==
    ASSUME InvTipos, InvSinc, NEW c \in Conexiones, NEW v \in Sentidos, NEW k \in Nat,
           SincEn(c, v, k)
    PROVE  Copiando /\ Canal(c, v)[k].id = cola[0].id
<1>1. EnCurso
  BY SinCursoSinSinc DEF SinSinc, InvSinc
<1>. QED BY <1>1 DEF InvSinc, DeLaEntrada, EsDeLaEntrada, Copiando

\* The requests of synchronisation and the writes keep their order.
EnOrden(s, t) == \E j \in Nat : Conserva(s, t, j, "consola") /\ Conserva(s, t, j, "put")

LEMMA OrdenMismo ==
    ASSUME NEW S, NEW s \in Seq(S)
    PROVE  EnOrden(s, s) /\ EnOrden(s, <<>>)
<1>1. \A p : Conserva(s, s, 0, p) /\ Conserva(s, <<>>, 0, p)
  BY DEF Conserva
<1>. QED BY <1>1 DEF EnOrden

LEMMA OrdenResto ==
    ASSUME NEW S, NEW s \in Seq(S), s # <<>>
    PROVE  EnOrden(s, Tail(s))
<1>1. Len(s) \in Nat /\ Len(Tail(s)) = Len(s) - 1 /\ \A k \in 1..Len(Tail(s)) : Tail(s)[k] = s[k + 1]
  OBVIOUS
<1>2. \A p : Conserva(s, Tail(s), 1, p)
  BY <1>1 DEF Conserva
<1>. QED BY <1>2 DEF EnOrden

LEMMA OrdenCorte ==
    ASSUME NEW S, NEW s \in Seq(S), NEW n \in 0..Len(s)
    PROVE  EnOrden(s, SubSeq(s, 1, n))
<1>1. /\ Len(s) \in Nat /\ Len(SubSeq(s, 1, n)) = n
      /\ \A k \in 1..n : SubSeq(s, 1, n)[k] = s[k]
  OBVIOUS
<1>2. \A p : Conserva(s, SubSeq(s, 1, n), 0, p)
  BY <1>1 DEF Conserva
<1>. QED BY <1>2 DEF EnOrden

LEMMA OrdenMas ==
    ASSUME NEW S, NEW s \in Seq(S), NEW f \in Seq(S),
           \A k \in 1..Len(f) : ~De(f[k], "consola") /\ ~De(f[k], "put")
    PROVE  EnOrden(s, s \o f)
<1>. DEFINE r == s \o f
            n == Len(s)
<1>1. /\ n \in Nat /\ Len(f) \in Nat /\ Len(r) = n + Len(f)
      /\ \A k \in 1..n : k \in 1..Len(r) /\ r[k] = s[k]
      /\ \A k \in 1..Len(f) : n + k \in 1..Len(r) /\ r[n + k] = f[k]
      /\ \A k \in 1..Len(r) : k \in 1..n \/ \E j \in 1..Len(f) : k = n + j
  BY JuntaDice
<1>. HIDE DEF r
<1>2. ASSUME NEW p, p \in {"consola", "put"}
      PROVE  Conserva(s, r, 0, p)
  <2>. SUFFICES ASSUME NEW k \in 1..Len(r), De(r[k], p)
                PROVE  k + 0 \in 1..Len(s) /\ s[k + 0] = r[k]
    BY DEF Conserva
  <2>1. k \in 1..n
    BY <1>1, <1>2
  <2>2. k + 0 = k
    BY <2>1
  <2>. QED BY <1>1, <2>1, <2>2
<1>3. Conserva(s, r, 0, "consola") /\ Conserva(s, r, 0, "put")
  BY <1>2
<1>. QED BY <1>3 DEF EnOrden, r

\* What a step that writes nothing and copies nothing does.
RutasFijas == \A i \in Pos :
    /\ sDiscos'[i].estado \in Sincro => sDiscos'[i].hilo = sDiscos[i].hilo
    /\ sDiscos'[i].estado = "SINCRONIZADO" => sDiscos[i].estado = "SINCRONIZADO"

QuedaIgual == \A c \in Conexiones :
    hilo[c].fase = "activa" /\ hilo'[c].fase = "activa"
        => \A s \in Sectores : Quedaran(c, s) = Quedara(c, s)

SincEnOrden == \A c \in Conexiones :
    EnOrden(aDisco[c], aDisco'[c]) /\ Viene(deDisco[c], deDisco'[c], "consola")

EntradaIgual == cola'[0].id # NULO =>
    /\ cola[0].id # NULO /\ cola'[0].act = cola[0].act
    /\ cola'[0].orig = cola[0].orig /\ cola'[0].dest = cola[0].dest

PasoQuieto == RutasFijas /\ QuedaIgual /\ SincEnOrden /\ EntradaIgual

LEMMA LadosQuedan ==
    ASSUME InvTipos, InvRutas, InvRutas', Parejos, RutasFijas, QuedaIgual
    PROVE  /\ Parejos'
           /\ \A i \in Pos : sDiscos'[i].estado \in Sincro /\ sDiscos[i].estado \in Sincro =>
                 /\ sDiscos'[i].hilo = sDiscos[i].hilo
                 /\ \A s \in Sectores : Quedaran(sDiscos'[i].hilo, s) = Quedara(sDiscos[i].hilo, s)
<1>1. ASSUME NEW i \in Pos, sDiscos'[i].estado \in Sincro, sDiscos[i].estado \in Sincro
      PROVE  /\ sDiscos'[i].hilo = sDiscos[i].hilo
             /\ \A s \in Sectores : Quedaran(sDiscos'[i].hilo, s) = Quedara(sDiscos[i].hilo, s)
  <2>1. PICK c : c = sDiscos[i].hilo
    OBVIOUS
  <2>2. c \in Conexiones /\ c = sDiscos'[i].hilo
    BY <1>1, <2>1 DEF RutasFijas, InvRutas, InvPuentes, ConPuente
  <2>3. hilo[c].fase = "activa" /\ hilo'[c].fase = "activa"
    BY <2>1, <2>2 DEF InvRutas, InvPuentes, Anunciadas
  <2>. QED BY <2>1, <2>2, <2>3 DEF QuedaIgual
<1>2. Parejos'
  <2>. SUFFICES ASSUME NEW i \in Pos, NEW j \in Pos, NEW s \in Sectores,
                       sDiscos'[i].estado = "SINCRONIZADO", sDiscos'[j].estado = "SINCRONIZADO"
                PROVE  Quedaran(sDiscos'[i].hilo, s) = Quedaran(sDiscos'[j].hilo, s)
    BY DEF Parejos, Iguales, EnEstado, Quedara, Quedaran
  <2>1. sDiscos[i].estado = "SINCRONIZADO" /\ sDiscos[j].estado = "SINCRONIZADO"
    BY DEF RutasFijas
  <2>2. Quedara(sDiscos[i].hilo, s) = Quedara(sDiscos[j].hilo, s)
    BY <2>1 DEF Parejos, Iguales, EnEstado
  <2>. QED BY <1>1, <2>1, <2>2 DEF Sincro
<1>. QED BY <1>1, <1>2

LEMMA CopiaQueda ==
    ASSUME InvTipos, InvRutas, InvRutas', InvCopia, RutasFijas, QuedaIgual, EntradaIgual
    PROVE  /\ Copiados'
           /\ Copiando' => /\ Copiando /\ cola'[0].act = cola[0].act /\ Orig'.hilo = Orig.hilo
                           /\ \A s \in Sectores : Quedaran(Orig'.hilo, s) = Quedara(Orig.hilo, s)
<1>0. cola[0].orig \in Pos /\ cola[0].dest \in Pos
  BY EntradaEnTabla
<1>1. Copiando' => /\ Copiando /\ cola'[0].act = cola[0].act
                   /\ cola'[0].orig = cola[0].orig /\ cola'[0].dest = cola[0].dest
  BY DEF Copiando, EnCurso, EntradaIgual
<1>2. ASSUME Copiando'
      PROVE  /\ Orig'.hilo = Orig.hilo
             /\ \A s \in Sectores : /\ Quedaran(Orig'.hilo, s) = Quedara(Orig.hilo, s)
                                     /\ Quedaran(Dest'.hilo, s) = Quedara(Dest.hilo, s)
  <2>1. Orig.estado \in Sincro /\ Dest.estado \in Sincro
    BY <1>1, <1>2, CopiaConPuente DEF Sincro
  <2>2. Orig'.estado \in Sincro /\ Dest'.estado \in Sincro
    BY <1>2 DEF InvRutas, InvLugares, LugaresDeCopia, Sincro
  <2>3. Orig' = sDiscos'[cola[0].orig] /\ Dest' = sDiscos'[cola[0].dest]
    BY <1>1, <1>2 DEF Orig, Dest
  <2>. QED BY <1>0, <2>1, <2>2, <2>3, LadosQuedan DEF InvCopia, Orig, Dest
<1>3. Copiados'
  BY <1>1, <1>2 DEF InvCopia, Copiados, Quedara, Quedaran
<1>. QED BY <1>1, <1>2, <1>3

LEMMA CopiaQuieta ==
    ASSUME InvTipos, InvSinc, InvRutas, InvCopia, InvTipos', InvSinc', InvRutas',
           RutasFijas, QuedaIgual, SincEnOrden, EntradaIgual
    PROVE  InvCopia'
<1>0. cola[0].act \in Int /\ "ida" \in Sentidos /\ "vuelta" \in Sentidos
  BY EntradaEnTabla DEF Sentidos
<1>1. Copiados' /\ Parejos'
  BY CopiaQueda, LadosQuedan DEF InvCopia
<1>2. ASSUME NEW c \in Conexiones, NEW v \in Sentidos, NEW k \in Nat, SincEn(c, v, k)',
             NEW j \in Nat, SincEn(c, v, k + j), Canal(c, v)[k + j] = Canal(c, v)'[k]
      PROVE  /\ cola'[0].act = cola[0].act /\ Orig'.hilo = Orig.hilo
             /\ \A s \in Sectores : Quedaran(Orig'.hilo, s) = Quedara(Orig.hilo, s)
  <2>1. Copiando /\ Canal(c, v)[k + j].id = cola[0].id
    BY <1>2, SincCopiando
  <2>2. EsDeLaEntrada(Canal(c, v)'[k], v, cola'[0])
    BY <1>2 DEF InvSinc, DeLaEntrada
  <2>3. Copiando'
    BY <1>2, <2>1, <2>2 DEF EsDeLaEntrada, Copiando, EnCurso
  <2>. QED BY <2>3, CopiaQueda
<1>3. Pedida'
  <2>. SUFFICES ASSUME NEW c \in Conexiones, NEW k \in Nat, SincEn(c, "ida", k)'
                PROVE  /\ c = Orig'.hilo
                       /\ \A j \in 1..Len(aDisco'[c]) : j > k => aDisco'[c][j].t # "PUT"
    BY DEF Pedida
  <2>1. PICK n \in Nat : /\ Conserva(aDisco[c], aDisco'[c], n, "consola")
                         /\ Conserva(aDisco[c], aDisco'[c], n, "put")
    BY DEF SincEnOrden, EnOrden
  <2>2. k + n \in Nat /\ SincEn(c, "ida", k + n) /\ Canal(c, "ida")[k + n] = Canal(c, "ida")'[k]
    BY <2>1 DEF SincEn, Trae, Canal, Conserva
  <2>3. /\ c = Orig.hilo
        /\ \A j \in 1..Len(aDisco[c]) : j > k + n => aDisco[c][j].t # "PUT"
    BY <2>2 DEF InvCopia, Pedida
  <2>4. Orig'.hilo = Orig.hilo
    BY <1>0, <1>2, <2>2
  <2>5. ASSUME NEW j \in 1..Len(aDisco'[c]), j > k, aDisco'[c][j].t = "PUT"
        PROVE  FALSE
    <3>1. j + n \in 1..Len(aDisco[c]) /\ aDisco[c][j + n] = aDisco'[c][j]
      BY <2>1, <2>5 DEF Conserva, De
    <3>2. j + n > k + n
      BY <2>5
    <3>. QED BY <2>3, <2>5, <3>1, <3>2
  <2>. QED BY <2>3, <2>4, <2>5
<1>4. Traida'
  <2>. SUFFICES ASSUME NEW c \in Conexiones, NEW k \in Nat, SincEn(c, "vuelta", k)'
                PROVE  /\ cola'[0].act \in Sectores
                       /\ Quedaran(Orig'.hilo, cola'[0].act - 1) = {deDisco'[c][k].d1}
                       /\ Quedaran(Orig'.hilo, cola'[0].act) = {deDisco'[c][k].d2}
    BY DEF Traida, Quedara, Quedaran
  <2>1. PICK n \in Nat : Conserva(deDisco[c], deDisco'[c], n, "consola")
    BY DEF SincEnOrden, Viene
  <2>2. /\ k + n \in Nat /\ SincEn(c, "vuelta", k + n)
        /\ Canal(c, "vuelta")[k + n] = Canal(c, "vuelta")'[k]
        /\ deDisco[c][k + n] = deDisco'[c][k]
    BY <2>1 DEF SincEn, Trae, Canal, Conserva
  <2>3. /\ cola[0].act \in Sectores
        /\ Quedara(Orig.hilo, cola[0].act - 1) = {deDisco'[c][k].d1}
        /\ Quedara(Orig.hilo, cola[0].act) = {deDisco'[c][k].d2}
    BY <2>2 DEF InvCopia, Traida
  <2>4. cola[0].act - 1 \in Sectores
    <3>1. cola[0].act >= 1
      BY <1>0, <2>2 DEF InvSinc, DeLaEntrada, EsDeLaEntrada
    <3>. QED BY <2>3, <3>1, TotalAssumption DEF Sectores
  <2>. QED BY <1>0, <1>2, <2>2, <2>3, <2>4
<1>. QED BY <1>1, <1>3, <1>4 DEF InvCopia

LEMMA EnviarQueda ==
    ASSUME InvTipos, NEW f \in [Conexiones -> Seq(AlDisco)], NEW p, Enviar(f, p),
           \A c \in Conexiones : \A k \in 1..Len(f[c]) :
               ~De(f[c][k], "consola") /\ f[c][k].t # "PUT"
    PROVE  /\ UNCHANGED <<hilo, datos>> => QuedaIgual
           /\ \A c \in Conexiones : EnOrden(aDisco[c], aDisco'[c])
<1>1. ASSUME NEW c \in Conexiones
      PROVE  /\ aDisco[c] \in Seq(AlDisco) /\ f[c] \in Seq(AlDisco)
             /\ aDisco'[c] = aDisco[c] \/ aDisco'[c] = aDisco[c] \o f[c]
  BY DEF Enviar, InvTipos, TypeOK, TipoHilos
<1>2. \A c \in Conexiones : EnOrden(aDisco[c], aDisco'[c])
  <2>1. \A c \in Conexiones : \A k \in 1..Len(f[c]) :
            ~De(f[c][k], "consola") /\ ~De(f[c][k], "put")
    BY DEF De
  <2>. QED BY <1>1, <2>1, OrdenMismo, OrdenMas
<1>3. ASSUME UNCHANGED <<hilo, datos>>, NEW c \in Conexiones, NEW s \in Sectores
      PROVE  Quedaran(c, s) = Quedara(c, s)
  <2>1. Intacto(f[c], s)
    BY DEF Intacto, Escribe
  <2>2. \A l : Quedan(aDisco[c] \o f[c], l, s) = Quedan(aDisco[c], l, s)
    BY <1>1, <2>1, QuedanIgual
  <2>. QED BY <1>1, <1>3, <2>2 DEF Quedaran, Quedara
<1>. QED BY <1>2, <1>3 DEF QuedaIgual

LEMMA QuietoQueda ==
    ASSUME InvTipos, UNCHANGED aDisco
    PROVE  /\ UNCHANGED <<hilo, datos>> => QuedaIgual
           /\ \A c \in Conexiones : EnOrden(aDisco[c], aDisco'[c])
<1>1. \A c \in Conexiones : EnOrden(aDisco[c], aDisco'[c])
  BY OrdenMismo DEF InvTipos, TypeOK, TipoHilos
<1>. QED BY <1>1 DEF QuedaIgual, Quedara, Quedaran

LEMMA LeidoQueda ==
    ASSUME InvTipos, UNCHANGED deDisco \/ \E c \in Conexiones : deDisco[c] # <<>> /\ Recibir(c)
    PROVE  \A c \in Conexiones : Viene(deDisco[c], deDisco'[c], "consola")
  BY LeidoViene DEF InvTipos, TypeOK, TipoHilos

\* A read writes nothing.
LEMMA VskGetEnvia ==
    ASSUME InvTipos, NEW par \in Pares, VskGet(par)
    PROVE  \/ UNCHANGED aDisco
           \/ \E f \in [Conexiones -> Seq(AlDisco)] :
                 /\ \E p : Enviar(f, p)
                 /\ \A c \in Conexiones : \A k \in 1..Len(f[c]) :
                       ~De(f[c][k], "consola") /\ f[c][k].t # "PUT"
<1>1. ASSUME NEW t1 \in Pos, NEW t2 \in Pos, Repartir(par, t1, t2)
      PROVE  \E f \in [Conexiones -> Seq(AlDisco)] :
                 /\ \E p : Enviar(f, p)
                 /\ \A c \in Conexiones : \A k \in 1..Len(f[c]) :
                       ~De(f[c][k], "consola") /\ f[c][k].t # "PUT"
  <2>1. PICK f \in [Conexiones -> Seq(AlDisco)] :
              /\ \E sigue : Enviar(f, sigue)
              /\ MandaLectura(f, <<"get", Len(lecturas) + 1>>, par, t1, t2)
    BY <1>1, RepartirEnvia
  <2>2. PICK id : id = <<"get", Len(lecturas) + 1>>
    OBVIOUS
  <2>3. id[1] = "get"
    BY <2>2
  <2>4. \A s, z : /\ ~De(Get2(id, s, z), "consola") /\ Get2(id, s, z).t # "PUT"
                  /\ ~De(Get1(id, s), "consola") /\ Get1(id, s).t # "PUT"
    BY <2>3 DEF De, Get1, Get2
  <2>5. MandaLectura(f, id, par, t1, t2)
    BY <2>1, <2>2
  <2>6. \A c \in Conexiones : \A k \in 1..Len(f[c]) :
            ~De(f[c][k], "consola") /\ f[c][k].t # "PUT"
    <3>. SUFFICES ASSUME NEW c \in Conexiones, NEW k \in 1..Len(f[c])
                  PROVE  ~De(f[c][k], "consola") /\ f[c][k].t # "PUT"
      OBVIOUS
    <3>1. \/ f[c][k] = Get2(id, par[1], par[2]) \/ f[c][k] = Get1(id, par[1])
          \/ f[c][k] = Get1(id, par[2])
      BY <2>5 DEF MandaLectura
    <3>. QED BY <2>4, <3>1
  <2>. QED BY <2>1, <2>6
<1>. QED BY <1>1, VskGetEs

\* Of the steps that touch neither the table nor the queue, one writes.
LEMMA SerenoQuieto ==
    ASSUME InvBase, InvRutas, Alcanza, Sereno,
           \A par \in Pares : ~VskPut(par)
    PROVE  PasoQuieto
<1>0. InvTipos /\ InvFondo /\ InvLecturas
  BY DEF InvBase
<1>1. /\ UNCHANGED <<sDiscos, cola, hilo, datos>>
      /\ UNCHANGED deDisco \/ \E c \in Conexiones : deDisco[c] # <<>> /\ Recibir(c)
  BY <1>0, SerenoEs
<1>2. \/ UNCHANGED aDisco
      \/ \E f \in [Conexiones -> Seq(AlDisco)] :
            /\ \E p : Enviar(f, p)
            /\ \A c \in Conexiones : \A k \in 1..Len(f[c]) :
                  ~De(f[c][k], "consola") /\ f[c][k].t # "PUT"
  <2>. USE DEF tabla, canales
  <2>1. CASE \E par \in Pares : VskGet(par)
    BY <1>0, <2>1, VskGetEnvia
  <2>2. CASE \E c \in Conexiones : RespuestaDos(c) \/ RespuestaUno(c) \/ RespuestaPut(c)
    BY <2>2 DEF RespuestaDos, RespuestaUno, RespuestaPut
  <2>3. CASE ConsolaIniciar \/ ConsolaDetener \/ ConsolaEstado \/ ConsolaSalir
    BY <2>3 DEF ConsolaIniciar, ConsolaDetener, ConsolaEstado, ConsolaSalir
  <2>4. CASE \/ VskDesconecta \/ SaleDelCiclo
             \/ UNCHANGED <<sDiscos, cola, hilo, aDisco, deDisco, datos>>
    BY <2>4 DEF VskDesconecta, SaleDelCiclo
  <2>. QED BY <2>1, <2>2, <2>3, <2>4 DEF Sereno
<1>3. QuedaIgual /\ \A c \in Conexiones : EnOrden(aDisco[c], aDisco'[c])
  BY <1>0, <1>1, <1>2, EnviarQueda, QuietoQueda
<1>4. SincEnOrden
  BY <1>0, <1>1, <1>3, LeidoQueda DEF SincEnOrden
<1>5. RutasFijas /\ EntradaIgual
  BY <1>1 DEF RutasFijas, EntradaIgual
<1>. QED BY <1>0, <1>3, <1>4, <1>5 DEF PasoQuieto

LEMMA AsociarQuieto ==
    ASSUME InvBase, InvRutas,
           NEW c \in Conexiones, AsociarHilo(c)
    PROVE  PasoQuieto
<1>0. /\ InvTipos
      /\ sDiscos \in [Pos -> Lugar] /\ deDisco[c] # <<>> /\ Recibir(c)
      /\ UNCHANGED <<cola, hilo, aDisco, datos>>
  BY DEF InvBase, InvTipos, TypeOK, TipoTablas, AsociarHilo, Llega
<1>1. RutasFijas
  <2>1. CASE UNCHANGED sDiscos
    BY <2>1 DEF RutasFijas
  <2>2. ASSUME NEW i \in Pos, sDiscos' = AsociarSocketHilo(sDiscos, c, i)
        PROVE  RutasFijas
    <3>1. sDiscos'[i].estado = "CONECTADO" /\ \A j \in Pos : j # i => sDiscos'[j] = sDiscos[j]
      BY <1>0, <2>2 DEF AsociarSocketHilo, Lugar
    <3>. QED BY <3>1 DEF RutasFijas, Sincro
  <2>. QED BY <2>1, <2>2 DEF AsociarHilo
<1>2. QuedaIgual /\ SincEnOrden
  BY <1>0, QuietoQueda, LeidoQueda DEF SincEnOrden
<1>3. EntradaIgual
  BY <1>0 DEF EntradaIgual
<1>. QED BY <1>0, <1>1, <1>2, <1>3 DEF PasoQuieto

LEMMA IniciaQuieto ==
    ASSUME InvBase, InvRutas,
           NEW c \in Conexiones, HiloInicia(c)
    PROVE  PasoQuieto
<1>0. /\ InvTipos
      /\ UNCHANGED <<sDiscos, cola, aDisco, datos>>
      /\ hilo \in [Conexiones -> Hilos]
  BY DEF InvBase, InvTipos, TypeOK, TipoHilos, HiloInicia, tabla
<1>1. \A x \in Conexiones : hilo'[x].disco = hilo[x].disco
  BY <1>0 DEF HiloInicia, Hilos
<1>2. QuedaIgual
  BY <1>0, <1>1 DEF QuedaIgual, Quedara, Quedaran
<1>3. SincEnOrden
  <2>1. CanalesConservan("consola")
    BY <1>0, CalladoConserva DEF Callado
  <2>. QED BY <1>0, <2>1, QuietoQueda DEF SincEnOrden, CanalesConservan
<1>4. RutasFijas /\ EntradaIgual
  BY <1>0 DEF RutasFijas, EntradaIgual
<1>. QED BY <1>0, <1>2, <1>3, <1>4 DEF PasoQuieto

LEMMA HandshakeQuieto ==
    ASSUME InvBase, InvRutas,
           NEW d \in Discos, HandshakeDisco(d)
    PROVE  PasoQuieto
<1>0. /\ InvTipos
      /\ UNCHANGED <<cola, deDisco, datos>> /\ ~Conectado(d)
      /\ sDiscos \in [Pos -> Lugar] /\ hilo \in [Conexiones -> Hilos]
      /\ aDisco \in [Conexiones -> Seq(AlDisco)]
  <2>1. UNCHANGED <<cola, deDisco, datos>> /\ ~Conectado(d)
    BY DEF HandshakeDisco
  <2>. QED BY <2>1 DEF InvBase, InvTipos, TypeOK, TipoTablas, TipoHilos
<1>1. CASE HandshakeRechazado(d)
  <2>1. UNCHANGED <<sDiscos, hilo, aDisco>>
    BY <1>1 DEF HandshakeRechazado
  <2>2. QuedaIgual /\ SincEnOrden
    BY <1>0, <2>1, QuietoQueda, LeidoQueda DEF SincEnOrden
  <2>3. RutasFijas /\ EntradaIgual
    BY <1>0, <2>1 DEF RutasFijas, EntradaIgual
  <2>. QED BY <1>0, <2>2, <2>3 DEF PasoQuieto
<1>2. ASSUME NEW c \in Conexiones, NEW i \in Pos,
             hilo[c].fase = "libre", HandshakeAceptado(d, c, i)
      PROVE  PasoQuieto
  <2>1. /\ sDiscos'[i].estado = "CONECTADO"
        /\ \A j \in Pos : j # i => sDiscos'[j] = sDiscos[j]
    BY <1>0, <1>2 DEF HandshakeAceptado, AsignarDisco, Lugar
  <2>2. \A x \in Conexiones : x # c => hilo'[x] = hilo[x]
    BY <1>0, <1>2 DEF HandshakeAceptado
  <2>3. \A x \in Conexiones : aDisco'[x] = IF hilo[x].disco = d THEN <<>> ELSE aDisco[x]
    BY <1>2 DEF HandshakeAceptado
  <2>4. QuedaIgual
    <3>. SUFFICES ASSUME NEW x \in Conexiones, hilo[x].fase = "activa", NEW s \in Sectores
                  PROVE  Quedaran(x, s) = Quedara(x, s)
      BY DEF QuedaIgual
    <3>1. x # c /\ hilo[x].disco # d
      BY <1>0, <1>2 DEF Conectado
    <3>. QED BY <1>0, <2>2, <2>3, <3>1 DEF Quedara, Quedaran
  <2>5. SincEnOrden
    <3>1. \A x \in Conexiones : EnOrden(aDisco[x], aDisco'[x])
      BY <1>0, <2>3, OrdenMismo
    <3>. QED BY <1>0, <3>1, LeidoQueda DEF SincEnOrden
  <2>6. RutasFijas /\ EntradaIgual
    BY <1>0, <2>1 DEF RutasFijas, EntradaIgual, Sincro
  <2>. QED BY <1>0, <2>4, <2>5, <2>6 DEF PasoQuieto
<1>. QED BY <1>1, <1>2 DEF HandshakeDisco

LEMMA QuitaQuieto ==
    ASSUME InvBase, InvRutas, NEW i \in Pos, Quita(i)
    PROVE  PasoQuieto
<1>0. /\ InvTipos /\ UNCHANGED <<cola, datos>>
      /\ sDiscos \in [Pos -> Lugar] /\ hilo \in [Conexiones -> Hilos]
      /\ aDisco \in [Conexiones -> Seq(AlDisco)] /\ deDisco \in [Conexiones -> Seq(DelDisco)]
  BY DEF InvBase, InvTipos, TypeOK, TipoTablas, TipoHilos, Quita
<1>1. RutasFijas /\ EntradaIgual
  <2>1. sDiscos'[i].estado = "NO_CONECTADO" /\ \A j \in Pos : j # i => sDiscos'[j] = sDiscos[j]
    BY <1>0 DEF Quita, DesconectarLugar, LugarVacio
  <2>. QED BY <1>0, <2>1 DEF RutasFijas, EntradaIgual, Sincro
<1>2. CASE UNCHANGED <<hilo, aDisco, deDisco>>
  <2>1. QuedaIgual /\ SincEnOrden
    BY <1>0, <1>2, QuietoQueda, LeidoQueda DEF SincEnOrden
  <2>. QED BY <1>0, <1>1, <2>1 DEF PasoQuieto
<1>3. ASSUME NEW c \in Conexiones, EliminaPuente(c)
      PROVE  PasoQuieto
  <2>1. /\ hilo'[c].fase = "cerrada" /\ deDisco'[c] = <<>>
        /\ \A x \in Conexiones : x # c => hilo'[x] = hilo[x] /\ deDisco'[x] = deDisco[x]
                                          /\ aDisco'[x] = aDisco[x]
    BY <1>0, <1>3 DEF EliminaPuente, Hilos
  <2>2. QuedaIgual
    <3>. SUFFICES ASSUME NEW x \in Conexiones, hilo'[x].fase = "activa", NEW s \in Sectores
                  PROVE  Quedaran(x, s) = Quedara(x, s)
      BY DEF QuedaIgual
    <3>1. x # c
      BY <2>1
    <3>. QED BY <1>0, <2>1, <3>1 DEF Quedara, Quedaran
  <2>3. EnOrden(aDisco[c], aDisco'[c])
    <3>1. PICK k \in 0..Len(aDisco[c]) : aDisco' = [aDisco EXCEPT ![c] = SubSeq(@, 1, k)]
      BY <1>3 DEF EliminaPuente
    <3>. QED BY <1>0, <3>1, OrdenCorte
  <2>4. SincEnOrden
    BY <1>0, <2>1, <2>3, OrdenMismo, VieneMismo DEF SincEnOrden
  <2>. QED BY <1>0, <1>1, <2>2, <2>4 DEF PasoQuieto
<1>. QED BY <1>2, <1>3 DEF Quita

LEMMA CierreQuieto ==
    ASSUME InvBase, InvRutas, Cierre
    PROVE  PasoQuieto
<1>0. InvTipos /\ ColaContigua /\ InvSinc
  BY DEF InvBase
<1>1. /\ UNCHANGED <<sDiscos, aDisco, deDisco, hilo, datos>>
      /\ cola' = cola \/ (~EnCurso /\ cola' = Correr(cola))
  BY <1>0, CierreEs
<1>2. QuedaIgual /\ SincEnOrden
  BY <1>0, <1>1, QuietoQueda, LeidoQueda DEF SincEnOrden
<1>3. RutasFijas
  BY <1>1 DEF RutasFijas
<1>4. EntradaIgual
  <2>1. ~EnCurso => \A k \in Pos : Correr(cola)[k].id = NULO
    BY <1>0, CorrerVacia, EntradaEnTabla
  <2>. QED BY <1>0, <1>1, <2>1, EntradaEnTabla DEF EntradaIgual
<1>. QED BY <1>0, <1>2, <1>3, <1>4 DEF PasoQuieto

-----------------------------------------------------------------------------
(* The steps that write or copy.                                              *)

\* Nothing of the synchronisation travels.
SoloCopiando == \A c \in Conexiones, v \in Sentidos, k \in Nat : SincEn(c, v, k) => Copiando

LEMMA SincSiCopia == InvTipos /\ InvSinc => SoloCopiando
  BY SincCopiando DEF SoloCopiando

LEMMA SinCopiaBasta ==
    ASSUME InvTipos', InvSinc', ~Copiando'
    PROVE  Copiados' /\ Pedida' /\ Traida'
<1>1. SoloCopiando'
  <2>1. InvTipos' /\ InvSinc' => SoloCopiando'
    BY SincSiCopia, PTL
  <2>. QED BY <2>1
<1>2. "ida" \in Sentidos /\ "vuelta" \in Sentidos
  BY DEF Sentidos
<1>3. \A c \in Conexiones, k \in Nat : ~SincEn(c, "ida", k)' /\ ~SincEn(c, "vuelta", k)'
  BY <1>1, <1>2 DEF SoloCopiando
<1>4. Pedida' /\ Traida'
  BY <1>3 DEF Pedida, Traida
<1>. QED BY <1>4 DEF Copiados

\* What a send leaves to be written on a socket that is served.
LEMMA EnviarLlega ==
    ASSUME InvTipos, NEW f \in [Conexiones -> Seq(AlDisco)], NEW p, Enviar(f, p),
           UNCHANGED <<hilo, datos>>, NEW c \in Conexiones, hilo[c].fase = "activa",
           NEW s \in Sectores
    PROVE  /\ Intacto(f[c], s) => Quedaran(c, s) = Quedara(c, s)
           /\ \A w : UnPut(f[c], w) /\ w.t = "PUT" =>
                 Quedaran(c, s) = IF Escribe(w, s) THEN {Deja(w, s)} ELSE Quedara(c, s)
<1>1. aDisco[c] \in Seq(AlDisco) /\ f[c] \in Seq(AlDisco) /\ aDisco'[c] = aDisco[c] \o f[c]
  BY DEF Enviar, InvTipos, TypeOK, TipoHilos
<1>2. PICK l : l = datos[hilo[c].disco]
  OBVIOUS
<1>3. /\ Quedaran(c, s) = Quedan(aDisco[c] \o f[c], l, s)
      /\ Quedara(c, s) = Quedan(aDisco[c], l, s)
  BY <1>1, <1>2 DEF Quedaran, Quedara
<1>4. Intacto(f[c], s) => Quedaran(c, s) = Quedara(c, s)
  BY <1>1, <1>3, QuedanIgual
<1>5. ASSUME NEW w, UnPut(f[c], w), w.t = "PUT"
      PROVE  Quedaran(c, s) = IF Escribe(w, s) THEN {Deja(w, s)} ELSE Quedara(c, s)
  <2>1. CASE Escribe(w, s)
    <3>1. \A x : x \in Quedan(aDisco[c] \o f[c], l, s) <=> x = Deja(w, s)
      BY <1>1, <1>5, <2>1, QuedanEscrita
    <3>. QED BY <1>3, <2>1, <3>1
  <2>2. CASE ~Escribe(w, s)
    <3>1. Intacto(f[c], s)
      BY <1>5, <2>2 DEF Intacto, UnPut, Escribe
    <3>. QED BY <1>4, <2>2, <3>1
  <2>. QED BY <2>1, <2>2
<1>. QED BY <1>4, <1>5

\* What a write of the VSK sends, to the disks it goes to.
EsDelPar(m, par) ==
    /\ m.t = "PUT" /\ m.id = <<"put", Len(escritas) + 1>>
    /\ m.s1 = par[1] /\ m.d1 = [sec |-> par[1], ver |-> Len(escritas) + 1]
    /\ m.s2 = par[2] /\ m.d2 = [sec |-> par[2], ver |-> Len(escritas) + 1]

\* A write that finds the array at rest goes to every disk it has.
LEMMA PutEnvia ==
    ASSUME InvTipos, EscribeEnReposo, NEW par \in Pares, VskPut(par)
    PROVE  /\ ~EnCurso /\ EnEstado(sDiscos, "SINCRONIZADO") # {}
           /\ UNCHANGED <<sDiscos, cola, hilo, datos, deDisco>>
           /\ escritas' = Append(escritas, par)
           /\ \E m \in AlDisco : \E f \in [Conexiones -> Seq(AlDisco)] :
                 /\ EsDelPar(m, par) /\ \E p : Enviar(f, p)
                 /\ \A c \in Conexiones : f[c] \in {<<m>>, <<>>}
                 /\ \A i \in Pos : sDiscos[i].hilo \in Conexiones => f[sDiscos[i].hilo] = <<m>>
<1>0. UNCHANGED <<sDiscos, cola, hilo, datos, deDisco>> /\ escritas' = Append(escritas, par)
  BY DEF VskPut, tabla
<1>1. ~EnCurso /\ EnEstado(sDiscos, "SINCRONIZADO") # {}
  <2>1. ~EnCurso /\ Legibles(sDiscos) # {}
    BY Zenon DEF VskPut, EscribeEnReposo
  <2>. QED BY <2>1 DEF Legibles
<1>2. Len(escritas) \in Nat
  BY LenProperties DEF InvTipos, TypeOK, TipoHistoria
<1>. DEFINE v == Len(escritas) + 1
<1>3. PICK m : m = Put(<<"put", v>>, par[1], par[2], [sec |-> par[1], ver |-> v],
                       [sec |-> par[2], ver |-> v])
  OBVIOUS
<1>4. m \in AlDisco /\ EsDelPar(m, par)
  <2>1. par[1] \in Int /\ par[2] \in Int
    BY EntornoAssumption DEF Sectores
  <2>2. [sec |-> par[1], ver |-> v] \in Buffers /\ [sec |-> par[2], ver |-> v] \in Buffers
    BY <1>2, <2>1 DEF Buffers, Contenidos
  <2>3. <<"put", v>> \in Ids
    BY <1>2 DEF Ids
  <2>4. m \in AlDisco
    BY <1>3, <2>1, <2>2, <2>3, MensajesTipo
  <2>. QED BY <1>3, <2>4 DEF Put, EsDelPar
<1>5. PICK f : f = [c \in Conexiones |-> IF \E i \in ConHilo(sDiscos, c) : RecibePut(i, par)
                                          THEN <<m>> ELSE <<>>]
  OBVIOUS
<1>6. f \in [Conexiones -> Seq(AlDisco)] /\ \A c \in Conexiones : f[c] \in {<<m>>, <<>>}
  BY <1>4, <1>5
<1>7. Enviar(f, proceso)
  BY <1>3, <1>5, Zenon DEF VskPut
<1>8. \A i \in Pos : sDiscos[i].hilo \in Conexiones => f[sDiscos[i].hilo] = <<m>>
  BY <1>1, <1>5 DEF ConHilo, RecibePut
<1>. QED BY <1>0, <1>1, <1>4, <1>6, <1>7, <1>8

\* What the synchronised disks will hold after it.
LEMMA PutQueda ==
    ASSUME InvTipos, InvRutas, UNCHANGED <<hilo, datos>>, NEW m, m.t = "PUT",
           NEW f \in [Conexiones -> Seq(AlDisco)], NEW p, Enviar(f, p),
           \A i \in Pos : sDiscos[i].hilo \in Conexiones => f[sDiscos[i].hilo] = <<m>>,
           NEW i \in Pos, sDiscos[i].estado = "SINCRONIZADO", NEW s \in Sectores
    PROVE  Quedaran(sDiscos[i].hilo, s) =
              IF Escribe(m, s) THEN {Deja(m, s)} ELSE Quedara(sDiscos[i].hilo, s)
<1>1. PICK c : c = sDiscos[i].hilo
  OBVIOUS
<1>2. c \in Conexiones
  BY <1>1 DEF InvRutas, InvPuentes, ConPuente, Sincro
<1>3. hilo[c].fase = "activa"
  BY <1>1, <1>2 DEF InvRutas, InvPuentes, Anunciadas
<1>4. UnPut(f[c], m)
  <2>1. f[c] = <<m>>
    BY <1>1, <1>2
  <2>. QED BY <2>1 DEF UnPut
<1>. QED BY <1>1, <1>2, <1>3, <1>4, EnviarLlega

LEMMA PutCopia ==
    ASSUME InvBase, InvRutas, InvCopia, InvBase', InvRutas', EscribeEnReposo,
           NEW par \in Pares, VskPut(par)
    PROVE  InvCopia'
<1>0. /\ InvTipos /\ InvTipos' /\ InvSinc'
  BY DEF InvBase
<1>1. /\ ~EnCurso /\ UNCHANGED <<sDiscos, cola, hilo, datos>>
  BY <1>0, PutEnvia
<1>2. PICK m \in AlDisco, f \in [Conexiones -> Seq(AlDisco)] :
         /\ EsDelPar(m, par) /\ \E p : Enviar(f, p)
         /\ \A i \in Pos : sDiscos[i].hilo \in Conexiones => f[sDiscos[i].hilo] = <<m>>
  BY <1>0, PutEnvia
<1>3. \A i \in Pos, s \in Sectores : sDiscos[i].estado = "SINCRONIZADO" =>
         Quedaran(sDiscos[i].hilo, s) =
            IF Escribe(m, s) THEN {Deja(m, s)} ELSE Quedara(sDiscos[i].hilo, s)
  BY <1>0, <1>1, <1>2, PutQueda DEF EsDelPar
<1>4. Parejos'
  <2>. SUFFICES ASSUME NEW i \in Pos, NEW j \in Pos, NEW s \in Sectores,
                       sDiscos[i].estado = "SINCRONIZADO", sDiscos[j].estado = "SINCRONIZADO"
                PROVE  Quedaran(sDiscos[i].hilo, s) = Quedaran(sDiscos[j].hilo, s)
    BY <1>1 DEF Parejos, Iguales, EnEstado, Quedara, Quedaran
  <2>1. Quedara(sDiscos[i].hilo, s) = Quedara(sDiscos[j].hilo, s)
    BY DEF InvCopia, Parejos, Iguales, EnEstado
  <2>. QED BY <1>3, <2>1
<1>5. ~Copiando'
  BY <1>1 DEF Copiando, EnCurso
<1>. QED BY <1>0, <1>4, <1>5, SinCopiaBasta DEF InvCopia

\* A send with no write leaves to be written what was.
LEMMA EnviarSinPuts ==
    ASSUME InvTipos, NEW f \in [Conexiones -> Seq(AlDisco)], NEW p, Enviar(f, p),
           UNCHANGED <<hilo, datos>>,
           \A c \in Conexiones : \A k \in 1..Len(f[c]) : f[c][k].t # "PUT"
    PROVE  QuedaIgual
<1>. SUFFICES ASSUME NEW c \in Conexiones, hilo[c].fase = "activa", NEW s \in Sectores
              PROVE  Quedaran(c, s) = Quedara(c, s)
  BY DEF QuedaIgual
<1>1. Intacto(f[c], s)
  BY DEF Intacto, Escribe
<1>. QED BY <1>1, EnviarLlega

\* A send that asks for a pair asks for it last.
LEMMA EnviarUltima ==
    ASSUME InvTipos, NEW f \in [Conexiones -> Seq(AlDisco)], NEW p, Enviar(f, p),
           NingunaPorVia("ida"), NEW h, NEW m, MandaUna(f, h, m), Orig'.hilo = h
    PROVE  Pedida'
<1>1. aDisco \in [Conexiones -> Seq(AlDisco)]
  BY DEF InvTipos, TypeOK, TipoHilos
<1>. SUFFICES ASSUME NEW c \in Conexiones, NEW k \in Nat, SincEn(c, "ida", k)'
              PROVE  /\ c = h
                     /\ \A j \in 1..Len(aDisco'[c]) : ~(j > k)
  BY DEF Pedida
<1>2. k \in 1..Len(aDisco'[c]) /\ De(aDisco'[c][k], "consola")
  BY DEF SincEn, Trae, Canal
<1>3. ~(k \in 1..Len(aDisco[c]) /\ aDisco'[c][k] = aDisco[c][k])
  BY <1>2, SincEnSon DEF NingunaPorVia
<1>4. PICK l \in 1..Len(f[c]) : k = Len(aDisco[c]) + l /\ aDisco'[c][k] = f[c][l]
  BY <1>1, <1>2, <1>3, EnviarOrigen
<1>5. c = h /\ l = Len(f[c])
  BY <1>2, <1>4 DEF MandaUna
<1>6. aDisco[c] \in Seq(AlDisco) /\ f[c] \in Seq(AlDisco)
  BY <1>1
<1>7. Len(aDisco[c]) \in Nat /\ Len(f[c]) \in Nat
  BY <1>6, LenProperties
<1>8. ASSUME NEW j \in 1..Len(aDisco'[c]), j > k
      PROVE  FALSE
  <2>1. ~(j \in 1..Len(aDisco[c]))
    BY <1>4, <1>7, <1>8
  <2>2. PICK i \in 1..Len(f[c]) : j = Len(aDisco[c]) + i
    BY <1>1, <2>1, EnviarOrigen
  <2>. QED BY <1>4, <1>5, <1>7, <1>8, <2>2
<1>. QED BY <1>5, <1>8

\* The first pair a copy asks for.
LEMMA PrimerPar ==
    ASSUME InvTipos, NEW m, m = Get2(IdConsola, 0, 1)
    PROVE  m \in AlDisco /\ m.t = "GET2" /\ m.id[1] = "consola"
<1>1. IdConsola \in Ids
  BY DEF InvTipos, TypeOK, TipoControl, IdConsola, Ids
<1>2. 0 \in Sectores /\ 1 \in Sectores
  BY TotalAssumption DEF Sectores
<1>3. m \in AlDisco
  BY <1>1, <1>2, MensajesTipo
<1>. QED BY <1>3 DEF Get2, IdConsola

\* A disk is added: the only one, or it waits, or its copy starts.
LEMMA AgregarLados ==
    ASSUME InvBase, InvRutas, AgregaConHilo, NEW d \in Discos, ConsolaAgregar(d)
    PROVE  \/ PasoQuieto
           \/ \E i \in Pos : AgregaPrimera(i)
           \/ /\ RutasFijas /\ QuedaIgual
              /\ \E i, o \in Pos : sDiscos[i].estado # "SINCRONIZADO" /\ AgregaYEmpieza(i, o)
<1>0. /\ InvTipos /\ ColaContigua
      /\ 0 \in Pos /\ cola \in [Pos -> EntradaCola] /\ sDiscos \in [Pos -> Lugar]
  BY EntradaEnTabla DEF InvBase
<1>1. UNCHANGED <<deDisco, hilo, datos>>
  BY <1>0, AgregarEs
<1>2. CASE UNCHANGED <<sDiscos, cola, aDisco>>
  <2>1. QuedaIgual /\ SincEnOrden
    BY <1>0, <1>1, <1>2, QuietoQueda, LeidoQueda DEF SincEnOrden
  <2>2. RutasFijas /\ EntradaIgual
    BY <1>2 DEF RutasFijas, EntradaIgual
  <2>. QED BY <2>1, <2>2 DEF PasoQuieto
<1>3. ASSUME NEW i \in Pos, sDiscos' = PonerEstado(sDiscos, i, "SINCRONIZANDO")
      PROVE  RutasFijas
  <2>1. \A j \in Pos : /\ sDiscos'[j].hilo = sDiscos[j].hilo
                       /\ sDiscos'[j].estado = IF j = i THEN "SINCRONIZANDO"
                                                        ELSE sDiscos[j].estado
    BY <1>0, <1>3 DEF PonerEstado, Lugar
  <2>. QED BY <2>1 DEF RutasFijas
<1>4. ASSUME NEW i \in Pos, NEW o \in Pos, AgregaEnCola(i, o)
      PROVE  PasoQuieto
  <2>1. UNCHANGED aDisco /\ sDiscos' = PonerEstado(sDiscos, i, "SINCRONIZANDO")
    BY <1>4 DEF AgregaEnCola
  <2>2. QuedaIgual /\ SincEnOrden
    BY <1>0, <1>1, <2>1, QuietoQueda, LeidoQueda DEF SincEnOrden
  <2>3. cola'[0] = cola[0]
    BY <1>0, <1>4 DEF AgregaEnCola, Cargar
  <2>4. EntradaIgual
    BY <2>3 DEF EntradaIgual
  <2>. QED BY <1>3, <2>1, <2>2, <2>4 DEF PasoQuieto
<1>5. ASSUME NEW i \in Pos, NEW o \in Pos, AgregaYEmpieza(i, o)
      PROVE  RutasFijas /\ QuedaIgual
  <2>1. PICK m : m = Get2(IdConsola, 0, 1)
    OBVIOUS
  <2>2. m \in AlDisco /\ m.t # "PUT"
    BY <1>0, <2>1, PrimerPar
  <2>3. PICK h : h = sDiscos[o].hilo
    OBVIOUS
  <2>4. PICK f : f = Por(h, m)
    OBVIOUS
  <2>5. /\ f \in [Conexiones -> Seq(AlDisco)]
        /\ \A c \in Conexiones : \A k \in 1..Len(f[c]) : f[c][k] = m
    BY <2>2, <2>4, PorMensajes
  <2>6. PICK p : Enviar(f, p)
    BY <1>5, <2>1, <2>3, <2>4 DEF AgregaYEmpieza
  <2>7. QuedaIgual
    BY <1>0, <1>1, <2>2, <2>5, <2>6, EnviarSinPuts
  <2>8. sDiscos' = PonerEstado(sDiscos, i, "SINCRONIZANDO")
    BY <1>5 DEF AgregaYEmpieza
  <2>. QED BY <1>3, <2>7, <2>8
<1>. QED BY <1>0, <1>2, <1>4, <1>5, AgregarEs DEF Agrega

LEMMA AgregarCopia ==
    ASSUME InvBase, InvRutas, InvCopia, InvBase', InvRutas', AgregaConHilo,
           NEW d \in Discos, ConsolaAgregar(d)
    PROVE  InvCopia'
<1>0. /\ InvTipos /\ InvSinc /\ InvTipos' /\ InvSinc' /\ ColaContigua
      /\ 0 \in Pos /\ cola \in [Pos -> EntradaCola] /\ sDiscos \in [Pos -> Lugar]
      /\ cola[0].orig \in Pos /\ cola[0].dest \in Pos
  BY EntradaEnTabla DEF InvBase
<1>1. UNCHANGED <<deDisco, hilo, datos>>
  BY <1>0, AgregarEs
<1>2. CASE PasoQuieto
  BY <1>0, <1>2, CopiaQuieta DEF PasoQuieto
<1>3. ASSUME NEW i \in Pos, NEW e, sDiscos' = PonerEstado(sDiscos, i, e)
      PROVE  \A j \in Pos : /\ sDiscos'[j].hilo = sDiscos[j].hilo
                            /\ sDiscos'[j].estado = IF j = i THEN e ELSE sDiscos[j].estado
  BY <1>0, <1>3 DEF PonerEstado, Lugar
<1>4. ASSUME NEW i \in Pos, AgregaPrimera(i)
      PROVE  InvCopia'
  <2>1. \A j \in Pos : sDiscos'[j].estado = "SINCRONIZADO" => j = i
    BY <1>3, <1>4 DEF AgregaPrimera, EnEstado
  <2>2. Parejos'
    BY <2>1 DEF Parejos, Iguales, EnEstado
  <2>3. ~Copiando
    BY <1>0, <1>4 DEF AgregaPrimera, EnEstado, InvRutas, InvLugares, LugaresDeCopia, Orig
  <2>4. ~Copiando'
    BY <1>4, <2>3 DEF AgregaPrimera, Copiando, EnCurso
  <2>. QED BY <1>0, <2>2, <2>4, SinCopiaBasta DEF InvCopia
<1>5. ASSUME NEW i \in Pos, NEW o \in Pos, sDiscos[i].estado # "SINCRONIZADO",
             AgregaYEmpieza(i, o), RutasFijas, QuedaIgual
      PROVE  InvCopia'
  <2>1. PICK m : m = Get2(IdConsola, 0, 1)
    OBVIOUS
  <2>2. m \in AlDisco
    BY <1>0, <2>1, PrimerPar
  <2>3. PICK h : h = sDiscos[o].hilo
    OBVIOUS
  <2>4. PICK f : f = Por(h, m)
    OBVIOUS
  <2>5. /\ f \in [Conexiones -> Seq(AlDisco)]
        /\ \A c \in Conexiones : \A k \in 1..Len(f[c]) :
              c = h /\ k = 1 /\ Len(f[c]) = 1 /\ f[c][k] = m
    BY <2>2, <2>4, PorMensajes
  <2>6. PICK p : Enviar(f, p)
    BY <1>5, <2>1, <2>3, <2>4 DEF AgregaYEmpieza
  <2>7. Parejos'
    BY <1>0, <1>5, LadosQuedan DEF InvCopia
  <2>8. sDiscos' = PonerEstado(sDiscos, i, "SINCRONIZANDO")
    BY <1>5 DEF AgregaYEmpieza
  <2>9. cola'[0].act = 1 /\ cola'[0].orig = o
    BY <1>5 DEF AgregaYEmpieza, Entrada0
  <2>10. Copiados'
    BY <2>9 DEF Copiados, Sectores
  <2>11. SinSinc
    BY <1>0, <1>5, SinCursoSinSinc DEF AgregaYEmpieza, InvSinc
  <2>12. NingunaPorVia("ida") /\ NingunaPorVia("vuelta")
    BY <2>11 DEF SinSinc, Sentidos, NingunaPorVia
  <2>13. MandaUna(f, h, m) /\ Orig'.hilo = h
    BY <1>3, <2>3, <2>5, <2>8, <2>9 DEF MandaUna, Orig
  <2>14. Pedida'
    BY <1>0, <2>5, <2>6, <2>12, <2>13, EnviarUltima
  <2>15. Traida'
    BY <1>1, <2>12 DEF Traida, NingunaPorVia, SincEn, Trae, Canal
  <2>. QED BY <2>7, <2>10, <2>14, <2>15 DEF InvCopia
<1>. QED BY <1>2, <1>4, <1>5, AgregarLados

\* Two places have two bridges.
LEMMA OtroPuente ==
    ASSUME InvTabla, NEW i \in Pos, NEW j \in Pos, sDiscos[i].hilo \in Conexiones,
           sDiscos[j].hilo = sDiscos[i].hilo
    PROVE  i = j
<1>1. PICK c \in Conexiones : c = sDiscos[i].hilo
  OBVIOUS
<1>2. sDiscos[i].nombre # NULO
  BY <1>1, ValoresAssumption DEF InvTabla, LugarLibre
<1>3. sDiscos[i].nombre = hilo[c].disco /\ sDiscos[j].nombre = hilo[c].disco
  BY <1>1 DEF InvTabla, RutaCorrecta
<1>. QED BY <1>2, <1>3 DEF InvTabla, NombresUnicos

\* What an answer of the synchronisation leaves to be written: the disk that is
\* copied to will hold, in the sectors copied so far and in the two that came,
\* what the other one will.
LEMMA CopiaEscribe ==
    ASSUME InvBase, InvRutas, InvCopia, NEW c \in Conexiones, RespuestaSincronizacion(c),
           NEW m, m = Head(deDisco[c]),
           NEW f \in [Conexiones -> Seq(AlDisco)], NEW p, Enviar(f, p),
           UnPut(f[Dest.hilo], ParLeido(m)),
           \A x \in Conexiones : x # Dest.hilo => SinPuts(f[x])
    PROVE  /\ cola[0].act \in Sectores
           /\ \A s \in Sectores :
                 s <= cola[0].act => Quedaran(Dest.hilo, s) = Quedara(Orig.hilo, s)
           /\ \A i \in Pos, s \in Sectores : sDiscos[i].estado = "SINCRONIZADO" =>
                 Quedaran(sDiscos[i].hilo, s) = Quedara(Orig.hilo, s)
<1>0. /\ InvTipos /\ InvSinc /\ InvTabla
      /\ cola[0].orig \in Pos /\ cola[0].dest \in Pos
  BY EntradaEnTabla DEF InvBase
<1>1. /\ Copiando /\ UNCHANGED <<hilo, datos>> /\ m = deDisco[c][1]
      /\ SincEn(c, "vuelta", 1) /\ cola[0].act \in Nat /\ cola[0].act >= 1 /\ 1 \in Nat
  BY <1>0, RespuestaHalla
<1>2. /\ Orig.estado = "SINCRONIZADO" /\ Dest.estado = "SINCRONIZANDO"
      /\ Orig.hilo \in Conexiones /\ Dest.hilo \in Conexiones
  BY <1>0, <1>1, CopiaConPuente
<1>3. PICK a : a = cola[0].act
  OBVIOUS
<1>4. /\ a \in Nat /\ a >= 1 /\ a \in Sectores
      /\ Quedara(Orig.hilo, a - 1) = {m.d1} /\ Quedara(Orig.hilo, a) = {m.d2}
  BY <1>1, <1>3 DEF InvCopia, Traida
<1>5. PICK w : w = ParLeido(m)
  OBVIOUS
<1>6. w.t = "PUT" /\ w.s1 = a - 1 /\ w.s2 = a /\ w.d1 = m.d1 /\ w.d2 = m.d2
  BY <1>3, <1>5 DEF ParLeido, Put
<1>7. ASSUME NEW s \in Sectores, s <= a
      PROVE  Quedaran(Dest.hilo, s) = Quedara(Orig.hilo, s)
  <2>1. PICK x \in Conexiones : x = Dest.hilo
    BY <1>2
  <2>2. hilo[x].fase = "activa"
    BY <1>0, <2>1 DEF InvRutas, InvPuentes, Anunciadas, Dest
  <2>3. Quedaran(x, s) = IF Escribe(w, s) THEN {Deja(w, s)} ELSE Quedara(x, s)
    BY <1>0, <1>1, <1>5, <1>6, <2>1, <2>2, EnviarLlega
  <2>4. CASE s = a
    BY <1>4, <1>6, <2>1, <2>3, <2>4 DEF Escribe, Deja
  <2>5. CASE s = a - 1
    <3>1. a # a - 1
      BY <1>4
    <3>. QED BY <1>4, <1>6, <2>1, <2>3, <2>5, <3>1 DEF Escribe, Deja
  <2>6. CASE s < a - 1
    <3>1. s # a /\ s # a - 1
      BY <1>4, <1>7, <2>6 DEF Sectores
    <3>2. Quedaran(x, s) = Quedara(x, s)
      BY <1>6, <2>3, <3>1 DEF Escribe
    <3>3. Quedara(x, s) = Quedara(Orig.hilo, s)
      BY <1>1, <1>3, <2>1, <2>6 DEF InvCopia, Copiados
    <3>. QED BY <2>1, <3>2, <3>3
  <2>7. s = a \/ s = a - 1 \/ s < a - 1
    BY <1>4, <1>7 DEF Sectores
  <2>. QED BY <2>4, <2>5, <2>6, <2>7
<1>8. ASSUME NEW i \in Pos, NEW s \in Sectores, sDiscos[i].estado = "SINCRONIZADO"
      PROVE  Quedaran(sDiscos[i].hilo, s) = Quedara(Orig.hilo, s)
  <2>1. PICK x : x = sDiscos[i].hilo
    OBVIOUS
  <2>2. x \in Conexiones
    BY <1>8, <2>1 DEF InvRutas, InvPuentes, ConPuente, Sincro
  <2>3. hilo[x].fase = "activa"
    BY <2>1, <2>2 DEF InvRutas, InvPuentes, Anunciadas
  <2>4. x # Dest.hilo
    <3>1. i # cola[0].dest
      BY <1>2, <1>8 DEF Dest
    <3>. QED BY <1>0, <2>1, <2>2, <3>1, OtroPuente DEF Dest
  <2>5. Intacto(f[x], s)
    BY <2>2, <2>4 DEF SinPuts, Intacto, Escribe
  <2>6. Quedaran(x, s) = Quedara(x, s)
    BY <1>0, <1>1, <2>2, <2>3, <2>5, EnviarLlega
  <2>7. Quedara(sDiscos[i].hilo, s) = Quedara(Orig.hilo, s)
    BY <1>0, <1>2, <1>8 DEF InvCopia, Parejos, Iguales, EnEstado, Orig
  <2>. QED BY <2>1, <2>6, <2>7
<1>. QED BY <1>3, <1>4, <1>7, <1>8

\* The disks that are synchronised after a step will hold what the one of the
\* bridge h would.
HeredanDe(h) == \A i \in Pos, s \in Sectores :
    sDiscos'[i].estado = "SINCRONIZADO" => Quedaran(sDiscos'[i].hilo, s) = Quedara(h, s)

LEMMA RespuestaCopia ==
    ASSUME InvBase, InvRutas, InvCopia, InvBase', InvRutas',
           NEW c \in Conexiones, RespuestaSincronizacion(c)
    PROVE  InvCopia' /\ Orig.estado = "SINCRONIZADO" /\ HeredanDe(Orig.hilo)
<1>0. /\ InvTipos /\ InvSinc /\ InvTabla /\ InvTipos' /\ InvSinc'
      /\ 0 \in Pos /\ cola \in [Pos -> EntradaCola] /\ sDiscos \in [Pos -> Lugar]
      /\ cola[0].orig \in Pos /\ cola[0].dest \in Pos
  BY EntradaEnTabla DEF InvBase
<1>1. PICK m : m = Head(deDisco[c])
  OBVIOUS
<1>2. /\ Copiando /\ UNCHANGED <<hilo, datos>>
      /\ m \in [t : {"RTA"}, id : Ids, d1 : Buffers, d2 : Buffers]
      /\ cola[0].act \in Nat /\ cola[0].act >= 1
      /\ NingunaPorVia("ida") /\ NingunaPorVia("vuelta")'
  BY <1>0, <1>1, RespuestaHalla
<1>3. /\ Orig.estado = "SINCRONIZADO" /\ Dest.estado = "SINCRONIZANDO"
      /\ Orig.hilo \in Conexiones /\ Dest.hilo \in Conexiones
      /\ cola[0].orig # cola[0].dest
  BY <1>0, <1>2, CopiaConPuente
<1>4. Orig.hilo # Dest.hilo
  BY <1>0, <1>3, OtroPuente DEF Orig, Dest
<1>5. PICK a : a = cola[0].act
  OBVIOUS
<1>6. PICK w : w = ParLeido(m)
  OBVIOUS
<1>7. w \in AlDisco /\ ~De(w, "consola")
  <2>1. m.id \in Ids /\ m.d1 \in Buffers /\ m.d2 \in Buffers /\ a - 1 \in Int /\ a \in Int
    BY <1>2, <1>5
  <2>2. w \in AlDisco
    BY <1>5, <1>6, <2>1, MensajesTipo DEF ParLeido
  <2>. QED BY <1>6, <2>2 DEF ParLeido, Put, De
<1>8. PICK hd \in Conexiones : hd = Dest.hilo
  BY <1>3
<1>9. PICK ho \in Conexiones : ho = Orig.hilo
  BY <1>3
<1>10. PICK g : g = Por(hd, w)
  OBVIOUS
<1>11. /\ g \in [Conexiones -> Seq(AlDisco)]
       /\ \A e \in Conexiones : g[e] = IF e = hd THEN <<w>> ELSE <<>>
  BY <1>7, <1>10 DEF Por
<1>12. CASE CopiaSigue(m)
  <2>1. PICK z : z = ParSig(m)
    OBVIOUS
  <2>2. z \in AlDisco /\ z.t # "PUT"
    <3>1. SincEn(c, "vuelta", 1) /\ "vuelta" \in Sentidos /\ 1 \in Nat
      BY <1>0, RespuestaHalla DEF Sentidos
    <3>2. a % 2 = 1
      BY <1>0, <1>5, <3>1 DEF InvSinc, DeLaEntrada, EsDeLaEntrada
    <3>3. HaySector(a + 2) /\ HaySector(a + 1) /\ a \in Nat
      BY <1>2, <1>5, <1>12, <3>2, ParSiguiente DEF CopiaSigue
    <3>4. a + 1 \in Sectores /\ a + 2 \in Sectores
      BY <3>3, TotalAssumption DEF HaySector, Sectores
    <3>5. m.id \in Ids
      BY <1>2
    <3>. QED BY <1>5, <2>1, <3>4, <3>5, MensajesTipo DEF ParSig, Get2
  <2>3. PICK b : b = Por(ho, z)
    OBVIOUS
  <2>4. /\ b \in [Conexiones -> Seq(AlDisco)]
        /\ \A e \in Conexiones : b[e] = IF e = ho THEN <<z>> ELSE <<>>
    BY <2>2, <2>3 DEF Por
  <2>5. PICK f : f = Luego(g, b)
    OBVIOUS
  <2>6. f \in [Conexiones -> Seq(AlDisco)]
    BY <1>11, <2>4, <2>5, LuegoMensajes
  <2>7. /\ f[hd] = <<w>> /\ f[ho] = <<z>>
        /\ \A e \in Conexiones : e # hd /\ e # ho => f[e] = <<>>
    <3>1. \A e \in Conexiones : f[e] = g[e] \o b[e]
      BY <2>5 DEF Luego
    <3>2. g[hd] = <<w>> /\ b[hd] = <<>> /\ g[ho] = <<>> /\ b[ho] = <<z>>
      BY <1>4, <1>8, <1>9, <1>11, <2>4
    <3>3. \A e \in Conexiones : e # hd /\ e # ho => g[e] = <<>> /\ b[e] = <<>>
      BY <1>11, <2>4
    <3>4. \A x \in Seq(AlDisco) : x \o <<>> = x /\ <<>> \o x = x
      OBVIOUS
    <3>5. <<w>> \in Seq(AlDisco) /\ <<z>> \in Seq(AlDisco) /\ <<>> \in Seq(AlDisco)
      BY <1>7, <2>2
    <3>6. f[hd] = <<w>> \o <<>> /\ f[ho] = <<>> \o <<z>>
      BY <3>1, <3>2
    <3>7. \A e \in Conexiones : e # hd /\ e # ho => f[e] = <<>> \o <<>>
      BY <3>1, <3>3
    <3>8. f[hd] = <<w>> /\ f[ho] = <<z>>
      BY <3>4, <3>5, <3>6
    <3>9. \A e \in Conexiones : e # hd /\ e # ho => f[e] = <<>>
      BY <3>4, <3>5, <3>7
    <3>. QED BY <3>8, <3>9
  <2>8. Enviar(f, proceso)
    BY <1>6, <1>8, <1>9, <1>10, <1>12, <2>1, <2>3, <2>5 DEF CopiaSigue
  <2>9. UnPut(f[hd], w) /\ \A e \in Conexiones : e # hd => SinPuts(f[e])
    <3>1. UnPut(<<w>>, w) /\ SinPuts(<<z>>) /\ SinPuts(<<>>)
      BY <2>2 DEF UnPut, SinPuts
    <3>. QED BY <2>7, <3>1
  <2>10. /\ \A s \in Sectores : s <= a => Quedaran(hd, s) = Quedara(ho, s)
         /\ \A i \in Pos, s \in Sectores : sDiscos[i].estado = "SINCRONIZADO" =>
               Quedaran(sDiscos[i].hilo, s) = Quedara(ho, s)
    BY <1>1, <1>5, <1>6, <1>8, <1>9, <2>6, <2>8, <2>9, CopiaEscribe
  <2>11. /\ UNCHANGED sDiscos /\ cola'[0].act = a + 2
         /\ cola'[0].orig = cola[0].orig /\ cola'[0].dest = cola[0].dest
    BY <1>0, <1>5, <1>12 DEF CopiaSigue, EntradaCola
  <2>12. Orig'.hilo = ho /\ Dest'.hilo = hd
    BY <1>8, <1>9, <2>11 DEF Orig, Dest
  <2>13. Copiados'
    <3>. SUFFICES ASSUME NEW s \in Sectores, s < cola'[0].act - 1
                  PROVE  Quedaran(Dest'.hilo, s) = Quedaran(Orig'.hilo, s)
      BY DEF Copiados, Quedara, Quedaran
    <3>1. s <= a
      BY <1>2, <1>5, <2>11 DEF Sectores
    <3>2. Quedaran(ho, s) = Quedara(ho, s)
      BY <1>0, <1>3, <1>9, <2>10 DEF Orig
    <3>. QED BY <2>10, <2>12, <3>1, <3>2
  <2>14. Parejos'
    <3>. SUFFICES ASSUME NEW i \in Pos, NEW j \in Pos, NEW s \in Sectores,
                         sDiscos[i].estado = "SINCRONIZADO", sDiscos[j].estado = "SINCRONIZADO"
                  PROVE  Quedaran(sDiscos[i].hilo, s) = Quedaran(sDiscos[j].hilo, s)
      BY <2>11 DEF Parejos, Iguales, EnEstado, Quedara, Quedaran
    <3>. QED BY <2>10
  <2>15. Pedida'
    <3>1. MandaUna(f, ho, z)
      <4>. SUFFICES ASSUME NEW e \in Conexiones, NEW k \in 1..Len(f[e]), De(f[e][k], "consola")
                    PROVE  e = ho /\ k = Len(f[e]) /\ f[e][k] = z
        BY DEF MandaUna
      <4>1. e # hd
        BY <1>7, <2>7
      <4>2. e = ho
        BY <2>7, <4>1
      <4>3. f[e] = <<z>>
        BY <2>7, <4>2
      <4>4. k = 1 /\ Len(f[e]) = 1 /\ f[e][1] = z
        BY <4>3
      <4>. QED BY <4>2, <4>4
    <3>. QED BY <1>0, <1>2, <2>6, <2>8, <2>12, <3>1, EnviarUltima
  <2>16. Traida'
    BY <1>2 DEF Traida, NingunaPorVia
  <2>17. HeredanDe(ho)
    BY <2>10, <2>11 DEF HeredanDe
  <2>. QED BY <1>3, <1>9, <2>13, <2>14, <2>15, <2>16, <2>17 DEF InvCopia
<1>13. CASE CopiaTermina(m)
  <2>1. Enviar(g, proceso)
    BY <1>6, <1>8, <1>10, <1>13 DEF CopiaTermina
  <2>2. UnPut(g[hd], w) /\ \A e \in Conexiones : e # hd => SinPuts(g[e])
    <3>1. UnPut(<<w>>, w) /\ SinPuts(<<>>)
      BY DEF UnPut, SinPuts
    <3>. QED BY <1>11, <3>1
  <2>3. /\ \A s \in Sectores : s <= a => Quedaran(hd, s) = Quedara(ho, s)
        /\ \A i \in Pos, s \in Sectores : sDiscos[i].estado = "SINCRONIZADO" =>
              Quedaran(sDiscos[i].hilo, s) = Quedara(ho, s)
    BY <1>1, <1>5, <1>6, <1>8, <1>9, <1>11, <2>1, <2>2, CopiaEscribe
  <2>4. \A s \in Sectores : s <= a
    BY <1>2, <1>5, <1>13, TotalAssumption DEF CopiaTermina, HaySector, Sectores
  <2>5. \A i \in Pos : /\ sDiscos'[i].hilo = sDiscos[i].hilo
                       /\ sDiscos'[i].estado = IF i = cola[0].dest THEN "SINCRONIZADO"
                                                                   ELSE sDiscos[i].estado
    BY <1>0, <1>13 DEF CopiaTermina, PonerEstado, Lugar
  <2>6. \A i \in Pos, s \in Sectores : sDiscos'[i].estado = "SINCRONIZADO" =>
           Quedaran(sDiscos'[i].hilo, s) = Quedara(ho, s)
    BY <1>8, <2>3, <2>4, <2>5 DEF Dest
  <2>7. Parejos'
    <3>. SUFFICES ASSUME NEW i \in Pos, NEW j \in Pos, NEW s \in Sectores,
                         sDiscos'[i].estado = "SINCRONIZADO", sDiscos'[j].estado = "SINCRONIZADO"
                  PROVE  Quedaran(sDiscos'[i].hilo, s) = Quedaran(sDiscos'[j].hilo, s)
      BY DEF Parejos, Iguales, EnEstado, Quedara, Quedaran
    <3>. QED BY <2>6
  <2>8. ~Copiando'
    <3>1. cola'[0].id # NULO => cola'[0].act = 0
      BY <1>0, <1>13, TerminadaCola
    <3>. QED BY <3>1 DEF Copiando, EnCurso
  <2>. QED BY <1>0, <1>3, <1>9, <2>6, <2>7, <2>8, SinCopiaBasta DEF InvCopia, HeredanDe
<1>. QED BY <1>0, <1>1, <1>12, <1>13, RespuestaEs

\* A disk that serves a request will hold what it would, and so will the others:
\* no two live bridges are of one disk.
LEMMA DiscoQueda ==
    ASSUME InvTipos, InvRutas, NEW c \in Conexiones, DiscoAtiende(c)
    PROVE  QuedaIgual
<1>0. /\ aDisco \in [Conexiones -> Seq(AlDisco)] /\ datos \in [Discos -> [Sectores -> Buffers]]
      /\ aDisco[c] # <<>> /\ UNCHANGED hilo
  BY DEF InvTipos, TypeOK, TipoHilos, DiscoAtiende
<1>1. PICK d : d = hilo[c].disco
  OBVIOUS
<1>2. PICK m : m = Head(aDisco[c])
  OBVIOUS
<1>3. /\ aDisco'[c] = Tail(aDisco[c]) /\ \A x \in Conexiones : x # c => aDisco'[x] = aDisco[x]
      /\ d \in Discos => datos'[d] = Grabar(m, datos[d])
      /\ \A x \in Discos : x # d => datos'[x] = datos[x]
  <2>1. datos' = [datos EXCEPT ![d] = Grabar(m, datos[d])]
    BY <1>1, <1>2 DEF DiscoAtiende
  <2>2. aDisco' = [aDisco EXCEPT ![c] = Tail(aDisco[c])]
    BY DEF DiscoAtiende
  <2>. QED BY <1>0, <2>1, <2>2
<1>. SUFFICES ASSUME NEW x \in Conexiones, hilo[x].fase = "activa", NEW s \in Sectores
              PROVE  Quedaran(x, s) = Quedara(x, s)
  BY DEF QuedaIgual
<1>4. PICK e \in Discos : e = hilo[x].disco
  BY DEF InvTipos, HilosConDisco
<1>5. Quedaran(x, s) = Quedan(aDisco'[x], datos'[e], s) /\ Quedara(x, s) = Quedan(aDisco[x], datos[e], s)
  BY <1>0, <1>4 DEF Quedaran, Quedara
<1>6. CASE x = c
  <2>1. PICK q \in Seq(AlDisco) : q = aDisco[c]
    BY <1>0
  <2>2. PICK l \in [Sectores -> Buffers] : l = datos[e]
    BY <1>0
  <2>3. e = d
    BY <1>1, <1>4, <1>6
  <2>4. q # <<>> /\ aDisco'[c] = Tail(q) /\ datos'[e] = Grabar(Head(q), l)
    BY <1>0, <1>2, <1>3, <2>1, <2>2, <2>3
  <2>5. Quedan(Tail(q), Grabar(Head(q), l), s) = Quedan(q, l, s)
    BY <2>4, QuedanGrabar
  <2>. QED BY <1>5, <1>6, <2>1, <2>2, <2>4, <2>5
<1>7. CASE x # c
  <2>1. e # d
    BY <1>0, <1>1, <1>4, <1>7 DEF InvRutas, InvPuentes, UnPuente, Vivas
  <2>. QED BY <1>3, <1>5, <1>7, <2>1
<1>. QED BY <1>6, <1>7

\* The pair that is read for a copy is what the disk still will hold: no write
\* waited before the request, and none after it.
LEMMA DiscoCopia ==
    ASSUME InvBase, InvRutas, InvCopia, InvBase', InvRutas',
           NEW c \in Conexiones, DiscoAtiende(c)
    PROVE  InvCopia'
<1>0. /\ InvTipos /\ InvSinc /\ InvTipos' /\ InvSinc'
      /\ UNCHANGED <<sDiscos, cola, hilo>>
      /\ aDisco \in [Conexiones -> Seq(AlDisco)] /\ deDisco \in [Conexiones -> Seq(DelDisco)]
      /\ datos \in [Discos -> [Sectores -> Buffers]]
      /\ aDisco[c] # <<>> /\ aDisco' = [aDisco EXCEPT ![c] = Tail(aDisco[c])]
  BY DEF InvBase, InvTipos, TypeOK, TipoHilos, DiscoAtiende, tabla
<1>1. PICK d : d = hilo[c].disco
  OBVIOUS
<1>2. PICK m : m = Head(aDisco[c])
  OBVIOUS
<1>3. /\ m \in AlDisco /\ PutBien(m) /\ m = aDisco[c][1] /\ 1 \in 1..Len(aDisco[c])
  <2>1. aDisco[c] \in Seq(AlDisco)
    BY <1>0
  <2>2. m = aDisco[c][1] /\ 1 \in 1..Len(aDisco[c])
    BY <1>0, <1>2, DiscoOrigen
  <2>3. m \in AlDisco
    BY <2>1, <2>2
  <2>. QED BY <1>0, <2>2, <2>3 DEF InvSinc, PutsBien
<1>4. PICK r : r = Servir(m, datos[d])
  OBVIOUS
<1>5. IF hilo[c].fase = "activa" THEN Contestar(c, r) ELSE UNCHANGED deDisco
  BY <1>1, <1>2, <1>4 DEF DiscoAtiende
<1>6. hilo[c].fase = "activa" => /\ d \in Discos /\ datos[d] \in [Sectores -> Buffers]
                                 /\ \A z \in Sectores : datos[d][z].sec = z
  BY <1>0, <1>1 DEF InvTipos, HilosConDisco, InvSinc, SectorPropio
<1>7. QuedaIgual /\ RutasFijas /\ EntradaIgual
  BY <1>0, DiscoQueda DEF RutasFijas, EntradaIgual
<1>8. CASE ~De(m, "consola")
  <2>1. hilo[c].fase = "activa" => ~De(r, "consola")
    BY <1>3, <1>4, <1>6, <1>8, ServirPropio DEF De
  <2>2. \A x \in Conexiones : Viene(deDisco[x], deDisco'[x], "consola")
    <3>1. CASE UNCHANGED deDisco
      BY <1>0, <3>1, LeidoQueda
    <3>2. CASE hilo[c].fase = "activa"
      <4>1. \A x \in Conexiones : /\ deDisco[x] \in Seq(DelDisco)
                                  /\ x # c => deDisco'[x] = deDisco[x]
        BY <1>0, <1>5, <3>2 DEF Contestar
      <4>2. deDisco'[c] = Append(deDisco[c], r)
        BY <1>0, <1>5, <3>2 DEF Contestar
      <4>. QED BY <2>1, <3>2, <4>1, <4>2, VieneMas, VieneMismo
    <3>. QED BY <1>5, <3>1, <3>2
  <2>3. \A x \in Conexiones : EnOrden(aDisco[x], aDisco'[x])
    <3>1. \A x \in Conexiones : /\ aDisco[x] \in Seq(AlDisco)
                                /\ aDisco'[x] = IF x = c THEN Tail(aDisco[c]) ELSE aDisco[x]
      BY <1>0
    <3>. QED BY <1>0, <3>1, OrdenResto, OrdenMismo
  <2>4. SincEnOrden
    BY <2>2, <2>3 DEF SincEnOrden
  <2>. QED BY <1>0, <1>7, <2>4, CopiaQuieta
<1>9. CASE De(m, "consola")
  <2>1. SincEn(c, "ida", 1) /\ "ida" \in Sentidos /\ "vuelta" \in Sentidos /\ 1 \in Nat
    BY <1>3, <1>9 DEF SincEn, Trae, Canal, Sentidos
  <2>2. EsDeLaEntrada(m, "ida", cola[0]) /\ Copiando
    BY <1>0, <1>3, <2>1, SincCopiando DEF InvSinc, DeLaEntrada, Canal
  <2>3. PICK a : a = cola[0].act
    OBVIOUS
  <2>4. m.t = "GET2" /\ m.s1 = a - 1 /\ m.s2 = a
    BY <2>2, <2>3 DEF EsDeLaEntrada
  <2>5. /\ c = Orig.hilo
        /\ \A j \in 1..Len(aDisco[c]) : j > 1 => aDisco[c][j].t # "PUT"
    BY <2>1 DEF InvCopia, Pedida
  <2>6. SinPuts(aDisco[c])
    <3>. SUFFICES ASSUME NEW j \in 1..Len(aDisco[c])
                  PROVE  aDisco[c][j].t # "PUT"
      BY DEF SinPuts
    <3>1. j = 1 \/ j > 1
      OBVIOUS
    <3>. QED BY <1>3, <2>4, <2>5, <3>1
  <2>7. \A s \in Sectores : Quedara(c, s) = {datos[d][s]}
    BY <1>1, <2>6, QuedanSinPuts DEF Quedara
  <2>8. hilo[c].fase = "activa"
    BY <1>0, <2>5, EntradaEnTabla DEF InvRutas, InvPuentes, Anunciadas, Orig
  <2>9. /\ r.t = "RTA" /\ r.id = m.id /\ r.d1 = datos[d][a - 1] /\ r.d2 = datos[d][a]
        /\ a - 1 \in Sectores /\ a \in Sectores
    BY <1>3, <1>4, <1>6, <2>4, <2>8, ServirPropio
  <2>10. PICK n \in Nat : n = Len(deDisco[c])
    BY <1>0, LenProperties
  <2>11. n + 1 \in 1..Len(deDisco'[c]) /\ deDisco'[c][n + 1] = r
    <3>1. deDisco'[c] = Append(deDisco[c], r) /\ deDisco[c] \in Seq(DelDisco)
      BY <1>0, <1>5, <2>8 DEF Contestar
    <3>. QED BY <2>10, <3>1
  <2>12. SincEn(c, "vuelta", n + 1)'
    <3>1. De(r, "consola")
      BY <1>9, <2>4, <2>9 DEF De
    <3>. QED BY <2>11, <3>1 DEF SincEn, Trae, Canal
  <2>13. \A e \in Conexiones, v \in Sentidos, k \in Nat :
            SincEn(e, v, k)' => e = c /\ v = "vuelta" /\ k = n + 1
    BY <1>0, <2>1, <2>10, <2>12 DEF InvSinc, UnaSola
  <2>14. /\ Copiados' /\ Parejos' /\ Orig'.hilo = c /\ cola'[0].act = a
         /\ \A s \in Sectores : Quedaran(c, s) = {datos[d][s]}
    <3>1. Copiando' /\ Orig'.hilo = c /\ cola'[0].act = a
      BY <1>0, <2>2, <2>3, <2>5 DEF Copiando, EnCurso, Orig
    <3>2. Copiados' /\ \A s \in Sectores : Quedaran(c, s) = Quedara(c, s)
      BY <1>0, <1>7, <2>5, <3>1, CopiaQueda
    <3>3. Parejos'
      BY <1>0, <1>7, LadosQuedan DEF InvCopia
    <3>. QED BY <2>7, <3>1, <3>2, <3>3
  <2>15. Pedida'
    BY <2>1, <2>13 DEF Pedida
  <2>16. Traida'
    <3>. SUFFICES ASSUME NEW e \in Conexiones, NEW k \in Nat, SincEn(e, "vuelta", k)'
                  PROVE  /\ cola'[0].act \in Sectores
                         /\ Quedaran(Orig'.hilo, cola'[0].act - 1) = {deDisco'[e][k].d1}
                         /\ Quedaran(Orig'.hilo, cola'[0].act) = {deDisco'[e][k].d2}
      BY DEF Traida, Quedara, Quedaran
    <3>1. deDisco'[e][k] = r
      BY <2>1, <2>11, <2>13
    <3>. QED BY <2>9, <2>14, <3>1
  <2>. QED BY <2>14, <2>15, <2>16 DEF InvCopia
<1>. QED BY <1>8, <1>9

-----------------------------------------------------------------------------

LEMMA CopiaInicial == Init => InvCopia
<1>. SUFFICES ASSUME Init PROVE InvCopia
  OBVIOUS
<1>1. \A i \in Pos : sDiscos[i].estado = "NO_CONECTADO"
  BY DEF Init, RespaldarLista, LugarVacio
<1>2. Parejos
  BY <1>1 DEF Parejos, EnEstado
<1>3. cola[0].id = NULO
  BY NAssumption DEF Init, ColaInicial, Pos
<1>4. \A c \in Conexiones, k \in Nat : ~SincEn(c, "ida", k) /\ ~SincEn(c, "vuelta", k)
  BY SincEnSon DEF Init
<1>5. Copiados /\ Pedida /\ Traida
  BY <1>3, <1>4 DEF Copiados, Pedida, Traida, Copiando, EnCurso
<1>. QED BY <1>2, <1>5 DEF InvCopia

LEMMA CopiaPaso ==
    Regimen /\ EscribeEnReposo /\ InvBase /\ InvRutas /\ InvBase' /\ InvRutas'
        /\ InvCopia /\ [Next]_vars => InvCopia'
<1>. SUFFICES ASSUME Regimen, EscribeEnReposo, InvBase, InvRutas, InvBase', InvRutas',
                     InvCopia, [Next]_vars
              PROVE  InvCopia'
  OBVIOUS
<1>0. Alcanza /\ AgregaConHilo
  BY DEF Regimen
<1>00. PasoQuieto => InvCopia'
  BY CopiaQuieta DEF PasoQuieto, InvBase
<1>1. CASE Sereno
  BY <1>0, <1>00, <1>1, SerenoQuieto, PutCopia
<1>2. ASSUME NEW d \in Discos, HandshakeDisco(d) \/ ConsolaAgregar(d)
      PROVE  InvCopia'
  BY <1>0, <1>00, <1>2, HandshakeQuieto, AgregarCopia
<1>3. ASSUME NEW d \in Discos, ConsolaEliminar(d)
      PROVE  InvCopia'
  <2>1. CASE UNCHANGED <<sDiscos, cola, hilo, aDisco, deDisco, datos>>
    <3>1. Sereno
      BY <2>1 DEF Sereno
    <3>. QED BY <1>1, <3>1
  <2>. QED BY <1>00, <1>3, <2>1, EliminarEs, QuitaQuieto
<1>4. ASSUME NEW c \in Conexiones, \/ AsociarHilo(c) \/ RespuestaSincronizacion(c)
                                   \/ HiloInicia(c) \/ DiscoAtiende(c)
      PROVE  InvCopia'
  BY <1>00, <1>4, AsociarQuieto, RespuestaCopia, IniciaQuieto, DiscoCopia
<1>5. CASE Cierre
  BY <1>00, <1>5, CierreQuieto
<1>. QED BY <1>1, <1>2, <1>3, <1>4, <1>5, PasosDelRegimen

\* What a disk up to date will hold is what it holds.
LEMMA EspejoDeCopia ==
    ASSUME InvTipos, InvTabla, InvRutas, InvCopia
    PROVE  EspejoIgual
<1>1. ASSUME NEW i \in Pos, AlDia(i)
      PROVE  /\ sDiscos[i].nombre \in Discos
             /\ \A s \in Sectores : Quedara(sDiscos[i].hilo, s) = {datos[sDiscos[i].nombre][s]}
  <2>1. PICK c \in Conexiones : c = sDiscos[i].hilo
    BY <1>1 DEF AlDia
  <2>2. hilo[c].fase = "activa"
    BY <2>1 DEF InvRutas, InvPuentes, Anunciadas
  <2>3. hilo[c].disco \in Discos /\ sDiscos[i].nombre = hilo[c].disco
    BY <2>1, <2>2 DEF InvTipos, HilosConDisco, InvTabla, RutaCorrecta
  <2>4. SinPuts(aDisco[c])
    BY <1>1, <2>1 DEF AlDia, SinPuts
  <2>5. \A s \in Sectores : Quedara(c, s) = {datos[hilo[c].disco][s]}
    BY <2>4, QuedanSinPuts DEF Quedara
  <2>. QED BY <2>1, <2>3, <2>5
<1>. SUFFICES ASSUME NEW i \in Pos, NEW j \in Pos, AlDia(i), AlDia(j)
              PROVE  datos[sDiscos[i].nombre] = datos[sDiscos[j].nombre]
  BY DEF EspejoIgual
<1>2. PICK x \in Discos : x = sDiscos[i].nombre
  BY <1>1
<1>3. PICK y \in Discos : y = sDiscos[j].nombre
  BY <1>1
<1>4. \A s \in Sectores : datos[x][s] = datos[y][s]
  <2>1. \A s \in Sectores : Quedara(sDiscos[i].hilo, s) = Quedara(sDiscos[j].hilo, s)
    BY DEF InvCopia, Parejos, Iguales, EnEstado, AlDia
  <2>2. \A s \in Sectores : /\ Quedara(sDiscos[i].hilo, s) = {datos[x][s]}
                            /\ Quedara(sDiscos[j].hilo, s) = {datos[y][s]}
    BY <1>1, <1>2, <1>3
  <2>. QED BY <2>1, <2>2
<1>5. datos[x] \in [Sectores -> Buffers] /\ datos[y] \in [Sectores -> Buffers]
  BY DEF InvTipos, TypeOK, TipoHilos
<1>. QED BY <1>2, <1>3, <1>4, <1>5

LEMMA SpecCopia ==
    Regimen /\ EscribeEnReposo => (Spec => [](InvBase /\ InvRutas /\ InvCopia))
<1>. SUFFICES ASSUME Regimen, EscribeEnReposo
              PROVE  Spec => [](InvBase /\ InvRutas /\ InvCopia)
  OBVIOUS
<1>1. Spec => [](InvBase /\ InvRutas)
  BY SpecRutas
<1>2. InvBase /\ InvRutas /\ InvBase' /\ InvRutas' /\ InvCopia /\ [Next]_vars => InvCopia'
  BY CopiaPaso
<1>. QED BY <1>1, <1>2, CopiaInicial, PTL DEF Spec

\* The mirror.  While no disk falls and the VSK writes with the array at rest,
\* two synchronised disks with nothing left to write hold the same, whichever
\* disks are added, removed and come back, and at whatever pace each of them goes.
THEOREM EspejoSeguro == Regimen /\ EscribeEnReposo => (Spec => []EspejoIgual)
<1>1. InvBase /\ InvRutas /\ InvCopia => EspejoIgual
  BY EspejoDeCopia DEF InvBase
<1>. QED BY <1>1, SpecCopia, PTL

-----------------------------------------------------------------------------
(* The reads.  Each synchronised disk will hold, once it writes what is under  *)
(* way to it, the last write the VSK asked for of each sector; a read is asked *)
(* behind those writes, and sees them whichever disk answers each half.        *)

\* The operator leaves one synchronised disk at least.
QuedaAlguno == "quitar el ultimo" \notin Libertades

\* What the VSK wrote: the sectors of a write, that an acknowledged write was
\* asked for, that the writes under way are of it, and that all reach every disk.
Escrita(v, s) == v \in 1..Len(escritas) /\ s \in {escritas[v][1], escritas[v][2]}
UltimoEscrito == \A s \in Sectores : ultimo[s] > 0 => Escrita(ultimo[s], s)

EsDelVsk(m) == m.t \in {"PUT", "PUT_OK"} /\ m.id[1] = "put"
Numerados(q) == \A k \in 1..Len(q) : EsDelVsk(q[k]) => q[k].id[2] \in 1..Len(escritas)
PutsNumerados == \A c \in Conexiones : Numerados(aDisco[c]) /\ Numerados(deDisco[c])

EscritoEnTodos == \A i \in EnEstado(sDiscos, "SINCRONIZADO"), s \in Sectores, v \in Nat :
    Escrita(v, s) => \A x \in Quedara(sDiscos[i].hilo, s) : x.ver >= v
AlgunoQueda == escritas # <<>> => EnEstado(sDiscos, "SINCRONIZADO") # {}

InvEscritas == UltimoEscrito /\ PutsNumerados /\ EscritoEnTodos /\ AlgunoQueda

\* Who writes each history.
LEMMA HistoriaPaso ==
    ASSUME [Next]_vars
    PROVE  /\ UNCHANGED escritas \/ \E par \in Pares : VskPut(par)
           /\ UNCHANGED ultimo \/ \E c \in Conexiones : RespuestaPut(c)
           /\ UNCHANGED lecturas \/ \E par \in Pares : VskGet(par)
           /\ \/ UNCHANGED <<pedidos, respuestas>>
              \/ \E par \in Pares : VskGet(par)
              \/ \E c \in Conexiones : RespuestaUno(c) \/ RespuestaDos(c)
<1>. USE DEF historia
<1>1. ASSUME NEW d \in Discos, HandshakeDisco(d) \/ ConsolaEliminar(d) \/ ConsolaAgregar(d)
      PROVE  UNCHANGED <<escritas, ultimo, lecturas, pedidos, respuestas>>
  BY <1>1 DEF HandshakeDisco, ConsolaEliminar, ConsolaAgregar
<1>2. ASSUME NEW c \in Conexiones, Respuesta(c) \/ HiloInicia(c) \/ DiscoAtiende(c) \/ DiscoCae(c)
      PROVE  /\ UNCHANGED <<escritas, lecturas>>
             /\ UNCHANGED ultimo \/ RespuestaPut(c)
             /\ UNCHANGED <<pedidos, respuestas>> \/ RespuestaUno(c) \/ RespuestaDos(c)
  <2>1. CASE RespuestaSincronizacion(c) \/ AsociarHilo(c) \/ Desconexion(c)
    BY <2>1 DEF RespuestaSincronizacion, AsociarHilo, Desconexion
  <2>2. CASE ProtocoloIncorrecto(c) \/ RespuestaPut(c)
    BY <2>2 DEF ProtocoloIncorrecto, RespuestaPut
  <2>3. CASE RespuestaDos(c) \/ RespuestaUno(c)
    BY <2>3 DEF RespuestaDos, RespuestaUno
  <2>4. CASE HiloInicia(c) \/ DiscoAtiende(c) \/ DiscoCae(c)
    BY <2>4 DEF HiloInicia, DiscoAtiende, DiscoCae
  <2>. QED BY <1>2, <2>1, <2>2, <2>3, <2>4 DEF Respuesta
<1>3. CASE ConsolaIniciar \/ ConsolaDetener \/ ConsolaEstado \/ ConsolaSalir
  BY <1>3 DEF ConsolaIniciar, ConsolaDetener, ConsolaEstado, ConsolaSalir
<1>4. ASSUME NEW par \in Pares
      PROVE  /\ VskGet(par) => UNCHANGED <<escritas, ultimo>>
             /\ VskPut(par) => UNCHANGED <<ultimo, lecturas, pedidos, respuestas>>
  BY DEF VskGet, VskPut
<1>5. CASE VskDesconecta \/ SaleDelCiclo \/ Cierre \/ UNCHANGED vars
  BY <1>5 DEF VskDesconecta, SaleDelCiclo, Cierre, vars
<1>. QED BY <1>1, <1>2, <1>3, <1>4, <1>5 DEF Next, Consola, Vsk

-----------------------------------------------------------------------------
(* What was written *)

\* A synchronised disk stays, but for the console, which leaves one.
LEMMA EliminarDeja ==
    ASSUME InvTipos, QuedaAlguno, NEW d \in Discos, ConsolaEliminar(d),
           EnEstado(sDiscos, "SINCRONIZADO") # {}
    PROVE  EnEstado(sDiscos', "SINCRONIZADO") # {}
<1>0. sDiscos \in [Pos -> Lugar]
  BY DEF InvTipos, TypeOK, TipoTablas
<1>1. CASE UNCHANGED sDiscos
  BY <1>1
<1>2. ASSUME NEW i \in Pos, EnEstado(sDiscos, "SINCRONIZADO") # {i},
             sDiscos' = DesconectarLugar(sDiscos, i)
      PROVE  EnEstado(sDiscos', "SINCRONIZADO") # {}
  <2>1. PICK j \in EnEstado(sDiscos, "SINCRONIZADO") : j # i
    BY <1>2
  <2>2. j \in Pos /\ sDiscos'[j] = sDiscos[j] /\ sDiscos[j].estado = "SINCRONIZADO"
    BY <1>0, <1>2, <2>1 DEF DesconectarLugar, EnEstado
  <2>. QED BY <2>2 DEF EnEstado
<1>. QED BY <1>1, <1>2 DEF ConsolaEliminar, QuedaAlguno

LEMMA SincronizadoQueda ==
    ASSUME Regimen, InvBase, InvRutas, [Next]_vars,
           ~ \E d \in Discos : ConsolaEliminar(d),
           NEW i \in EnEstado(sDiscos, "SINCRONIZADO")
    PROVE  i \in EnEstado(sDiscos', "SINCRONIZADO")
<1>0. /\ InvTipos /\ InvFondo /\ InvTabla /\ InvSinc /\ InvLecturas /\ ColaContigua
      /\ Alcanza /\ AgregaConHilo
      /\ sDiscos \in [Pos -> Lugar] /\ i \in Pos /\ sDiscos[i].estado = "SINCRONIZADO"
  BY DEF InvBase, InvTipos, TypeOK, TipoTablas, Regimen, EnEstado
<1>00. UNCHANGED sDiscos => i \in EnEstado(sDiscos', "SINCRONIZADO")
  OBVIOUS
<1>1. CASE Sereno
  BY <1>0, <1>00, <1>1, SerenoEs
<1>2. ASSUME NEW d \in Discos, HandshakeDisco(d)
      PROVE  i \in EnEstado(sDiscos', "SINCRONIZADO")
  <2>1. CASE UNCHANGED sDiscos
    BY <1>00, <2>1
  <2>2. ASSUME NEW j \in Pos, NEW c \in Conexiones, HandshakeAceptado(d, c, j)
        PROVE  i \in EnEstado(sDiscos', "SINCRONIZADO")
    <3>1. sDiscos[j].nombre \in {d, NULO}
      BY <1>0, <2>2 DEF HandshakeAceptado, EsAsignado, EsPrimero, Nombrados, Disponibles,
                        InvTabla, LugarLibre
    <3>2. j # i
      BY <1>0, <1>2, <3>1, LugarSinPuente DEF HandshakeDisco, InvRutas, Sincro
    <3>3. sDiscos'[i] = sDiscos[i]
      BY <1>0, <2>2, <3>2 DEF HandshakeAceptado, AsignarDisco
    <3>. QED BY <1>0, <3>3 DEF EnEstado
  <2>. QED BY <1>2, <2>1, <2>2 DEF HandshakeDisco, HandshakeRechazado
<1>3. ASSUME NEW d \in Discos, ConsolaAgregar(d)
      PROVE  i \in EnEstado(sDiscos', "SINCRONIZADO")
  <2>1. CASE UNCHANGED sDiscos
    BY <1>00, <2>1
  <2>2. ASSUME NEW j \in Pos, Agrega(j)
        PROVE  i \in EnEstado(sDiscos', "SINCRONIZADO")
    <3>1. PICK e : sDiscos' = PonerEstado(sDiscos, j, e)
      BY <2>2 DEF Agrega, AgregaPrimera, AgregaEnCola, AgregaYEmpieza
    <3>2. j # i
      BY <1>0, <2>2 DEF Agrega
    <3>3. sDiscos'[i] = sDiscos[i]
      BY <1>0, <3>1, <3>2 DEF PonerEstado
    <3>. QED BY <1>0, <3>3 DEF EnEstado
  <2>. QED BY <1>0, <1>3, <2>1, <2>2, AgregarEs
<1>4. ASSUME NEW c \in Conexiones, AsociarHilo(c)
      PROVE  i \in EnEstado(sDiscos', "SINCRONIZADO")
  <2>1. CASE UNCHANGED sDiscos
    BY <1>00, <2>1
  <2>2. ASSUME NEW j \in Pos, sDiscos[j].nombre = Head(deDisco[c]).nombre,
               sDiscos' = AsociarSocketHilo(sDiscos, c, j)
        PROVE  i \in EnEstado(sDiscos', "SINCRONIZADO")
    <3>1. deDisco[c] # <<>> /\ Head(deDisco[c]).t = "HILO" /\ deDisco[c] \in Seq(DelDisco)
      BY <1>0, <1>4 DEF AsociarHilo, Llega, InvTipos, TypeOK, TipoHilos
    <3>2. Head(deDisco[c]) = deDisco[c][1] /\ 1 \in 1..Len(deDisco[c])
      BY <3>1
    <3>3. PorAnunciar(c) /\ sDiscos[j].nombre = hilo[c].disco
      BY <1>0, <2>2, <3>1, <3>2 DEF InvTabla, HiloDiceSuDisco, HiloDice, PorAnunciar, Avisa
    <3>4. sDiscos[j].estado = "CONECTADO"
      BY <3>3 DEF InvRutas, InvPuentes, SinRuta
    <3>5. j # i
      BY <1>0, <3>4
    <3>6. sDiscos'[i] = sDiscos[i]
      BY <1>0, <2>2, <3>5 DEF AsociarSocketHilo
    <3>. QED BY <1>0, <3>6 DEF EnEstado
  <2>. QED BY <1>4, <2>1, <2>2 DEF AsociarHilo, EsPrimero, Nombrados
<1>5. ASSUME NEW c \in Conexiones, RespuestaSincronizacion(c)
      PROVE  i \in EnEstado(sDiscos', "SINCRONIZADO")
  <2>1. \/ UNCHANGED sDiscos
        \/ sDiscos' = PonerEstado(sDiscos, cola[0].dest, "SINCRONIZADO")
    BY <1>0, <1>5, RespuestaEs DEF CopiaSigue, CopiaTermina
  <2>2. ASSUME sDiscos' = PonerEstado(sDiscos, cola[0].dest, "SINCRONIZADO")
        PROVE  i \in EnEstado(sDiscos', "SINCRONIZADO")
    <3>1. sDiscos'[i].estado = "SINCRONIZADO"
      BY <1>0, <2>2 DEF PonerEstado, Lugar
    <3>. QED BY <1>0, <3>1 DEF EnEstado
  <2>. QED BY <1>00, <2>1, <2>2
<1>6. ASSUME NEW c \in Conexiones, HiloInicia(c) \/ DiscoAtiende(c)
      PROVE  UNCHANGED sDiscos
  BY <1>6 DEF HiloInicia, DiscoAtiende, tabla
<1>7. CASE Cierre
  BY <1>0, <1>00, <1>7, CierreEs
<1>. QED BY <1>00, <1>1, <1>2, <1>3, <1>4, <1>5, <1>6, <1>7, PasosDelRegimen

LEMMA AlgunoPaso ==
    ASSUME Regimen, QuedaAlguno, EscribeEnReposo, InvBase, InvRutas, AlgunoQueda, [Next]_vars
    PROVE  AlgunoQueda'
<1>0. InvTipos
  BY DEF InvBase
<1>1. EnEstado(sDiscos, "SINCRONIZADO") # {} => EnEstado(sDiscos', "SINCRONIZADO") # {}
  BY <1>0, EliminarDeja, SincronizadoQueda
<1>2. UNCHANGED escritas \/ EnEstado(sDiscos, "SINCRONIZADO") # {}
  BY <1>0, HistoriaPaso, PutEnvia
<1>. QED BY <1>1, <1>2 DEF AlgunoQueda

\* The writes of the VSK under way were there before, or are the new one.
Trajo(q, r) == \A k \in 1..Len(r) : EsDelVsk(r[k]) => \E l \in 1..Len(q) : q[l] = r[k]

LEMMA TrajoLeido ==
    ASSUME InvTipos,
           \/ UNCHANGED deDisco
           \/ \E c \in Conexiones : deDisco[c] # <<>> /\ Recibir(c)
           \/ \E c \in Conexiones : deDisco' = [deDisco EXCEPT ![c] = <<>>]
           \/ \E c \in Conexiones : \E m : ~EsDelVsk(m) /\ Contestar(c, m),
           NEW c \in Conexiones
    PROVE  Trajo(deDisco[c], deDisco'[c])
<1>0. deDisco \in [Conexiones -> Seq(DelDisco)]
  BY DEF InvTipos, TypeOK, TipoHilos
<1>1. deDisco[c] \in Seq(DelDisco)
  BY <1>0
<1>2. PICK q \in Seq(DelDisco) : q = deDisco[c]
  BY <1>1
<1>3. Trajo(q, q) /\ Trajo(q, <<>>)
  BY DEF Trajo
<1>4. ASSUME q # <<>>
      PROVE  Trajo(q, Tail(q))
  <2>1. /\ Len(Tail(q)) = Len(q) - 1 /\ Len(q) \in Nat
        /\ \A k \in 1..Len(Tail(q)) : k + 1 \in 1..Len(q) /\ Tail(q)[k] = q[k + 1]
    BY <1>4
  <2>. QED BY <2>1 DEF Trajo
<1>5. ASSUME NEW m, ~EsDelVsk(m)
      PROVE  Trajo(q, Append(q, m))
  <2>1. /\ Len(q) \in Nat /\ Len(Append(q, m)) = Len(q) + 1
        /\ \A k \in 1..(Len(q) + 1) : Append(q, m)[k] = IF k = Len(q) + 1 THEN m ELSE q[k]
    OBVIOUS
  <2>2. ASSUME NEW k \in 1..Len(Append(q, m)), EsDelVsk(Append(q, m)[k])
        PROVE  k \in 1..Len(q) /\ q[k] = Append(q, m)[k]
    <3>1. k # Len(q) + 1
      BY <1>5, <2>1, <2>2
    <3>. QED BY <2>1, <2>2, <3>1
  <2>. QED BY <2>2 DEF Trajo
<1>6. CASE UNCHANGED deDisco
  BY <1>2, <1>3, <1>6
<1>7. ASSUME NEW d \in Conexiones, deDisco[d] # <<>>, Recibir(d)
      PROVE  Trajo(deDisco[c], deDisco'[c])
  <2>1. deDisco'[c] = IF c = d THEN Tail(deDisco[c]) ELSE deDisco[c]
    BY <1>0, <1>7 DEF Recibir
  <2>. QED BY <1>2, <1>3, <1>4, <1>7, <2>1
<1>8. ASSUME NEW d \in Conexiones, deDisco' = [deDisco EXCEPT ![d] = <<>>]
      PROVE  Trajo(deDisco[c], deDisco'[c])
  <2>1. deDisco'[c] = IF c = d THEN <<>> ELSE deDisco[c]
    BY <1>0, <1>8
  <2>. QED BY <1>2, <1>3, <2>1
<1>9. ASSUME NEW d \in Conexiones, NEW m, ~EsDelVsk(m), Contestar(d, m)
      PROVE  Trajo(deDisco[c], deDisco'[c])
  <2>1. deDisco'[c] = IF c = d THEN Append(deDisco[c], m) ELSE deDisco[c]
    BY <1>0, <1>9 DEF Contestar
  <2>. QED BY <1>2, <1>3, <1>5, <1>9, <2>1
<1>. QED BY <1>6, <1>7, <1>8, <1>9

LEMMA TrajoOrden ==
    ASSUME NEW q, NEW r, EnOrden(q, r),
           \A k \in 1..Len(r) : EsDelVsk(r[k]) => r[k].t = "PUT"
    PROVE  Trajo(q, r)
<1>1. PICK j \in Nat : Conserva(q, r, j, "put")
  BY DEF EnOrden
<1>. QED BY <1>1 DEF Conserva, De, Trajo

LEMMA TrajoEnviado ==
    ASSUME InvTipos, EnviaSinc, NEW c \in Conexiones
    PROVE  Trajo(aDisco[c], aDisco'[c])
<1>0. aDisco \in [Conexiones -> Seq(AlDisco)]
  BY DEF InvTipos, TypeOK, TipoHilos
<1>1. CASE UNCHANGED aDisco
  BY <1>1 DEF Trajo
<1>2. ASSUME NEW f \in [Conexiones -> Seq(AlDisco)], SoloDeConsola(f), NEW sigue, Enviar(f, sigue)
      PROVE  Trajo(aDisco[c], aDisco'[c])
  <2>. SUFFICES ASSUME NEW k \in 1..Len(aDisco'[c]), EsDelVsk(aDisco'[c][k])
                PROVE  k \in 1..Len(aDisco[c]) /\ aDisco'[c][k] = aDisco[c][k]
    BY DEF Trajo
  <2>1. \A l \in 1..Len(f[c]) : ~EsDelVsk(f[c][l])
    BY <1>2 DEF SoloDeConsola, EsDelVsk
  <2>. QED BY <1>0, <1>2, <2>1, EnviarOrigen
<1>. QED BY <1>1, <1>2 DEF EnviaSinc

PutsTraidos == \A c \in Conexiones : Trajo(aDisco[c], aDisco'[c]) /\ Trajo(deDisco[c], deDisco'[c])

LEMMA AlDiscoEscribe ==
    ASSUME NEW m \in AlDisco
    PROVE  EsDelVsk(m) => m.t = "PUT"
BY DEF AlDisco, Pedidos1, Pedidos2, Escrituras, EsDelVsk

LEMMA QuietoTrajo ==
    ASSUME InvTipos, InvTipos', PasoQuieto, NEW c \in Conexiones
    PROVE  Trajo(aDisco[c], aDisco'[c])
<1>1. aDisco'[c] \in Seq(AlDisco)
  BY DEF InvTipos, TypeOK, TipoHilos
<1>2. \A k \in 1..Len(aDisco'[c]) : EsDelVsk(aDisco'[c][k]) => aDisco'[c][k].t = "PUT"
  BY <1>1, AlDiscoEscribe
<1>. QED BY <1>2, TrajoOrden DEF PasoQuieto, SincEnOrden

LEMMA PutsTraidosPaso ==
    ASSUME Regimen, InvBase, InvRutas, InvBase', [Next]_vars,
           ~ \E par \in Pares : VskPut(par),
           ~ \E c \in Conexiones : DiscoAtiende(c)
    PROVE  PutsTraidos
<1>0. /\ InvTipos /\ InvTipos' /\ InvFondo /\ InvTabla /\ InvSinc /\ InvLecturas /\ ColaContigua
      /\ Alcanza /\ AgregaConHilo /\ DeConsola(cola) /\ CanalesLlenos
  BY DEF InvBase, Regimen, InvFondo, Llenos
<1>1. ASSUME PasoQuieto, \A c \in Conexiones : Trajo(deDisco[c], deDisco'[c])
      PROVE  PutsTraidos
  BY <1>0, <1>1, QuietoTrajo DEF PutsTraidos
<1>2. CASE Sereno
  <2>1. PasoQuieto
    BY <1>0, <1>2, SerenoQuieto
  <2>. QED BY <1>0, <1>1, <1>2, <2>1, SerenoEs, TrajoLeido
<1>3. ASSUME NEW d \in Discos, HandshakeDisco(d)
      PROVE  PutsTraidos
  <2>1. UNCHANGED deDisco
    BY <1>3 DEF HandshakeDisco
  <2>. QED BY <1>0, <1>1, <1>3, <2>1, HandshakeQuieto, TrajoLeido
<1>4. ASSUME NEW d \in Discos, ConsolaEliminar(d)
      PROVE  PutsTraidos
  <2>1. CASE UNCHANGED <<sDiscos, cola, hilo, aDisco, deDisco, datos>>
    <3>1. Sereno
      BY <2>1 DEF Sereno
    <3>. QED BY <1>2, <3>1
  <2>2. ASSUME NEW i \in Pos, Quita(i)
        PROVE  PutsTraidos
    <3>1. \/ UNCHANGED deDisco
          \/ \E c \in Conexiones : deDisco' = [deDisco EXCEPT ![c] = <<>>]
      BY <2>2 DEF Quita, EliminaPuente
    <3>. QED BY <1>0, <1>1, <2>2, <3>1, QuitaQuieto, TrajoLeido
  <2>. QED BY <1>4, <2>1, <2>2, EliminarEs
<1>5. ASSUME \/ \E d \in Discos : ConsolaAgregar(d)
             \/ Cierre
             \/ \E c \in Conexiones : RespuestaSincronizacion(c)
      PROVE  PutsTraidos
  <2>1. EnviaSinc
    BY <1>0, <1>5, AgregarEnvia, CierreEnvia, RespuestaEnvia
  <2>2. UNCHANGED deDisco \/ \E c \in Conexiones : deDisco[c] # <<>> /\ Recibir(c)
    BY <1>0, <1>5, RespuestaSincEs DEF ConsolaAgregar, Cierre
  <2>. QED BY <1>0, <2>1, <2>2, TrajoEnviado, TrajoLeido DEF PutsTraidos
<1>6. ASSUME NEW c \in Conexiones, AsociarHilo(c)
      PROVE  PutsTraidos
  <2>1. deDisco[c] # <<>> /\ Recibir(c)
    BY <1>6 DEF AsociarHilo, Llega
  <2>. QED BY <1>0, <1>1, <1>6, <2>1, AsociarQuieto, TrajoLeido
<1>7. ASSUME NEW c \in Conexiones, HiloInicia(c)
      PROVE  PutsTraidos
  <2>1. UNCHANGED deDisco \/ \E m : ~EsDelVsk(m) /\ Contestar(c, m)
    BY <1>7 DEF HiloInicia, EsDelVsk
  <2>. QED BY <1>0, <1>1, <1>7, <2>1, IniciaQuieto, TrajoLeido
<1>. QED BY <1>2, <1>3, <1>4, <1>5, <1>6, <1>7, PasosDelRegimen

LEMMA PutsVskPut ==
    ASSUME InvTipos, EscribeEnReposo, PutsNumerados, NEW par \in Pares, VskPut(par)
    PROVE  PutsNumerados'
<1>0. /\ aDisco \in [Conexiones -> Seq(AlDisco)] /\ escritas \in Seq(Sectores \X Sectores)
      /\ par \in Sectores \X Sectores
  BY EntornoAssumption DEF InvTipos, TypeOK, TipoHilos, TipoHistoria
<1>1. UNCHANGED deDisco /\ escritas' = Append(escritas, par)
  BY PutEnvia
<1>2. PICK m \in AlDisco, f \in [Conexiones -> Seq(AlDisco)] :
         /\ EsDelPar(m, par) /\ \E p : Enviar(f, p)
         /\ \A c \in Conexiones : f[c] \in {<<m>>, <<>>}
  BY PutEnvia
<1>3. Len(escritas) \in Nat /\ Len(escritas') = Len(escritas) + 1
  BY <1>0, <1>1
<1>4. ASSUME NEW c \in Conexiones, NEW k \in 1..Len(aDisco'[c]), EsDelVsk(aDisco'[c][k])
      PROVE  aDisco'[c][k].id[2] \in 1..Len(escritas')
  <2>1. \A l \in 1..Len(f[c]) : f[c][l] = m
    BY <1>2
  <2>2. m.id[2] = Len(escritas) + 1
    BY <1>2 DEF EsDelPar
  <2>3. \/ k \in 1..Len(aDisco[c]) /\ aDisco'[c][k] = aDisco[c][k]
        \/ aDisco'[c][k] = m
    BY <1>0, <1>2, <2>1, EnviarOrigen
  <2>4. aDisco'[c][k].id[2] \in 1..Len(escritas) \/ aDisco'[c][k].id[2] = Len(escritas) + 1
    BY <1>4, <2>2, <2>3 DEF PutsNumerados, Numerados
  <2>. QED BY <1>3, <2>4
<1>5. \A c \in Conexiones : Numerados(deDisco[c])'
  BY <1>1, <1>3 DEF PutsNumerados, Numerados
<1>. QED BY <1>4, <1>5 DEF PutsNumerados, Numerados

LEMMA PutsDisco ==
    ASSUME InvTipos, PutsNumerados, NEW c \in Conexiones, DiscoAtiende(c)
    PROVE  PutsNumerados'
<1>0. /\ aDisco \in [Conexiones -> Seq(AlDisco)] /\ deDisco \in [Conexiones -> Seq(DelDisco)]
      /\ datos \in [Discos -> [Sectores -> Buffers]] /\ UNCHANGED escritas
  BY DEF InvTipos, TypeOK, TipoHilos, DiscoAtiende, historia
<1>1. \A d \in Conexiones : Numerados(aDisco[d])'
  <2>. SUFFICES ASSUME NEW d \in Conexiones, NEW k \in 1..Len(aDisco'[d]), EsDelVsk(aDisco'[d][k])
                PROVE  aDisco'[d][k].id[2] \in 1..Len(escritas)
    BY <1>0 DEF Numerados
  <2>1. \E l \in 1..Len(aDisco[d]) : aDisco'[d][k] = aDisco[d][l]
    BY DiscoOrigen
  <2>. QED BY <2>1 DEF PutsNumerados, Numerados
<1>2. ASSUME NEW d \in Conexiones, NEW k \in 1..Len(deDisco'[d]), EsDelVsk(deDisco'[d][k])
      PROVE  deDisco'[d][k].id[2] \in 1..Len(escritas)
  <2>1. CASE k \in 1..Len(deDisco[d]) /\ deDisco'[d][k] = deDisco[d][k]
    BY <1>2, <2>1 DEF PutsNumerados, Numerados
  <2>2. CASE d = c /\ deDisco'[c][k] = Servir(aDisco[c][1], datos[hilo[c].disco])
    <3>1. PICK m \in AlDisco : m = aDisco[c][1]
      BY <1>0, DiscoOrigen
    <3>2. EsDelVsk(Servir(m, datos[hilo[c].disco]))
      BY <1>2, <2>2, <3>1
    <3>3. m.t = "PUT" /\ Servir(m, datos[hilo[c].disco]).id = m.id
      BY <3>2 DEF Servir, EsDelVsk, AlDisco, Pedidos1, Pedidos2, Escrituras
    <3>4. EsDelVsk(m) /\ 1 \in 1..Len(aDisco[c])
      BY <3>2, <3>3, DiscoOrigen DEF EsDelVsk
    <3>. QED BY <2>2, <3>1, <3>3, <3>4 DEF PutsNumerados, Numerados
  <2>. QED BY <2>1, <2>2, DiscoOrigen
<1>. QED BY <1>0, <1>1, <1>2 DEF PutsNumerados, Numerados

LEMMA PutsPaso ==
    ASSUME Regimen, EscribeEnReposo, InvBase, InvRutas, InvBase', PutsNumerados, [Next]_vars
    PROVE  PutsNumerados'
<1>0. InvTipos
  BY DEF InvBase
<1>1. CASE \E par \in Pares : VskPut(par)
  BY <1>0, <1>1, PutsVskPut
<1>2. CASE \E c \in Conexiones : DiscoAtiende(c)
  BY <1>0, <1>2, PutsDisco
<1>3. CASE (~ \E par \in Pares : VskPut(par)) /\ ~ \E c \in Conexiones : DiscoAtiende(c)
  <2>1. PutsTraidos
    BY <1>3, PutsTraidosPaso
  <2>2. UNCHANGED escritas
    BY <1>3, HistoriaPaso
  <2>. QED BY <2>1, <2>2 DEF PutsTraidos, PutsNumerados, Numerados, Trajo
<1>. QED BY <1>1, <1>2, <1>3

\* An acknowledged write was asked for.
LEMMA UltimoPaso ==
    ASSUME InvTipos, EscribeEnReposo, UltimoEscrito, PutsNumerados, [Next]_vars
    PROVE  UltimoEscrito'
<1>0. /\ escritas \in Seq(Sectores \X Sectores) /\ ultimo \in [Sectores -> Nat]
      /\ deDisco \in [Conexiones -> Seq(DelDisco)]
  BY DEF InvTipos, TypeOK, TipoHilos, TipoHistoria
<1>1. \A v, s : Escrita(v, s) => Escrita(v, s)'
  <2>1. CASE UNCHANGED escritas
    BY <2>1 DEF Escrita
  <2>2. ASSUME NEW par \in Pares, VskPut(par)
        PROVE  \A v, s : Escrita(v, s) => Escrita(v, s)'
    <3>1. escritas' = Append(escritas, par)
      BY <2>2, PutEnvia
    <3>2. /\ Len(escritas) \in Nat /\ Len(escritas') = Len(escritas) + 1
          /\ \A v \in 1..Len(escritas) : escritas'[v] = escritas[v]
      BY <1>0, <3>1
    <3>. QED BY <3>2 DEF Escrita
  <2>. QED BY <2>1, <2>2, HistoriaPaso
<1>2. CASE UNCHANGED ultimo
  BY <1>1, <1>2 DEF UltimoEscrito
<1>3. ASSUME NEW c \in Conexiones, RespuestaPut(c), NEW s \in Sectores, ultimo'[s] > 0
      PROVE  Escrita(ultimo'[s], s)
  <2>1. PICK m : m = Head(deDisco[c])
    OBVIOUS
  <2>2. deDisco[c] # <<>> /\ m.t = "PUT_OK"
    BY <1>3, <2>1 DEF RespuestaPut, Llega
  <2>3. m = deDisco[c][1] /\ 1 \in 1..Len(deDisco[c])
    BY <1>0, <2>1, <2>2
  <2>4. \/ ultimo'[s] = ultimo[s]
        \/ /\ ultimo'[s] = m.id[2] /\ m.id[1] = "put"
           /\ s \in {escritas[m.id[2]][1], escritas[m.id[2]][2]}
    BY <1>3, <2>1 DEF RespuestaPut
  <2>5. CASE ultimo'[s] = ultimo[s]
    BY <1>3, <2>5 DEF UltimoEscrito
  <2>6. CASE /\ ultimo'[s] = m.id[2] /\ m.id[1] = "put"
             /\ s \in {escritas[m.id[2]][1], escritas[m.id[2]][2]}
    <3>1. m.id[2] \in 1..Len(escritas)
      BY <2>2, <2>3, <2>6 DEF PutsNumerados, Numerados, EsDelVsk
    <3>. QED BY <2>6, <3>1 DEF Escrita
  <2>. QED BY <2>4, <2>5, <2>6
<1>4. ASSUME NEW c \in Conexiones, RespuestaPut(c)
      PROVE  UltimoEscrito'
  BY <1>1, <1>3, <1>4 DEF UltimoEscrito
<1>. QED BY <1>2, <1>4, HistoriaPaso

\* But for a write and for the first disk of all, each synchronised disk will
\* hold what a synchronised disk would have held.
Hereda == \A i \in EnEstado(sDiscos', "SINCRONIZADO") :
    \E j \in EnEstado(sDiscos, "SINCRONIZADO") : \A s \in Sectores :
        Quedaran(sDiscos'[i].hilo, s) = Quedara(sDiscos[j].hilo, s)

LEMMA HeredaQuieto ==
    ASSUME InvTipos, InvRutas, InvRutas', InvCopia, RutasFijas, QuedaIgual
    PROVE  Hereda
<1>1. ASSUME NEW i \in Pos, sDiscos'[i].estado = "SINCRONIZADO"
      PROVE  /\ i \in EnEstado(sDiscos, "SINCRONIZADO")
             /\ \A s \in Sectores : Quedaran(sDiscos'[i].hilo, s) = Quedara(sDiscos[i].hilo, s)
  <2>1. sDiscos[i].estado = "SINCRONIZADO"
    BY <1>1 DEF RutasFijas
  <2>. QED BY <1>1, <2>1, LadosQuedan DEF InvCopia, EnEstado, Sincro
<1>. QED BY <1>1 DEF Hereda, EnEstado

LEMMA HeredaPaso ==
    ASSUME Regimen, InvBase, InvRutas, InvCopia, InvBase', InvRutas', [Next]_vars,
           ~ \E par \in Pares : VskPut(par)
    PROVE  Hereda \/ \E i \in Pos : AgregaPrimera(i)
<1>0. /\ InvTipos /\ Alcanza /\ AgregaConHilo
  BY DEF InvBase, Regimen
<1>1. PasoQuieto => Hereda
  BY <1>0, HeredaQuieto DEF PasoQuieto
<1>2. ASSUME Sereno
      PROVE  Hereda
  BY <1>0, <1>1, <1>2, SerenoQuieto
<1>3. ASSUME NEW d \in Discos, HandshakeDisco(d)
      PROVE  Hereda
  BY <1>1, <1>3, HandshakeQuieto
<1>4. ASSUME NEW d \in Discos, ConsolaAgregar(d)
      PROVE  Hereda \/ \E i \in Pos : AgregaPrimera(i)
  BY <1>0, <1>1, <1>4, AgregarLados, HeredaQuieto
<1>5. ASSUME NEW d \in Discos, ConsolaEliminar(d)
      PROVE  Hereda
  <2>1. CASE UNCHANGED <<sDiscos, cola, hilo, aDisco, deDisco, datos>>
    <3>1. Sereno
      BY <2>1 DEF Sereno
    <3>. QED BY <1>2, <3>1
  <2>. QED BY <1>1, <1>5, <2>1, EliminarEs, QuitaQuieto
<1>6. ASSUME NEW c \in Conexiones, AsociarHilo(c) \/ HiloInicia(c)
      PROVE  Hereda
  BY <1>1, <1>6, AsociarQuieto, IniciaQuieto
<1>7. ASSUME NEW c \in Conexiones, RespuestaSincronizacion(c)
      PROVE  Hereda
  <2>1. Orig.estado = "SINCRONIZADO" /\ HeredanDe(Orig.hilo)
    BY <1>7, RespuestaCopia
  <2>2. cola[0].orig \in EnEstado(sDiscos, "SINCRONIZADO")
    BY <1>0, <2>1, EntradaEnTabla DEF EnEstado, Orig
  <2>. QED BY <2>1, <2>2 DEF Hereda, HeredanDe, EnEstado, Orig
<1>8. ASSUME NEW c \in Conexiones, DiscoAtiende(c)
      PROVE  Hereda
  <2>1. UNCHANGED sDiscos
    BY <1>8 DEF DiscoAtiende, tabla
  <2>2. RutasFijas
    BY <2>1 DEF RutasFijas
  <2>. QED BY <1>0, <1>8, <2>2, DiscoQueda, HeredaQuieto
<1>9. CASE Cierre
  BY <1>1, <1>9, CierreQuieto
<1>. QED BY <1>2, <1>3, <1>4, <1>5, <1>6, <1>7, <1>8, <1>9, PasosDelRegimen

LEMMA EscritoVskPut ==
    ASSUME InvTipos, InvRutas, EscribeEnReposo, EscritoEnTodos, NEW par \in Pares, VskPut(par)
    PROVE  EscritoEnTodos'
<1>0. escritas \in Seq(Sectores \X Sectores) /\ par \in Sectores \X Sectores
  BY EntornoAssumption DEF InvTipos, TypeOK, TipoHistoria
<1>1. UNCHANGED <<sDiscos, hilo, datos>> /\ escritas' = Append(escritas, par)
  BY PutEnvia
<1>2. PICK m \in AlDisco, f \in [Conexiones -> Seq(AlDisco)] :
         /\ EsDelPar(m, par) /\ \E p : Enviar(f, p)
         /\ \A i \in Pos : sDiscos[i].hilo \in Conexiones => f[sDiscos[i].hilo] = <<m>>
  BY PutEnvia
<1>3. \A i \in Pos, s \in Sectores : sDiscos[i].estado = "SINCRONIZADO" =>
         Quedaran(sDiscos[i].hilo, s) =
            IF Escribe(m, s) THEN {Deja(m, s)} ELSE Quedara(sDiscos[i].hilo, s)
  BY <1>1, <1>2, PutQueda DEF EsDelPar
<1>4. /\ Len(escritas) \in Nat /\ Len(escritas') = Len(escritas) + 1
      /\ \A v \in 1..Len(escritas) : escritas'[v] = escritas[v]
      /\ escritas'[Len(escritas) + 1] = par
  BY <1>0, <1>1
<1>5. ASSUME NEW i \in Pos, sDiscos[i].estado = "SINCRONIZADO", NEW s \in Sectores,
             NEW v \in Nat, Escrita(v, s)', NEW x \in Quedaran(sDiscos[i].hilo, s)
      PROVE  x.ver >= v
  <2>1. v \in 1..(Len(escritas) + 1)
    BY <1>4, <1>5 DEF Escrita
  <2>2. CASE Escribe(m, s)
    <3>0. Quedaran(sDiscos[i].hilo, s) = {Deja(m, s)}
      BY <1>3, <1>5, <2>2
    <3>1. x = Deja(m, s)
      BY <1>5, <3>0
    <3>2. x.ver = Len(escritas) + 1
      BY <1>2, <3>1 DEF EsDelPar, Deja
    <3>. QED BY <1>4, <2>1, <3>2
  <2>3. CASE ~Escribe(m, s)
    <3>1. x \in Quedara(sDiscos[i].hilo, s)
      BY <1>3, <1>5, <2>3
    <3>2. s \notin {par[1], par[2]}
      BY <1>2, <2>3 DEF EsDelPar, Escribe
    <3>3. v # Len(escritas) + 1
      BY <1>4, <1>5, <3>2 DEF Escrita
    <3>4. v \in 1..Len(escritas)
      BY <1>4, <2>1, <3>3
    <3>5. Escrita(v, s)
      BY <1>4, <1>5, <3>4 DEF Escrita
    <3>. QED BY <1>5, <3>1, <3>5 DEF EscritoEnTodos, EnEstado
  <2>. QED BY <2>2, <2>3
<1>6. \A c, s : Quedara(c, s)' = Quedaran(c, s)
  BY DEF Quedara, Quedaran
<1>. QED BY <1>1, <1>5, <1>6 DEF EscritoEnTodos, EnEstado

LEMMA EscritoPaso ==
    ASSUME Regimen, EscribeEnReposo, InvBase, InvRutas, InvCopia, InvBase', InvRutas',
           EscritoEnTodos, AlgunoQueda, [Next]_vars
    PROVE  EscritoEnTodos'
<1>0. InvTipos /\ escritas \in Seq(Sectores \X Sectores)
  BY DEF InvBase, InvTipos, TypeOK, TipoHistoria
<1>1. \A c, s : Quedara(c, s)' = Quedaran(c, s)
  BY DEF Quedara, Quedaran
<1>2. CASE \E par \in Pares : VskPut(par)
  BY <1>0, <1>2, EscritoVskPut
<1>3. CASE ~ \E par \in Pares : VskPut(par)
  <2>1. UNCHANGED escritas
    BY <1>3, HistoriaPaso
  <2>2. CASE Hereda
    BY <1>1, <2>1, <2>2 DEF EscritoEnTodos, Escrita, Hereda
  <2>3. ASSUME NEW i \in Pos, AgregaPrimera(i)
        PROVE  EscritoEnTodos'
    <3>1. escritas = <<>>
      BY <2>3 DEF AgregaPrimera, AlgunoQueda
    <3>2. \A s : \A v \in Nat : ~Escrita(v, s)'
      BY <2>1, <3>1 DEF Escrita
    <3>. QED BY <3>2 DEF EscritoEnTodos
  <2>. QED BY <1>3, <2>2, <2>3, HeredaPaso
<1>. QED BY <1>2, <1>3

LEMMA EscritasPaso ==
    ASSUME Regimen, EscribeEnReposo, QuedaAlguno, InvBase, InvRutas, InvCopia,
           InvBase', InvRutas', InvEscritas, [Next]_vars
    PROVE  InvEscritas'
<1>0. InvTipos
  BY DEF InvBase
<1>. QED BY <1>0, UltimoPaso, PutsPaso, EscritoPaso, AlgunoPaso DEF InvEscritas

LEMMA EscritasInicial == Init => InvEscritas
BY DEF Init, InvEscritas, UltimoEscrito, PutsNumerados, Numerados, EscritoEnTodos, AlgunoQueda,
       Escrita

-----------------------------------------------------------------------------
(* What the reads see *)

\* Content x of sector s is what read r must see, or later.
Ve(r, s, x) == /\ s = r.s1 /\ r.v1 > 0 => x.ver >= r.v1
               /\ s = r.s2 /\ r.v2 > 0 => x.ver >= r.v2
VeSuyo(r, x) == x \in Contenidos => Ve(r, x.sec, x)

\* What sector s will hold when the disk behind c reads message k.
Antes(c, k, s) == Quedan(SubSeq(aDisco[c], 1, k - 1), datos[hilo[c].disco], s)

SinPedidos == \A c \in Conexiones : hilo[c].fase \in {"libre", "nueva"} => aDisco[c] = <<>>
PorLeer == \A c \in Conexiones, k \in Nat, n \in Numeros :
    hilo[c].fase = "activa" /\ LecEn(c, "ida", k, n) =>
        \A s \in Sectores : \A x \in Antes(c, k, s) : Ve(lecturas[n], s, x)
Leidas == \A c \in Conexiones, k \in Nat, n \in Numeros : LecEn(c, "vuelta", k, n) =>
    /\ VeSuyo(lecturas[n], deDisco[c][k].d1)
    /\ deDisco[c][k].t = "RTA" => VeSuyo(lecturas[n], deDisco[c][k].d2)
EnTabla == \A e \in Entradas, n \in Numeros : pedidos[e].id = <<"get", n>> =>
    VeSuyo(lecturas[n], pedidos[e].d1) /\ VeSuyo(lecturas[n], pedidos[e].d2)
Dadas == \A n \in Numeros : \A k \in 1..Len(respuestas[n]) :
    VeSuyo(lecturas[n], respuestas[n][k].d1) /\ VeSuyo(lecturas[n], respuestas[n][k].d2)

InvVistas == SinPedidos /\ PorLeer /\ Leidas /\ EnTabla /\ Dadas

\* But for a read and a disk, a step leaves what was asked of a disk, behind which
\* it may ask for more, or leaves nothing.
SinLecturas(g) == \A k \in 1..Len(g) : ~De(g[k], "get")
PedidosSiguenEn(c) ==
    /\ hilo'[c].fase \in {"libre", "nueva"} => aDisco'[c] = <<>>
    /\ hilo'[c].fase = "activa" =>
          \/ aDisco'[c] = <<>>
          \/ /\ hilo[c].fase = "activa" /\ hilo'[c].disco = hilo[c].disco /\ UNCHANGED datos
             /\ \E g \in Seq(AlDisco) : aDisco'[c] = aDisco[c] \o g /\ SinLecturas(g)

LEMMA SigueQuieto ==
    ASSUME InvTipos, SinPedidos, NEW c \in Conexiones, hilo'[c] = hilo[c],
           aDisco'[c] = aDisco[c], UNCHANGED datos
    PROVE  PedidosSiguenEn(c)
<1>1. aDisco[c] \in Seq(AlDisco)
  BY DEF InvTipos, TypeOK, TipoHilos
<1>2. aDisco[c] = aDisco[c] \o <<>> /\ <<>> \in Seq(AlDisco) /\ SinLecturas(<<>>)
  BY <1>1 DEF SinLecturas
<1>. QED BY <1>2 DEF PedidosSiguenEn, SinPedidos

LEMMA SigueEnviado ==
    ASSUME InvTipos, SinPedidos, NEW f \in [Conexiones -> Seq(AlDisco)], NEW p, Enviar(f, p),
           UNCHANGED <<hilo, datos>>, NEW c \in Conexiones, SinLecturas(f[c])
    PROVE  PedidosSiguenEn(c)
<1>1. aDisco'[c] = IF hilo[c].fase = "activa" THEN aDisco[c] \o f[c] ELSE aDisco[c]
  BY DEF Enviar
<1>2. f[c] \in Seq(AlDisco)
  OBVIOUS
<1>3. CASE hilo[c].fase = "activa"
  BY <1>1, <1>2, <1>3 DEF PedidosSiguenEn
<1>4. CASE hilo[c].fase # "activa"
  BY <1>1, <1>4, SigueQuieto
<1>. QED BY <1>3, <1>4

LEMMA SigueSereno ==
    ASSUME InvFondo, InvLecturas, Alcanza, EscribeEnReposo, SinPedidos, Sereno,
           ~ \E par \in Pares : VskGet(par), NEW c \in Conexiones
    PROVE  PedidosSiguenEn(c)
<1>0. InvTipos /\ UNCHANGED <<hilo, datos>>
  BY SerenoEs DEF InvFondo
<1>1. ASSUME NEW par \in Pares, VskPut(par)
      PROVE  PedidosSiguenEn(c)
  <2>1. PICK m \in AlDisco, f \in [Conexiones -> Seq(AlDisco)] :
           /\ EsDelPar(m, par) /\ \E p : Enviar(f, p)
           /\ \A x \in Conexiones : f[x] \in {<<m>>, <<>>}
    BY <1>0, <1>1, PutEnvia
  <2>2. ~De(m, "get")
    BY <2>1 DEF EsDelPar, De
  <2>3. SinLecturas(f[c])
    <3>1. SinLecturas(<<m>>) /\ SinLecturas(<<>>)
      BY <2>2 DEF SinLecturas
    <3>. QED BY <2>1, <3>1
  <2>. QED BY <1>0, <2>1, <2>3, SigueEnviado
<1>2. ASSUME ~ \E par \in Pares : VskPut(par)
      PROVE  UNCHANGED aDisco
  <2>1. ASSUME NEW x \in Conexiones, RespuestaDos(x) \/ RespuestaUno(x) \/ RespuestaPut(x)
        PROVE  UNCHANGED aDisco
    BY <2>1 DEF RespuestaDos, RespuestaUno, RespuestaPut
  <2>2. CASE \/ ConsolaIniciar \/ ConsolaDetener \/ ConsolaEstado \/ ConsolaSalir
             \/ VskDesconecta \/ SaleDelCiclo
    BY <2>2 DEF ConsolaIniciar, ConsolaDetener, ConsolaEstado, ConsolaSalir, VskDesconecta,
                SaleDelCiclo, canales
  <2>. QED BY <1>2, <2>1, <2>2 DEF Sereno
<1>. QED BY <1>0, <1>1, <1>2, SigueQuieto

LEMMA PedidosSiguenPaso ==
    ASSUME Regimen, EscribeEnReposo, InvBase, InvRutas, SinPedidos, [Next]_vars,
           ~ \E par \in Pares : VskGet(par), ~ \E c \in Conexiones : DiscoAtiende(c),
           NEW c \in Conexiones
    PROVE  PedidosSiguenEn(c)
<1>0. /\ InvTipos /\ InvFondo /\ InvTabla /\ InvSinc /\ InvLecturas /\ ColaContigua
      /\ Alcanza /\ AgregaConHilo /\ DeConsola(cola) /\ CanalesLlenos
      /\ hilo \in [Conexiones -> Hilos] /\ aDisco \in [Conexiones -> Seq(AlDisco)]
  BY DEF InvBase, Regimen, InvFondo, Llenos, InvTipos, TypeOK, TipoHilos
<1>1. ASSUME Sereno
      PROVE  PedidosSiguenEn(c)
  BY <1>0, <1>1, SigueSereno
<1>2. ASSUME NEW d \in Discos, HandshakeDisco(d)
      PROVE  PedidosSiguenEn(c)
  <2>0. UNCHANGED datos
    BY <1>2 DEF HandshakeDisco
  <2>1. CASE UNCHANGED <<sDiscos, hilo, aDisco>>
    BY <1>0, <2>0, <2>1, SigueQuieto
  <2>2. ASSUME NEW x \in Conexiones, NEW i \in Pos, hilo[x].fase = "libre", HandshakeAceptado(d, x, i)
        PROVE  PedidosSiguenEn(c)
    <3>1. aDisco'[c] = <<>> \/ aDisco'[c] = aDisco[c]
      BY <2>2 DEF HandshakeAceptado
    <3>2. hilo'[c] = hilo[c] \/ (c = x /\ hilo'[c].fase = "nueva")
      BY <1>0, <2>2 DEF HandshakeAceptado
    <3>3. CASE aDisco'[c] = <<>>
      BY <3>3 DEF PedidosSiguenEn
    <3>4. CASE hilo'[c] = hilo[c] /\ aDisco'[c] = aDisco[c]
      BY <1>0, <2>0, <3>4, SigueQuieto
    <3>5. CASE c = x /\ aDisco'[c] = aDisco[c]
      BY <2>2, <3>3, <3>5 DEF SinPedidos
    <3>. QED BY <3>1, <3>2, <3>3, <3>4, <3>5
  <2>. QED BY <1>2, <2>1, <2>2 DEF HandshakeDisco, HandshakeRechazado
<1>3. ASSUME NEW d \in Discos, ConsolaEliminar(d)
      PROVE  PedidosSiguenEn(c)
  <2>1. CASE UNCHANGED <<sDiscos, cola, hilo, aDisco, deDisco, datos>>
    BY <1>0, <2>1, SigueQuieto
  <2>2. ASSUME NEW i \in Pos, Quita(i)
        PROVE  PedidosSiguenEn(c)
    <3>0. UNCHANGED datos
      BY <2>2 DEF Quita
    <3>1. \/ hilo'[c] = hilo[c] /\ aDisco'[c] = aDisco[c]
          \/ hilo'[c].fase = "cerrada"
      BY <1>0, <2>2 DEF Quita, EliminaPuente, Hilos
    <3>. QED BY <1>0, <3>0, <3>1, SigueQuieto DEF PedidosSiguenEn
  <2>. QED BY <1>3, <2>1, <2>2, EliminarEs
<1>4. ASSUME \/ \E d \in Discos : ConsolaAgregar(d)
             \/ Cierre
             \/ \E x \in Conexiones : RespuestaSincronizacion(x)
      PROVE  PedidosSiguenEn(c)
  <2>1. EnviaSinc
    BY <1>0, <1>4, AgregarEnvia, CierreEnvia, RespuestaEnvia
  <2>2. UNCHANGED <<hilo, datos>>
    BY <1>4 DEF ConsolaAgregar, Cierre, RespuestaSincronizacion
  <2>3. CASE UNCHANGED aDisco
    BY <1>0, <2>2, <2>3, SigueQuieto
  <2>4. ASSUME NEW f \in [Conexiones -> Seq(AlDisco)], SoloDeConsola(f), NEW p, Enviar(f, p)
        PROVE  PedidosSiguenEn(c)
    <3>1. SinLecturas(f[c])
      BY <2>4 DEF SoloDeConsola, SinLecturas, De
    <3>. QED BY <1>0, <2>2, <2>4, <3>1, SigueEnviado
  <2>. QED BY <2>1, <2>3, <2>4 DEF EnviaSinc
<1>5. ASSUME NEW x \in Conexiones, AsociarHilo(x)
      PROVE  PedidosSiguenEn(c)
  BY <1>0, <1>5, SigueQuieto DEF AsociarHilo
<1>6. ASSUME NEW x \in Conexiones, HiloInicia(x)
      PROVE  PedidosSiguenEn(c)
  <2>1. UNCHANGED <<aDisco, datos>> /\ hilo[x].fase = "nueva"
    BY <1>6 DEF HiloInicia
  <2>2. c # x => hilo'[c] = hilo[c]
    BY <1>0, <1>6 DEF HiloInicia
  <2>3. c = x => aDisco'[c] = <<>>
    BY <2>1 DEF SinPedidos
  <2>. QED BY <1>0, <2>1, <2>2, <2>3, SigueQuieto DEF PedidosSiguenEn
<1>. QED BY <1>1, <1>2, <1>3, <1>4, <1>5, <1>6, PasosDelRegimen

\* A queue looked at up to message k does not see what comes behind.
LEMMA PrefijoIgual ==
    ASSUME NEW S, NEW q \in Seq(S), NEW g \in Seq(S), NEW k \in 1..(Len(q) + 1)
    PROVE  SubSeq(q \o g, 1, k - 1) = SubSeq(q, 1, k - 1)
<1>1. /\ Len(q) \in Nat /\ Len(g) \in Nat /\ Len(q \o g) = Len(q) + Len(g)
      /\ \A j \in 1..Len(q) : (q \o g)[j] = q[j]
      /\ k - 1 \in 0..Len(q) /\ q \o g \in Seq(S)
  BY JuntaDice
<1>2. /\ SubSeq(q \o g, 1, k - 1) \in Seq(S) /\ Len(SubSeq(q \o g, 1, k - 1)) = k - 1
      /\ \A j \in 1..(k - 1) : SubSeq(q \o g, 1, k - 1)[j] = (q \o g)[j]
  BY <1>1
<1>3. /\ SubSeq(q, 1, k - 1) \in Seq(S) /\ Len(SubSeq(q, 1, k - 1)) = k - 1
      /\ \A j \in 1..(k - 1) : SubSeq(q, 1, k - 1)[j] = q[j]
  BY <1>1
<1>4. \A j \in 1..(k - 1) : SubSeq(q \o g, 1, k - 1)[j] = SubSeq(q, 1, k - 1)[j]
  BY <1>1, <1>2, <1>3
<1>. QED BY <1>2, <1>3, <1>4, SeqEqual

LEMMA PorLeerSigue ==
    ASSUME InvTipos, PorLeer, UNCHANGED lecturas, \A c \in Conexiones : PedidosSiguenEn(c)
    PROVE  SinPedidos' /\ PorLeer'
<1>0. aDisco \in [Conexiones -> Seq(AlDisco)]
  BY DEF InvTipos, TypeOK, TipoHilos
<1>1. SinPedidos'
  BY DEF PedidosSiguenEn, SinPedidos
<1>2. ASSUME NEW c \in Conexiones, NEW k \in Nat, NEW n \in Numeros, hilo'[c].fase = "activa",
             LecEn(c, "ida", k, n)', NEW s \in Sectores, NEW x \in Antes(c, k, s)'
      PROVE  Ve(lecturas[n], s, x)
  <2>1. k \in 1..Len(aDisco'[c]) /\ De(aDisco'[c][k], "get") /\ aDisco'[c][k].id = <<"get", n>>
    BY <1>2 DEF LecEn, Trae, Canal
  <2>2. aDisco'[c] # <<>>
    BY <2>1
  <2>3. hilo[c].fase = "activa" /\ hilo'[c].disco = hilo[c].disco /\ UNCHANGED datos
    BY <1>2, <2>2 DEF PedidosSiguenEn
  <2>4. PICK g \in Seq(AlDisco) : aDisco'[c] = aDisco[c] \o g /\ SinLecturas(g)
    BY <1>2, <2>2 DEF PedidosSiguenEn
  <2>5. PICK q \in Seq(AlDisco) : q = aDisco[c]
    BY <1>0
  <2>6. k \in 1..Len(q) /\ aDisco'[c][k] = q[k]
    <3>1. k \in 1..Len(q \o g)
      BY <2>1, <2>4, <2>5
    <3>2. ASSUME NEW j \in 1..Len(g), k = Len(q) + j
          PROVE  FALSE
      <4>1. (q \o g)[Len(q) + j] = g[j]
        BY JuntaDice
      <4>2. De(g[j], "get")
        BY <2>1, <2>4, <2>5, <3>2, <4>1
      <4>. QED BY <2>4, <4>2 DEF SinLecturas
    <3>3. k \in 1..Len(q)
      BY <3>1, <3>2, JuntaDice
    <3>. QED BY <2>4, <2>5, <3>3, JuntaDice
  <2>7. LecEn(c, "ida", k, n)
    BY <2>1, <2>5, <2>6 DEF LecEn, Trae, Canal
  <2>8. SubSeq(q \o g, 1, k - 1) = SubSeq(q, 1, k - 1)
    <3>1. k \in 1..(Len(q) + 1)
      BY <2>6
    <3>. QED BY <3>1, PrefijoIgual
  <2>9. x \in Antes(c, k, s)
    BY <1>2, <2>3, <2>4, <2>5, <2>8 DEF Antes
  <2>. QED BY <2>3, <2>7, <2>9 DEF PorLeer
<1>. QED BY <1>1, <1>2 DEF PorLeer, Numeros

\* A disk reads: what it will hold when it reads the rest is the same.
LEMMA TailDePrefijo ==
    ASSUME NEW S, NEW q \in Seq(S), q # <<>>, NEW k \in 1..Len(q)
    PROVE  /\ SubSeq(q, 1, k) \in Seq(S) /\ SubSeq(q, 1, k) # <<>>
           /\ Head(SubSeq(q, 1, k)) = Head(q)
           /\ Tail(SubSeq(q, 1, k)) = SubSeq(Tail(q), 1, k - 1)
<1>1. /\ Len(q) \in Nat /\ Len(q) >= 1 /\ Head(q) = q[1] /\ k \in 0..Len(q) /\ k \in Nat
      /\ Tail(q) \in Seq(S) /\ Len(Tail(q)) = Len(q) - 1
      /\ \A j \in 1..(Len(q) - 1) : Tail(q)[j] = q[j + 1]
  OBVIOUS
<1>. DEFINE p == SubSeq(q, 1, k)
<1>2. /\ p \in Seq(S) /\ Len(p) = k
      /\ \A j \in 1..k : p[j] = q[j]
  BY <1>1
<1>. HIDE DEF p
<1>3. p # <<>>
  BY <1>1, <1>2
<1>4. Head(p) = p[1] /\ p[1] = q[1]
  BY <1>1, <1>2, <1>3
<1>5. /\ Tail(p) \in Seq(S) /\ Len(Tail(p)) = k - 1
      /\ \A j \in 1..(k - 1) : Tail(p)[j] = p[j + 1]
  BY <1>1, <1>2, <1>3
<1>6. k - 1 \in 0..Len(Tail(q))
  BY <1>1
<1>. DEFINE t == Tail(q)
<1>7. /\ SubSeq(t, 1, k - 1) \in Seq(S) /\ Len(SubSeq(t, 1, k - 1)) = k - 1
      /\ \A j \in 1..(k - 1) : SubSeq(t, 1, k - 1)[j] = t[j]
  <2>1. t \in Seq(S) /\ k - 1 \in 0..Len(t)
    BY <1>1, <1>6
  <2>. HIDE DEF t
  <2>. QED BY <2>1
<1>8. \A j \in 1..(k - 1) : Tail(p)[j] = SubSeq(t, 1, k - 1)[j]
  <2>. SUFFICES ASSUME NEW j \in 1..(k - 1)
                PROVE  Tail(p)[j] = SubSeq(t, 1, k - 1)[j]
    OBVIOUS
  <2>1. j + 1 \in 1..k /\ j \in 1..(Len(q) - 1)
    BY <1>1
  <2>2. Tail(p)[j] = p[j + 1] /\ p[j + 1] = q[j + 1]
    BY <1>2, <1>5, <2>1
  <2>3. SubSeq(t, 1, k - 1)[j] = t[j] /\ t[j] = q[j + 1]
    BY <1>1, <1>7, <2>1
  <2>. QED BY <2>2, <2>3
<1>9. Tail(p) = SubSeq(t, 1, k - 1)
  <2>. HIDE DEF t
  <2>. QED BY <1>5, <1>7, <1>8, SeqEqual
<1>. QED BY <1>2, <1>3, <1>4, <1>9, <1>1 DEF p

LEMMA PorLeerDisco ==
    ASSUME InvTipos, InvRutas, SinPedidos, PorLeer, NEW c \in Conexiones, DiscoAtiende(c)
    PROVE  SinPedidos' /\ PorLeer'
<1>0. /\ aDisco \in [Conexiones -> Seq(AlDisco)] /\ hilo \in [Conexiones -> Hilos]
      /\ datos \in [Discos -> [Sectores -> Buffers]]
      /\ UNCHANGED <<hilo, lecturas>> /\ aDisco[c] # <<>>
  BY DEF InvTipos, TypeOK, TipoHilos, DiscoAtiende, historia
<1>1. \A e \in Conexiones : aDisco'[e] = IF e = c THEN Tail(aDisco[c]) ELSE aDisco[e]
  BY <1>0 DEF DiscoAtiende
<1>2. SinPedidos'
  <2>1. hilo[c].fase \notin {"libre", "nueva"}
    BY <1>0 DEF SinPedidos
  <2>. QED BY <1>0, <1>1, <2>1 DEF SinPedidos
<1>3. PICK d : d = hilo[c].disco
  OBVIOUS
<1>4. datos' = [datos EXCEPT ![d] = Grabar(Head(aDisco[c]), datos[d])]
  BY <1>3 DEF DiscoAtiende
<1>5. ASSUME NEW e \in Conexiones, NEW k \in Nat, NEW n \in Numeros, hilo[e].fase = "activa",
             LecEn(e, "ida", k, n)', NEW s \in Sectores, NEW x \in Antes(e, k, s)'
      PROVE  Ve(lecturas[n], s, x)
  <2>0. hilo[e].disco \in Discos
    BY <1>5 DEF InvTipos, HilosConDisco
  <2>1. CASE e # c
    <3>1. hilo[e].disco # d
      BY <1>0, <1>3, <1>5, <2>1 DEF InvRutas, InvPuentes, UnPuente, Vivas
    <3>2. aDisco'[e] = aDisco[e] /\ datos'[hilo[e].disco] = datos[hilo[e].disco]
      BY <1>0, <1>1, <1>4, <2>0, <2>1, <3>1
    <3>3. LecEn(e, "ida", k, n) /\ x \in Antes(e, k, s)
      BY <1>0, <1>5, <3>2 DEF LecEn, Trae, Canal, Antes
    <3>. QED BY <1>5, <3>3 DEF PorLeer
  <2>2. CASE e = c
    <3>1. PICK q \in Seq(AlDisco) : q = aDisco[c]
      BY <1>0
    <3>2. q # <<>> /\ aDisco'[c] = Tail(q)
      BY <1>0, <1>1, <3>1
    <3>3. k \in 1..Len(Tail(q)) /\ De(Tail(q)[k], "get") /\ Tail(q)[k].id = <<"get", n>>
      BY <1>5, <2>2, <3>2 DEF LecEn, Trae, Canal
    <3>4. k + 1 \in 1..Len(q) /\ k \in 1..Len(q) /\ Tail(q)[k] = q[k + 1] /\ k + 1 \in Nat
      BY <3>2, <3>3
    <3>5. LecEn(c, "ida", k + 1, n)
      BY <3>1, <3>3, <3>4 DEF LecEn, Trae, Canal
    <3>6. PICK p \in Seq(AlDisco) : p = SubSeq(q, 1, k)
      BY <3>2, <3>4, TailDePrefijo
    <3>7. p # <<>> /\ Head(p) = Head(q) /\ Tail(p) = SubSeq(Tail(q), 1, k - 1)
      BY <3>2, <3>4, <3>6, TailDePrefijo
    <3>8. datos'[d] = Grabar(Head(p), datos[d]) /\ datos[d] \in [Sectores -> Buffers]
      BY <1>0, <1>3, <1>4, <2>0, <2>2, <3>1, <3>7
    <3>9. x \in Quedan(Tail(p), Grabar(Head(p), datos[d]), s)
      BY <1>0, <1>3, <1>5, <2>2, <3>2, <3>7, <3>8 DEF Antes
    <3>10. x \in Quedan(p, datos[d], s)
      BY <3>7, <3>8, <3>9, QuedanGrabar
    <3>11. (k + 1) - 1 = k
      OBVIOUS
    <3>12. x \in Antes(c, k + 1, s)
      BY <1>3, <3>1, <3>6, <3>10, <3>11 DEF Antes
    <3>. QED BY <1>5, <2>2, <3>4, <3>5, <3>12 DEF PorLeer
  <2>. QED BY <2>1, <2>2
<1>. QED BY <1>0, <1>2, <1>5 DEF PorLeer, Numeros

\* A new read is asked behind every write: of a place that is synchronised it sees
\* what the disk will hold.
LEMMA NuevaVe ==
    ASSUME InvTipos, UltimoEscrito, EscritoEnTodos, NEW t1 \in Pos, NEW t2 \in Pos,
           NEW a \in Sectores, NEW b \in Sectores, NEW r,
           r = [s1 |-> a, s2 |-> b, v1 |-> Debe(a, t1, t2), v2 |-> Debe(b, t1, t2)],
           NEW t \in {t1, t2}, NEW s \in Sectores, NEW x \in Quedara(sDiscos[t].hilo, s)
    PROVE  Ve(r, s, x)
<1>1. \A z \in Sectores : Debe(z, t1, t2) > 0 =>
         /\ Debe(z, t1, t2) = ultimo[z] /\ Escrita(ultimo[z], z) /\ ultimo[z] \in Nat
         /\ t \in EnEstado(sDiscos, "SINCRONIZADO")
  BY DEF Debe, UltimoEscrito, EnEstado, InvTipos, TypeOK, TipoHistoria
<1>2. \A z \in Sectores : z = s /\ Debe(z, t1, t2) > 0 => x.ver >= Debe(z, t1, t2)
  BY <1>1 DEF EscritoEnTodos
<1>. QED BY <1>2 DEF Ve

LEMMA PorLeerRepartir ==
    ASSUME InvFondo, InvLecturas, SinPedidos, PorLeer, Leidas, UltimoEscrito, EscritoEnTodos,
           UNCHANGED <<hilo, datos, deDisco>>,
           NEW par \in Pares, NEW t1 \in Pos, NEW t2 \in Pos, Repartir(par, t1, t2)
    PROVE  SinPedidos' /\ PorLeer' /\ Leidas'
<1>0. /\ InvTipos /\ InvTabla
      /\ lecturas \in Seq([s1 : Sectores, s2 : Sectores, v1 : Nat, v2 : Nat])
      /\ aDisco \in [Conexiones -> Seq(AlDisco)]
      /\ par \in Sectores \X Sectores
  BY EntornoAssumption DEF InvFondo, InvTipos, TypeOK, TipoHistoria, TipoHilos
<1>1. PICK n : n = Len(lecturas) + 1
  OBVIOUS
<1>2. PICK h1 : h1 = sDiscos[t1].hilo
  OBVIOUS
<1>3. PICK h2 : h2 = sDiscos[t2].hilo
  OBVIOUS
<1>4. PICK r : r = [s1 |-> par[1], s2 |-> par[2],
                   v1 |-> Debe(par[1], t1, t2), v2 |-> Debe(par[2], t1, t2)]
  OBVIOUS
<1>5. /\ Numeros' = Numeros \union {n} /\ n \notin Numeros
      /\ lecturas'[n] = r /\ \A i \in Numeros : lecturas'[i] = lecturas[i]
  <2>1. lecturas' = Append(lecturas, r)
    BY <1>4 DEF Repartir
  <2>2. /\ Len(lecturas') = n /\ Len(lecturas) \in Nat
        /\ lecturas'[n] = r /\ \A i \in Numeros : lecturas'[i] = lecturas[i]
    <3>. DEFINE s == lecturas
    <3>1. /\ Len(Append(s, r)) = Len(s) + 1 /\ Len(s) \in Nat
          /\ Append(s, r)[Len(s) + 1] = r
          /\ \A i \in 1..Len(s) : Append(s, r)[i] = s[i]
      BY <1>0, AppendProperties
    <3>. QED BY <1>1, <2>1, <3>1 DEF Numeros
  <2>. QED BY <1>1, <2>2 DEF Numeros
<1>6. PICK f \in [Conexiones -> Seq(AlDisco)] :
         (\E sigue : Enviar(f, sigue)) /\ SonDeLaLectura(f, n, par, h1, h2)
  BY <1>0, <1>1, <1>2, <1>3, RepartirManda
<1>7. \A c \in Conexiones : aDisco'[c] = IF hilo[c].fase = "activa" THEN aDisco[c] \o f[c]
                                                                   ELSE aDisco[c]
  BY <1>6 DEF Enviar
<1>8. SinPedidos'
  BY <1>7 DEF SinPedidos
\* The number of a read under way.
<1>9. ASSUME NEW c \in Conexiones, NEW v \in Sentidos, NEW k \in Nat, NEW i \in Numeros',
             LecEn(c, v, k, i)'
      PROVE  \/ i \in Numeros /\ LecEn(c, v, k, i) /\ Canal(c, v)[k] = Canal(c, v)'[k]
             \/ i = n /\ v = "ida" /\ k = Len(aDisco[c]) + 1 /\ c \in {h1, h2}
  <2>1. Trae(c, v, k)' /\ De(Canal(c, v)'[k], "get") /\ Canal(c, v)'[k].id = <<"get", i>>
    BY <1>9 DEF LecEn
  <2>2. \/ Trae(c, v, k) /\ Canal(c, v)[k] = Canal(c, v)'[k]
        \/ /\ v = "ida" /\ k = Len(aDisco[c]) + 1
           /\ EsNueva(Canal(c, v)'[k], c, n, par, h1, h2)
    BY <1>0, <1>6, <2>1, RepartirOrigen
  <2>3. CASE Trae(c, v, k) /\ Canal(c, v)[k] = Canal(c, v)'[k]
    <3>1. PICK j \in Numeros : LecEn(c, v, k, j)
      BY <2>1, <2>3 DEF InvLecturas, InvCanales, ConLectura
    <3>2. i = j
      BY <2>1, <2>3, <3>1 DEF LecEn
    <3>. QED BY <2>3, <3>1, <3>2
  <2>4. CASE EsNueva(Canal(c, v)'[k], c, n, par, h1, h2)
    <3>1. i = n /\ c \in {h1, h2}
      BY <2>1, <2>4 DEF EsNueva
    <3>. QED BY <2>2, <2>3, <3>1
  <2>. QED BY <2>2, <2>3, <2>4
<1>10. ASSUME NEW c \in Conexiones, NEW k \in Nat, NEW i \in Numeros', hilo[c].fase = "activa",
              LecEn(c, "ida", k, i)', NEW s \in Sectores, NEW x \in Antes(c, k, s)'
       PROVE  Ve(lecturas'[i], s, x)
  <2>1. PICK q \in Seq(AlDisco) : q = aDisco[c]
    BY <1>0
  <2>2. PICK g \in Seq(AlDisco) : g = f[c]
    OBVIOUS
  <2>3. aDisco'[c] = q \o g /\ Len(q) \in Nat
    <3>1. aDisco'[c] = aDisco[c] \o f[c]
      BY <1>7, <1>10
    <3>. QED BY <2>1, <2>2, <3>1
  <2>4. ASSUME k \in 1..(Len(q) + 1)
        PROVE  x \in Quedan(SubSeq(q, 1, k - 1), datos[hilo[c].disco], s)
    <3>1. SubSeq(q \o g, 1, k - 1) = SubSeq(q, 1, k - 1)
      BY <2>4, PrefijoIgual
    <3>. QED BY <1>10, <2>3, <3>1 DEF Antes
  <2>5. CASE i \in Numeros /\ LecEn(c, "ida", k, i)
    <3>1. k \in 1..Len(q)
      BY <2>1, <2>5 DEF LecEn, Trae, Canal
    <3>2. k \in 1..(Len(q) + 1)
      BY <2>3, <3>1
    <3>3. x \in Antes(c, k, s)
      BY <2>1, <2>4, <3>2 DEF Antes
    <3>. QED BY <1>5, <1>10, <2>5, <3>3 DEF PorLeer
  <2>6. CASE i = n /\ k = Len(q) + 1 /\ c \in {h1, h2}
    <3>1. k \in 1..(Len(q) + 1) /\ k - 1 = Len(q)
      BY <2>3, <2>6
    <3>2. SubSeq(q, 1, Len(q)) = q
      <4>1. /\ SubSeq(q, 1, Len(q)) \in Seq(AlDisco) /\ Len(SubSeq(q, 1, Len(q))) = Len(q)
            /\ \A j \in 1..Len(q) : SubSeq(q, 1, Len(q))[j] = q[j]
        BY <2>3
      <4>. QED BY <4>1, SeqEqual
    <3>3. x \in Quedara(c, s)
      BY <2>1, <2>4, <3>1, <3>2 DEF Quedara
    <3>4. PICK t \in {t1, t2} : sDiscos[t].hilo = c
      BY <1>2, <1>3, <2>6
    <3>5. Ve(r, s, x)
      <4>1. par[1] \in Sectores /\ par[2] \in Sectores
        BY <1>0
      <4>. QED BY <1>0, <1>4, <3>3, <3>4, <4>1, NuevaVe
    <3>. QED BY <1>5, <2>6, <3>5
  <2>7. "ida" \in Sentidos
    BY DEF Sentidos
  <2>. QED BY <1>9, <1>10, <2>1, <2>5, <2>6, <2>7
<1>11. PorLeer'
  BY <1>10 DEF PorLeer
<1>12. Leidas'
  <2>. SUFFICES ASSUME NEW c \in Conexiones, NEW k \in Nat, NEW i \in Numeros',
                       LecEn(c, "vuelta", k, i)'
                PROVE  /\ VeSuyo(lecturas'[i], deDisco[c][k].d1)
                       /\ deDisco[c][k].t = "RTA" => VeSuyo(lecturas'[i], deDisco[c][k].d2)
    BY DEF Leidas
  <2>1. "vuelta" \in Sentidos /\ "vuelta" # "ida"
    BY DEF Sentidos
  <2>2. i \in Numeros /\ LecEn(c, "vuelta", k, i)
    BY <1>9, <2>1
  <2>. QED BY <1>5, <2>2 DEF Leidas
<1>. QED BY <1>8, <1>11, <1>12

\* The answers under way.
LEMMA LeidasSiguen ==
    ASSUME Leidas, CanalesConservan("get"), UNCHANGED lecturas
    PROVE  Leidas'
<1>. SUFFICES ASSUME NEW c \in Conexiones, NEW k \in Nat, NEW n \in Numeros,
                     LecEn(c, "vuelta", k, n)'
              PROVE  /\ VeSuyo(lecturas[n], deDisco'[c][k].d1)
                     /\ deDisco'[c][k].t = "RTA" => VeSuyo(lecturas[n], deDisco'[c][k].d2)
  BY DEF Leidas, Numeros
<1>1. "vuelta" \in Sentidos
  BY DEF Sentidos
<1>2. PICK j \in Nat : LecEn(c, "vuelta", k + j, n) /\ Canal(c, "vuelta")[k + j] = Canal(c, "vuelta")'[k]
  BY <1>1, LecVino
<1>3. k + j \in Nat /\ deDisco[c][k + j] = deDisco'[c][k]
  BY <1>2 DEF Canal
<1>. QED BY <1>2, <1>3 DEF Leidas

LEMMA LeidasDisco ==
    ASSUME SinReinicio, InvFondo, InvSinc, PorLeer, Leidas, NEW c \in Conexiones, DiscoAtiende(c)
    PROVE  Leidas'
<1>0. /\ InvTipos /\ UNCHANGED lecturas /\ SectorPropio
      /\ aDisco \in [Conexiones -> Seq(AlDisco)]
      /\ datos \in [Discos -> [Sectores -> Buffers]]
  BY DEF InvFondo, DiscoAtiende, historia, InvTipos, TypeOK, TipoHilos
<1>. SUFFICES ASSUME NEW e \in Conexiones, NEW k \in Nat, NEW n \in Numeros,
                     LecEn(e, "vuelta", k, n)'
              PROVE  /\ VeSuyo(lecturas[n], deDisco'[e][k].d1)
                     /\ deDisco'[e][k].t = "RTA" => VeSuyo(lecturas[n], deDisco'[e][k].d2)
  BY <1>0 DEF Leidas, Numeros
<1>1. k \in 1..Len(deDisco'[e]) /\ De(deDisco'[e][k], "get") /\ deDisco'[e][k].id = <<"get", n>>
  BY DEF LecEn, Trae, Canal
<1>2. CASE k \in 1..Len(deDisco[e]) /\ deDisco'[e][k] = deDisco[e][k]
  <2>1. LecEn(e, "vuelta", k, n)
    BY <1>1, <1>2 DEF LecEn, Trae, Canal
  <2>. QED BY <1>2, <2>1 DEF Leidas
<1>3. CASE /\ e = c /\ hilo[c].fase = "activa"
           /\ deDisco'[c][k] = Servir(aDisco[c][1], datos[hilo[c].disco])
  <2>1. PICK m \in AlDisco : m = aDisco[c][1] /\ 1 \in 1..Len(aDisco[c])
    BY <1>0, DiscoOrigen
  <2>2. PICK l \in [Sectores -> Buffers] : l = datos[hilo[c].disco]
    BY <1>0, <1>3 DEF InvTipos, HilosConDisco
  <2>3. deDisco'[e][k] = Servir(m, l)
    BY <1>3, <2>1, <2>2
  <2>4. \A s \in Sectores : l[s].sec = s
    BY <1>0, <1>3, <2>2 DEF SectorPropio, InvTipos, HilosConDisco
  <2>5. m.t \in {"GET1", "GET2"} /\ m.id = Servir(m, l).id
    <3>1. m.t \in {"PUT", "GET1", "GET2"} /\ m.t = "PUT" => Servir(m, l).t = "PUT_OK"
      BY <2>2, ServirEs
    <3>2. Servir(m, l).t # "PUT_OK"
      BY <1>1, <2>3 DEF De
    <3>3. m.t \in {"PUT", "GET1", "GET2"}
      BY <2>2, ServirEs
    <3>. QED BY <3>1, <3>2, <3>3 DEF Servir
  <2>6. LecEn(c, "ida", 1, n)
    BY <1>1, <2>1, <2>3, <2>5 DEF LecEn, Trae, Canal, De
  <2>7. \A s \in Sectores : Ve(lecturas[n], s, l[s])
    <3>. SUFFICES ASSUME NEW s \in Sectores
                  PROVE  l[s] \in Antes(c, 1, s)
      BY <1>3, <2>6 DEF PorLeer
    <3>1. Len(SubSeq(aDisco[c], 1, 0)) = 0
      <4>1. aDisco[c] \in Seq(AlDisco)
        BY <1>0
      <4>. QED BY <4>1
    <3>2. SinPuts(SubSeq(aDisco[c], 1, 0))
      BY <3>1 DEF SinPuts
    <3>3. Quedan(SubSeq(aDisco[c], 1, 0), l, s) = {l[s]}
      BY <3>2, QuedanSinPuts
    <3>4. 1 - 1 = 0
      OBVIOUS
    <3>. QED BY <2>2, <3>3, <3>4 DEF Antes
  <2>8. /\ m.t = "GET1" => \E s \in Sectores : Servir(m, l).t = "RTAb" /\ Servir(m, l).d1 = l[s]
        /\ m.t = "GET2" => \E s, z \in Sectores : Servir(m, l).d1 = l[s] /\ Servir(m, l).d2 = l[z]
    BY <2>2, <2>4, ServirPropio
  <2>9. \A s \in Sectores : VeSuyo(lecturas[n], l[s])
    BY <2>4, <2>7 DEF VeSuyo
  <2>. QED BY <2>3, <2>5, <2>8, <2>9
<1>. QED BY <1>0, <1>1, <1>2, <1>3, DiscoOrigen

\* The halves kept in the table and the answers given.
LEMMA DadasQuietas ==
    ASSUME EnTabla, Dadas, UNCHANGED <<pedidos, respuestas, lecturas>>
    PROVE  EnTabla' /\ Dadas'
  BY DEF EnTabla, Dadas, Numeros

LEMMA ResponderVe ==
    ASSUME InvTipos, Contestadas, Dadas, UNCHANGED lecturas, NEW id \in Ids, NEW a, NEW b,
           Responder(id, a, b),
           \A n \in Numeros : id = <<"get", n>> => VeSuyo(lecturas[n], a) /\ VeSuyo(lecturas[n], b)
    PROVE  Dadas'
<1>0. respuestas \in Seq(Seq([d1 : Buffers, d2 : Buffers])) /\ Len(respuestas) = Len(lecturas)
  BY DEF InvTipos, TypeOK, TipoHistoria, Contestadas
<1>. SUFFICES ASSUME NEW n \in Numeros, NEW k \in 1..Len(respuestas'[n])
              PROVE  /\ VeSuyo(lecturas[n], respuestas'[n][k].d1)
                     /\ VeSuyo(lecturas[n], respuestas'[n][k].d2)
  BY DEF Dadas, Numeros
<1>1. CASE respuestas'[n] = respuestas[n]
  BY <1>1 DEF Dadas
<1>2. CASE respuestas'[n] # respuestas[n]
  <2>1. PICK x : x = [d1 |-> a, d2 |-> b]
    OBVIOUS
  <2>2. /\ id[1] = "get" /\ respuestas' = [respuestas EXCEPT ![id[2]] = Append(@, x)]
    BY <1>2, <2>1 DEF Responder
  <2>3. n \in DOMAIN respuestas
    BY <1>0 DEF Numeros
  <2>4. n = id[2] /\ respuestas'[n] = Append(respuestas[n], x)
    BY <1>2, <2>2, <2>3
  <2>5. id = <<"get", n>>
    BY <2>2, <2>4 DEF Ids
  <2>6. PICK s \in Seq([d1 : Buffers, d2 : Buffers]) : s = respuestas[n]
    BY <1>0, <2>3
  <2>7. k \in 1..Len(s) \/ k = Len(s) + 1
    BY <2>4, <2>6
  <2>8. CASE k \in 1..Len(s)
    <3>1. respuestas'[n][k] = respuestas[n][k] /\ k \in 1..Len(respuestas[n])
      BY <2>4, <2>6, <2>8
    <3>. QED BY <3>1 DEF Dadas
  <2>9. CASE k = Len(s) + 1
    <3>1. respuestas'[n][k] = x
      BY <2>4, <2>6, <2>9
    <3>. QED BY <2>1, <2>5, <3>1
  <2>. QED BY <2>7, <2>8, <2>9
<1>. QED BY <1>1, <1>2

\* The answer at the head of a channel, of a read under way.
LEMMA CabezaLeida ==
    ASSUME InvTipos, Leidas, NEW c \in Conexiones, NEW t \in {"RTA", "RTAb"}, Llega(c, t),
           NEW m, m = Head(deDisco[c]), NEW n \in Numeros, m.id = <<"get", n>>
    PROVE  VeSuyo(lecturas[n], m.d1) /\ (t = "RTA" => VeSuyo(lecturas[n], m.d2))
<1>1. deDisco[c] \in Seq(DelDisco) /\ deDisco[c] # <<>> /\ m.t = t
  BY DEF InvTipos, TypeOK, TipoHilos, Llega
<1>2. 1 \in 1..Len(deDisco[c]) /\ deDisco[c][1] = m /\ 1 \in Nat
  BY <1>1
<1>3. m.id[1] = "get"
  OBVIOUS
<1>4. LecEn(c, "vuelta", 1, n)
  BY <1>1, <1>2, <1>3 DEF LecEn, Trae, De, Canal
<1>. QED BY <1>1, <1>2, <1>4 DEF Leidas

LEMMA DosDadas ==
    ASSUME InvTipos, InvLecturas, Leidas, EnTabla, Dadas, NEW c \in Conexiones, RespuestaDos(c)
    PROVE  EnTabla' /\ Dadas'
<1>1. PICK m : m = Head(deDisco[c])
  OBVIOUS
<1>2. Llega(c, "RTA") /\ Responder(m.id, m.d1, m.d2) /\ UNCHANGED <<pedidos, lecturas>>
  BY <1>1 DEF RespuestaDos, historia
<1>3. m.id \in Ids
  <2>1. m \in DelDisco /\ m.t = "RTA"
    BY <1>1, <1>2, RecibidoTipo DEF InvTipos, TypeOK, TipoHilos
  <2>. QED BY <2>1, ClaseMensaje
<1>4. \A n \in Numeros : m.id = <<"get", n>> =>
         VeSuyo(lecturas[n], m.d1) /\ VeSuyo(lecturas[n], m.d2)
  BY <1>1, <1>2, CabezaLeida
<1>5. Dadas'
  BY <1>2, <1>3, <1>4, ResponderVe DEF InvLecturas
<1>6. EnTabla'
  BY <1>2 DEF EnTabla, Numeros
<1>. QED BY <1>5, <1>6

\* A half joins the one its entry has.
LEMMA UnirVe ==
    ASSUME InvTipos, InvLecturas, EnTabla, Dadas, UNCHANGED lecturas,
           NEW k \in Entradas, NEW id \in Ids, NEW c \in Conexiones, NEW d,
           EsPrimero(k, PedidosDe(pedidos, id)), Unir(k, id, c, d),
           \A n \in Numeros : id = <<"get", n>> => VeSuyo(lecturas[n], d)
    PROVE  EnTabla' /\ Dadas'
<1>0. pedidos \in [Entradas -> Pedido] /\ pedidos[k].id = id /\ pedidos[k] \in Pedido
  BY DEF InvTipos, TypeOK, TipoTablas, EsPrimero, PedidosDe
<1>1. PICK x \in Pedido : x = pedidos[k]
  BY <1>0
<1>2. PICK y : y = [x EXCEPT !.cant = x.cant + 1,
                             !.d1 = IF x.h1 = c THEN d ELSE x.d1,
                             !.d2 = IF x.h2 = c /\ x.h1 # c THEN d ELSE x.d2]
  OBVIOUS
<1>3. y.id = id /\ y.d1 \in {x.d1, d} /\ y.d2 \in {x.d2, d}
  BY <1>0, <1>1, <1>2 DEF Pedido
<1>4. PICK p : p = AgregarRespuesta(pedidos, k, c, d)
  OBVIOUS
<1>5. p = [pedidos EXCEPT ![k] = y]
  BY <1>1, <1>2, <1>4 DEF AgregarRespuesta
<1>6. p[k] = y /\ DOMAIN p = Entradas /\ \A e \in Entradas : e # k => p[e] = pedidos[e]
  BY <1>0, <1>5
<1>7. \A n \in Numeros : id = <<"get", n>> => VeSuyo(lecturas[n], y.d1) /\ VeSuyo(lecturas[n], y.d2)
  BY <1>0, <1>1, <1>3 DEF EnTabla
<1>8. IF y.cant = 2 THEN Responder(id, y.d1, y.d2) /\ pedidos' = EliminarPedido(p, k)
                    ELSE pedidos' = p /\ UNCHANGED respuestas
  BY <1>4, <1>6 DEF Unir
<1>9. Dadas'
  <2>1. CASE y.cant = 2
    BY <1>7, <1>8, <2>1, ResponderVe DEF InvLecturas
  <2>2. CASE y.cant # 2
    BY <1>8, <2>2 DEF Dadas, Numeros
  <2>. QED BY <2>1, <2>2
<1>10. EnTabla'
  <2>. SUFFICES ASSUME NEW e \in Entradas, NEW n \in Numeros, pedidos'[e].id = <<"get", n>>
                PROVE  VeSuyo(lecturas[n], pedidos'[e].d1) /\ VeSuyo(lecturas[n], pedidos'[e].d2)
    BY DEF EnTabla, Numeros
  <2>1. CASE pedidos' = p
    BY <1>3, <1>6, <1>7, <2>1 DEF EnTabla
  <2>2. CASE pedidos' = EliminarPedido(p, k)
    <3>1. e # k => pedidos'[e] = p[e]
      BY <1>6, <2>2 DEF EliminarPedido
    <3>2. e = k => pedidos'[e].id = NULO
      <4>1. \A z : z = [y EXCEPT !.id = NULO] => z.id = NULO
        BY <1>1, <1>2 DEF Pedido
      <4>. QED BY <1>6, <2>2, <4>1 DEF EliminarPedido
    <3>3. <<"get", n>> # NULO
      BY IdsAssumption DEF Ids, Numeros
    <3>. QED BY <1>6, <3>1, <3>2, <3>3 DEF EnTabla
  <2>. QED BY <1>8, <2>1, <2>2
<1>. QED BY <1>9, <1>10

LEMMA UnoDadas ==
    ASSUME InvTipos, InvLecturas, Leidas, EnTabla, Dadas, NEW c \in Conexiones, RespuestaUno(c)
    PROVE  EnTabla' /\ Dadas'
<1>1. PICK m : m = Head(deDisco[c])
  OBVIOUS
<1>2. Llega(c, "RTAb") /\ UNCHANGED lecturas
  BY DEF RespuestaUno, historia
<1>3. m.id \in Ids
  <2>1. m \in DelDisco /\ m.t = "RTAb"
    BY <1>1, <1>2, RecibidoTipo DEF InvTipos, TypeOK, TipoHilos
  <2>. QED BY <2>1, ClaseMensaje
<1>4. \A n \in Numeros : m.id = <<"get", n>> => VeSuyo(lecturas[n], m.d1)
  BY <1>1, <1>2, CabezaLeida
<1>5. CASE UNCHANGED <<pedidos, respuestas>>
  BY <1>2, <1>5, DadasQuietas
<1>6. ASSUME NEW k \in Entradas, EsPrimero(k, PedidosDe(pedidos, m.id)), Unir(k, m.id, c, m.d1)
      PROVE  EnTabla' /\ Dadas'
  BY <1>2, <1>3, <1>4, <1>6, UnirVe
<1>. QED BY <1>1, <1>5, <1>6 DEF RespuestaUno

LEMMA RepartirDadas ==
    ASSUME InvTipos, InvLecturas, EnTabla, Dadas, Len(lecturas) < MaxGet,
           NEW par, NEW t1 \in Pos, NEW t2 \in Pos, Repartir(par, t1, t2)
    PROVE  EnTabla' /\ Dadas'
<1>0. /\ lecturas \in Seq([s1 : Sectores, s2 : Sectores, v1 : Nat, v2 : Nat])
      /\ respuestas \in Seq(Seq([d1 : Buffers, d2 : Buffers]))
      /\ Len(respuestas) = Len(lecturas) /\ InvPedidos
  BY DEF InvTipos, TypeOK, TipoHistoria, InvLecturas, Contestadas
<1>1. PICK n : n = Len(lecturas) + 1
  OBVIOUS
<1>2. PICK x : x = PedidoNuevo(n, sDiscos[t1].hilo, sDiscos[t2].hilo)
  OBVIOUS
<1>3. PICK r : r = [s1 |-> par[1], s2 |-> par[2],
                   v1 |-> Debe(par[1], t1, t2), v2 |-> Debe(par[2], t1, t2)]
  OBVIOUS
<1>4. /\ Len(lecturas') = n /\ Len(lecturas) \in Nat
      /\ \A i \in Numeros : lecturas'[i] = lecturas[i]
  <2>1. lecturas' = Append(lecturas, r)
    BY <1>3 DEF Repartir
  <2>. DEFINE s == lecturas
  <2>2. /\ Len(Append(s, r)) = Len(s) + 1 /\ Len(s) \in Nat
        /\ \A i \in 1..Len(s) : Append(s, r)[i] = s[i]
    BY <1>0, AppendProperties
  <2>. QED BY <1>1, <2>1, <2>2 DEF Numeros
<1>5. respuestas'[n] = <<>> /\ \A i \in Numeros : respuestas'[i] = respuestas[i]
  <2>1. respuestas' = Append(respuestas, <<>>)
    BY DEF Repartir
  <2>. DEFINE s == respuestas
  <2>2. /\ Append(s, <<>>)[Len(s) + 1] = <<>>
        /\ \A i \in 1..Len(s) : Append(s, <<>>)[i] = s[i]
    BY <1>0, AppendProperties
  <2>. QED BY <1>0, <1>1, <2>1, <2>2 DEF Numeros
<1>6. Numeros' = Numeros \union {n}
  BY <1>1, <1>4 DEF Numeros
<1>7. TablaNueva(n, x)
  BY <1>0, <1>1, <1>2, RepartirTabla
<1>8. Dadas'
  <2>. SUFFICES ASSUME NEW i \in Numeros', NEW k \in 1..Len(respuestas'[i])
                PROVE  /\ VeSuyo(lecturas'[i], respuestas'[i][k].d1)
                       /\ VeSuyo(lecturas'[i], respuestas'[i][k].d2)
    BY DEF Dadas
  <2>1. i # n
    BY <1>5
  <2>. QED BY <1>4, <1>5, <1>6, <2>1 DEF Dadas
<1>9. EnTabla'
  <2>. SUFFICES ASSUME NEW e \in Entradas, NEW i \in Numeros', pedidos'[e].id = <<"get", i>>
                PROVE  VeSuyo(lecturas'[i], pedidos'[e].d1) /\ VeSuyo(lecturas'[i], pedidos'[e].d2)
    BY DEF EnTabla
  <2>1. CASE i = n
    <3>1. pedidos'[e] = x
      BY <1>7, <2>1 DEF TablaNueva, PedidosDe
    <3>2. x.d1 = NULO /\ x.d2 = NULO
      BY <1>2 DEF PedidoNuevo
    <3>. QED BY <3>1, <3>2, BuffersAssumption DEF VeSuyo
  <2>2. CASE i \in Numeros
    <3>1. e \in PedidosDe(pedidos', <<"get", i>>)
      BY DEF PedidosDe
    <3>2. pedidos'[e] = pedidos[e]
      BY <1>7, <2>2, <3>1 DEF TablaNueva
    <3>. QED BY <1>4, <2>2, <3>2 DEF EnTabla
  <2>. QED BY <1>6, <2>1, <2>2
<1>. QED BY <1>8, <1>9

LEMMA VistasGet ==
    ASSUME InvBase, InvVistas, InvEscritas, NEW par \in Pares, VskGet(par)
    PROVE  InvVistas'
<1>0. InvTipos /\ InvFondo /\ InvLecturas
  BY DEF InvBase
<1>1. UNCHANGED <<hilo, datos, deDisco>> /\ Len(lecturas) < MaxGet
  BY DEF VskGet
<1>2. CASE UNCHANGED <<pedidos, lecturas, respuestas, aDisco>>
  <2>1. \A c \in Conexiones : PedidosSiguenEn(c)
    BY <1>0, <1>1, <1>2, SigueQuieto DEF InvVistas
  <2>2. SinPedidos' /\ PorLeer'
    BY <1>0, <1>2, <2>1, PorLeerSigue DEF InvVistas
  <2>3. Leidas'
    BY <1>0, <1>1, <1>2, QuietosConservan, LeidasSiguen DEF InvVistas, canales
  <2>. QED BY <1>2, <2>2, <2>3, DadasQuietas DEF InvVistas
<1>3. ASSUME NEW t1 \in Pos, NEW t2 \in Pos, Repartir(par, t1, t2)
      PROVE  InvVistas'
  <2>1. SinPedidos' /\ PorLeer' /\ Leidas'
    BY <1>0, <1>1, <1>3, PorLeerRepartir DEF InvVistas, InvEscritas
  <2>2. EnTabla' /\ Dadas'
    BY <1>0, <1>1, <1>3, RepartirDadas DEF InvVistas
  <2>. QED BY <2>1, <2>2 DEF InvVistas
<1>. QED BY <1>0, <1>2, <1>3, VskGetEs

LEMMA VistasDisco ==
    ASSUME SinReinicio, InvBase, InvRutas, InvVistas, NEW c \in Conexiones, DiscoAtiende(c)
    PROVE  InvVistas'
<1>1. SinPedidos' /\ PorLeer'
  BY PorLeerDisco DEF InvBase, InvVistas
<1>2. Leidas'
  BY LeidasDisco DEF InvBase, InvVistas
<1>3. UNCHANGED <<pedidos, respuestas, lecturas>>
  BY DEF DiscoAtiende, historia
<1>. QED BY <1>1, <1>2, <1>3, DadasQuietas DEF InvVistas

\* But for a read and a disk, what is under way stays where it was or is lost.
LEMMA LecturasConservan ==
    ASSUME InvFondo, [Next]_vars,
           ~ \E par \in Pares : VskGet(par), ~ \E c \in Conexiones : DiscoAtiende(c)
    PROVE  CanalesConservan("get")
<1>0. InvTipos /\ DeConsola(cola) /\ CanalesLlenos
  BY DEF InvFondo, Llenos
<1>1. CASE Callado
  BY <1>0, <1>1, CalladoConserva
<1>2. CASE \/ \E d \in Discos : ConsolaAgregar(d)
           \/ Cierre
           \/ \E c \in Conexiones : RespuestaSincronizacion(c)
  BY <1>0, <1>2, SincConserva
<1>3. CASE \E par \in Pares : VskPut(par)
  BY <1>0, <1>3, VskPutConserva
<1>. QED BY <1>1, <1>2, <1>3 DEF Next, Respuesta, Consola, Vsk, Callado

LEMMA VistasPaso ==
    ASSUME Regimen, EscribeEnReposo, InvBase, InvRutas, InvEscritas, InvVistas, [Next]_vars
    PROVE  InvVistas'
<1>0. InvTipos /\ InvFondo /\ InvLecturas
  BY DEF InvBase
<1>1. CASE \E par \in Pares : VskGet(par)
  BY <1>1, VistasGet
<1>2. CASE \E c \in Conexiones : DiscoAtiende(c)
  BY <1>2, VistasDisco DEF Regimen
<1>3. CASE (~ \E par \in Pares : VskGet(par)) /\ (~ \E c \in Conexiones : DiscoAtiende(c))
  <2>1. UNCHANGED lecturas
    BY <1>3, HistoriaPaso
  <2>2. \A c \in Conexiones : PedidosSiguenEn(c)
    BY <1>3, PedidosSiguenPaso DEF InvVistas
  <2>3. SinPedidos' /\ PorLeer'
    BY <1>0, <2>1, <2>2, PorLeerSigue DEF InvVistas
  <2>4. Leidas'
    BY <1>0, <1>3, <2>1, LecturasConservan, LeidasSiguen DEF InvVistas
  <2>5. EnTabla' /\ Dadas'
    <3>1. CASE UNCHANGED <<pedidos, respuestas>>
      BY <2>1, <3>1, DadasQuietas DEF InvVistas
    <3>2. CASE \E c \in Conexiones : RespuestaUno(c)
      BY <1>0, <3>2, UnoDadas DEF InvVistas
    <3>3. CASE \E c \in Conexiones : RespuestaDos(c)
      BY <1>0, <3>3, DosDadas DEF InvVistas
    <3>. QED BY <1>3, <3>1, <3>2, <3>3, HistoriaPaso
  <2>. QED BY <2>3, <2>4, <2>5 DEF InvVistas
<1>. QED BY <1>1, <1>2, <1>3

LEMMA VistasInicial ==
    ASSUME Init
    PROVE  InvVistas
<1>1. SinPedidos /\ Numeros = {}
  BY DEF Init, SinPedidos, Numeros
<1>. QED BY <1>1 DEF InvVistas, PorLeer, Leidas, EnTabla, Dadas

LEMMA SpecVistas ==
    Regimen /\ EscribeEnReposo /\ QuedaAlguno =>
        (Spec => [](InvBase /\ InvRutas /\ InvCopia /\ InvEscritas /\ InvVistas))
<1>. SUFFICES ASSUME Regimen, EscribeEnReposo, QuedaAlguno
              PROVE  Spec => [](InvBase /\ InvRutas /\ InvCopia /\ InvEscritas /\ InvVistas)
  OBVIOUS
<1>1. Spec => [](InvBase /\ InvRutas /\ InvCopia)
  BY SpecCopia
<1>2. InvBase /\ InvRutas /\ InvCopia /\ InvBase' /\ InvRutas' /\ InvEscritas /\ [Next]_vars
         => InvEscritas'
  BY EscritasPaso
<1>3. InvBase /\ InvRutas /\ InvEscritas /\ InvVistas /\ [Next]_vars => InvVistas'
  BY VistasPaso
<1>4. Init => InvVistas
  BY VistasInicial
<1>. QED BY <1>1, <1>2, <1>3, <1>4, EscritasInicial, PTL DEF Spec

\* While no disk falls, the VSK writes with the array at rest and the console
\* leaves a synchronised disk, the answer to a read that went to synchronised
\* disks brings every write acknowledged before it was asked, though each disk
\* writes at its own pace, the acknowledgements come from any of them, and disks
\* are added and removed in between.
THEOREM LecturaAlDia ==
    Regimen /\ EscribeEnReposo /\ QuedaAlguno => (Spec => []LecturaFresca)
<1>1. ASSUME Regimen, InvBase, InvVistas
      PROVE  LecturaFresca
  <2>. SUFFICES ASSUME NEW n \in Numeros, NEW k \in 1..Len(respuestas[n])
                PROVE  /\ lecturas[n].v1 > 0 => respuestas[n][k].d1.ver >= lecturas[n].v1
                       /\ lecturas[n].v2 > 0 => respuestas[n][k].d2.ver >= lecturas[n].v2
    BY DEF LecturaFresca, Numeros
  <2>1. /\ DeSector(respuestas[n][k].d1, lecturas[n].s1)
        /\ DeSector(respuestas[n][k].d2, lecturas[n].s2)
    BY <1>1 DEF InvBase, InvLecturas, RespuestasBien, RespuestaBien
  <2>2. /\ VeSuyo(lecturas[n], respuestas[n][k].d1)
        /\ VeSuyo(lecturas[n], respuestas[n][k].d2)
    BY <1>1 DEF InvVistas, Dadas
  <2>. QED BY <1>1, <2>1, <2>2 DEF Regimen, DeSector, VeSuyo, Ve
<1>. QED
  <2>. SUFFICES ASSUME Regimen, EscribeEnReposo, QuedaAlguno
                PROVE  Spec => []LecturaFresca
    OBVIOUS
  <2>1. InvBase /\ InvVistas => LecturaFresca
    BY <1>1
  <2>. QED BY <2>1, SpecVistas, PTL
=============================================================================

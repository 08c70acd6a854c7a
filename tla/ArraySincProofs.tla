-------------------------- MODULE ArraySincProofs --------------------------
(***************************************************************************)
(* The synchronisation of a disk, for every number of disks, places and    *)
(* sectors: what waits in the queue, and what travels between the main     *)
(* thread and the disks while the first one of it is copied.               *)
(***************************************************************************)
EXTENDS ArrayProofs

-----------------------------------------------------------------------------
(* What is in SINCRONIZANDO waits in the queue.                              *)

\* The places being synchronised in e have their entry in q.
Encolados(e, q) ==
    Vacias(q) # {} =>
        \A i \in EnEstado(e, "SINCRONIZANDO") :
            \E k \in Pos : q[k].id # NULO /\ q[k].dest = i

\* With no synchronisation in progress the queue is empty.
LEMMA SinCursoVacia ==
    ASSUME InvTipos, ColaContigua, ~EnCurso
    PROVE  \A i \in Pos : cola[i].id = NULO
<1>1. 0 \in Pos /\ \A i \in Pos : i # 0 => 0 < i
  BY NAssumption DEF Pos
<1>. QED BY <1>1 DEF ColaContigua, EnCurso

LEMMA CorrerVacia ==
    ASSUME InvTipos, ColaContigua, ~EnCurso
    PROVE  /\ Correr(cola) \in [Pos -> EntradaCola]
           /\ \A i \in Pos : Correr(cola)[i].id = NULO
<1>1. \A i \in Pos : cola[i].id = NULO
  BY SinCursoVacia
<1>2. \A i \in Pos : i # N - 1 => i + 1 \in Pos
  BY NAssumption DEF Pos
<1>3. cola \in [Pos -> EntradaCola]
  BY DEF InvTipos, TypeOK, TipoTablas
<1>. QED BY <1>1, <1>2, <1>3, CorrerEntradas DEF Correr

LEMMA EncoladosMenos ==
    ASSUME NEW e, NEW q, NEW f, Encolados(e, q),
           EnEstado(f, "SINCRONIZANDO") \subseteq EnEstado(e, "SINCRONIZANDO")
    PROVE  Encolados(f, q)
  BY DEF Encolados

\* Every way a place changes but one leaves it out of SINCRONIZANDO.
LEMMA SincronizandoMenos ==
    ASSUME NEW e \in [Pos -> Lugar], NEW i \in Pos
    PROVE  /\ EnEstado(DesconectarLugar(e, i), "SINCRONIZANDO")
                  \subseteq EnEstado(e, "SINCRONIZANDO")
           /\ EnEstado(PonerEstado(e, i, "SINCRONIZADO"), "SINCRONIZANDO")
                  \subseteq EnEstado(e, "SINCRONIZANDO") \ {i}
           /\ EnEstado(PonerEstado(e, i, "SINCRONIZANDO"), "SINCRONIZANDO")
                  \subseteq EnEstado(e, "SINCRONIZANDO") \union {i}
           /\ \A c : EnEstado(AsociarSocketHilo(e, c, i), "SINCRONIZANDO")
                  \subseteq EnEstado(e, "SINCRONIZANDO")
           /\ \A d, c : EnEstado(AsignarDisco(e, d, c, i), "SINCRONIZANDO")
                  \subseteq EnEstado(e, "SINCRONIZANDO")
  BY DEF DesconectarLugar, PonerEstado, AsociarSocketHilo, AsignarDisco,
         EnEstado, Lugar, LugarVacio

\* A new entry brings its own destination.
LEMMA CargarEncolados ==
    ASSUME NEW e \in [Pos -> Lugar], NEW q \in [Pos -> EntradaCola],
           Encolados(e, q), NEW i \in Pos, NEW k \in Pos, k \in Vacias(q),
           NEW x, x.id # NULO, x.dest = i
    PROVE  Encolados(PonerEstado(e, i, "SINCRONIZANDO"), Cargar(q, k, x))
<1>1. \A j \in Pos : Cargar(q, k, x)[j] = IF j = k THEN x ELSE q[j]
  BY DEF Cargar
<1>2. q[k].id = NULO /\ Vacias(q) # {}
  BY DEF Vacias
<1>. SUFFICES ASSUME NEW j \in EnEstado(PonerEstado(e, i, "SINCRONIZANDO"), "SINCRONIZANDO")
              PROVE  \E l \in Pos : /\ Cargar(q, k, x)[l].id # NULO
                                    /\ Cargar(q, k, x)[l].dest = j
  BY DEF Encolados
<1>3. CASE j = i
  BY <1>1, <1>3
<1>4. CASE j # i
  <2>1. j \in EnEstado(e, "SINCRONIZANDO")
    BY <1>4, SincronizandoMenos
  <2>2. PICK l \in Pos : q[l].id # NULO /\ q[l].dest = j
    BY <1>2, <2>1 DEF Encolados
  <2>. QED BY <1>1, <1>2, <2>2
<1>. QED BY <1>3, <1>4

\* The start of entry 0 of q.
LEMMA EmpezarEncolados ==
    ASSUME NEW e \in [Pos -> Lugar], NEW q \in [Pos -> EntradaCola],
           Encolados(e, q), q[0].id # NULO, SincronizarDisco(e, q)
    PROVE  Encolados(sDiscos', cola')
<1>1. 0 \in Pos /\ q[0].dest \in Pos
  BY NAssumption DEF Pos, EntradaCola
<1>2. \A j \in Pos : cola'[j].id = q[j].id /\ cola'[j].dest = q[j].dest
  BY DEF SincronizarDisco, EntradaCola
<1>3. EnEstado(sDiscos', "SINCRONIZANDO")
          \subseteq EnEstado(e, "SINCRONIZANDO") \union {q[0].dest}
  BY <1>1, SincronizandoMenos DEF SincronizarDisco
<1>4. Vacias(cola') = Vacias(q)
  BY <1>2 DEF Vacias
<1>. QED BY <1>1, <1>2, <1>3, <1>4 DEF Encolados

\* The end of entry 0: its destination leaves SINCRONIZANDO, the rest shift.
LEMMA TerminarEncolados ==
    ASSUME NEW e \in [Pos -> Lugar], NEW q \in [Pos -> EntradaCola],
           Encolados(e, q), NEW z \in [Pos -> EntradaCola],
           \A j \in Pos : j # 0 => z[j] = q[j]
    PROVE  Encolados(PonerEstado(e, q[0].dest, "SINCRONIZADO"), Correr(z))
<1>0. 0 \in Pos
  BY NAssumption DEF Pos
<1>1. 0 \in Pos /\ q[0].dest \in Pos
  BY <1>0 DEF EntradaCola
<1>2. \A j \in Pos : j # 0 => j - 1 \in Pos /\ Correr(z)[j - 1] = q[j]
  <2>. SUFFICES ASSUME NEW j \in Pos, j # 0
                PROVE  j - 1 \in Pos /\ Correr(z)[j - 1] = q[j]
    OBVIOUS
  <2>1. j - 1 \in Pos /\ j - 1 # N - 1 /\ (j - 1) + 1 = j
    BY NAssumption DEF Pos
  <2>. QED BY <2>1 DEF Correr
<1>3. Vacias(Correr(z)) # {} => Vacias(q) # {}
  <2>. SUFFICES ASSUME NEW j \in Pos, Correr(z)[j].id = NULO
                PROVE  Vacias(q) # {}
    BY DEF Vacias
  <2>1. CASE j = N - 1
    <3>1. Correr(z)[j] = q[j]
      BY <2>1, NAssumption DEF Correr, Pos
    <3>. QED BY <3>1 DEF Vacias
  <2>2. CASE j # N - 1
    <3>1. j + 1 \in Pos /\ Correr(z)[j] = q[j + 1]
      BY <2>2, NAssumption DEF Correr, Pos
    <3>. QED BY <3>1 DEF Vacias
  <2>. QED BY <2>1, <2>2
<1>. SUFFICES ASSUME Vacias(Correr(z)) # {},
                     NEW i \in EnEstado(PonerEstado(e, q[0].dest, "SINCRONIZADO"),
                                        "SINCRONIZANDO")
              PROVE  \E k \in Pos : Correr(z)[k].id # NULO /\ Correr(z)[k].dest = i
  BY DEF Encolados
<1>4. i \in EnEstado(e, "SINCRONIZANDO") /\ i # q[0].dest
  BY <1>1, SincronizandoMenos
<1>5. PICK k \in Pos : q[k].id # NULO /\ q[k].dest = i
  BY <1>3, <1>4 DEF Encolados
<1>. QED BY <1>2, <1>4, <1>5

LEMMA EncoladoPaso ==
    InvTipos /\ ColaContigua /\ Encolados(sDiscos, cola) /\ [Next]_vars
        => Encolados(sDiscos', cola')
<1>. SUFFICES ASSUME InvTipos, ColaContigua, Encolados(sDiscos, cola), [Next]_vars
              PROVE  Encolados(sDiscos', cola')
  OBVIOUS
<1>0. /\ cola \in [Pos -> EntradaCola] /\ sDiscos \in [Pos -> Lugar] /\ 0 \in Pos
      /\ nComandos \in Nat
  BY NAssumption DEF InvTipos, TypeOK, TipoTablas, TipoControl, Pos
<1>. USE DEF tabla
<1>1. ASSUME UNCHANGED cola,
             EnEstado(sDiscos', "SINCRONIZANDO") \subseteq EnEstado(sDiscos, "SINCRONIZANDO")
      PROVE  Encolados(sDiscos', cola')
  BY <1>1, EncoladosMenos
<1>2. CASE UNCHANGED <<cola, sDiscos>>
  BY <1>1, <1>2
<1>3. ASSUME NEW d \in Discos, HandshakeDisco(d) \/ ConsolaEliminar(d)
      PROVE  Encolados(sDiscos', cola')
  <2>1. CASE HandshakeDisco(d)
    BY <1>0, <1>1, <1>2, <2>1, SincronizandoMenos
       DEF HandshakeDisco, HandshakeAceptado, HandshakeRechazado
  <2>2. CASE ConsolaEliminar(d)
    BY <1>0, <1>1, <1>2, <2>2, SincronizandoMenos DEF ConsolaEliminar
  <2>. QED BY <1>3, <2>1, <2>2
<1>4. ASSUME NEW c \in Conexiones, AsociarHilo(c) \/ Desconexion(c)
      PROVE  Encolados(sDiscos', cola')
  BY <1>0, <1>1, <1>2, <1>4, SincronizandoMenos DEF AsociarHilo, Desconexion
<1>5. ASSUME NEW c \in Conexiones, RespuestaSincronizacion(c)
      PROVE  Encolados(sDiscos', cola')
  <2>. DEFINE avanza == [cola EXCEPT ![0].act = cola[0].act + 2]
              z == [avanza EXCEPT ![0].id = NULO]
  <2>1. \/ cola' = avanza /\ UNCHANGED sDiscos
        \/ cola' = Correr(z) /\ sDiscos' = PonerEstado(sDiscos, cola[0].dest, "SINCRONIZADO")
    BY <1>5 DEF RespuestaSincronizacion, Continuar
  <2>2. CASE cola' = avanza /\ UNCHANGED sDiscos
    <3>1. \A j \in Pos : avanza[j].id = cola[j].id /\ avanza[j].dest = cola[j].dest
      BY <1>0 DEF EntradaCola
    <3>. HIDE DEF avanza
    <3>. QED BY <2>2, <3>1 DEF Encolados, Vacias
  <2>3. CASE cola' = Correr(z) /\ sDiscos' = PonerEstado(sDiscos, cola[0].dest, "SINCRONIZADO")
    <3>1. cola[0].act + 2 \in Int
      BY <1>0 DEF EntradaCola
    <3>2. z = [cola EXCEPT ![0] = [cola[0] EXCEPT !.act = cola[0].act + 2, !.id = NULO]]
      BY <1>0 DEF EntradaCola
    <3>3. [cola[0] EXCEPT !.act = cola[0].act + 2, !.id = NULO] \in EntradaCola
      <4>1. cola[0] \in EntradaCola
        BY <1>0
      <4>. DEFINE a == cola[0].act + 2
      <4>2. a \in Int
        BY <3>1
      <4>3. \A r \in EntradaCola, b \in Int :
                [r EXCEPT !.act = b, !.id = NULO] \in EntradaCola
        BY DEF EntradaCola
      <4>. QED BY <4>1, <4>2, <4>3
    <3>4. z \in [Pos -> EntradaCola] /\ \A j \in Pos : j # 0 => z[j] = cola[j]
      <4>. DEFINE r == [cola[0] EXCEPT !.act = cola[0].act + 2, !.id = NULO]
      <4>1. z = [cola EXCEPT ![0] = r] /\ r \in EntradaCola
        BY <3>2, <3>3
      <4>. HIDE DEF z, r
      <4>. QED BY <1>0, <4>1
    <3>. HIDE DEF z
    <3>. QED BY <1>0, <2>3, <3>4, TerminarEncolados
  <2>. QED BY <2>1, <2>2, <2>3
<1>6. ASSUME NEW d \in Discos, ConsolaAgregar(d)
      PROVE  Encolados(sDiscos', cola')
  <2>1. ASSUME NEW i \in Pos, NEW o \in Pos, AgregarSincroniza(i, o)
        PROVE  Encolados(sDiscos', cola')
    <3>. DEFINE e == PonerEstado(sDiscos, i, "SINCRONIZANDO")
                x == [id |-> IdConsola, act |-> 0, orig |-> o, dest |-> i]
                q == Correr(cola)
    <3>1. x \in EntradaCola /\ x.id # NULO /\ x.dest = i /\ e \in [Pos -> Lugar]
      BY <1>0, IdsAssumption, TablaTipo DEF EntradaCola, IdConsola, Ids, EstadosDisco
    <3>2. CASE EnCurso
      <4>1. sDiscos' = e
        BY <2>1, <3>2 DEF AgregarSincroniza
      <4>2. \/ \E k \in Pos : EsPrimero(k, Vacias(cola)) /\ cola' = Cargar(cola, k, x)
            \/ Vacias(cola) = {} /\ UNCHANGED cola
        BY <2>1, <3>2 DEF AgregarSincroniza, ColaLlena
      <4>. HIDE DEF x
      <4>3. ASSUME NEW k \in Pos, EsPrimero(k, Vacias(cola)), cola' = Cargar(cola, k, x)
            PROVE  Encolados(sDiscos', cola')
        BY <1>0, <3>1, <4>1, <4>3, CargarEncolados DEF EsPrimero
      <4>4. CASE Vacias(cola) = {} /\ UNCHANGED cola
        BY <4>4 DEF Encolados
      <4>. QED BY <4>2, <4>3, <4>4
    <3>3. CASE ~EnCurso
      <4>1. PICK k \in Pos : EsPrimero(k, Vacias(q)) /\ SincronizarDisco(e, Cargar(q, k, x))
        BY <2>1, <3>3 DEF AgregarSincroniza
      <4>2. q \in [Pos -> EntradaCola] /\ \A j \in Pos : q[j].id = NULO
        BY <3>3, CorrerVacia
      <4>. HIDE DEF q, x
      <4>3. Encolados(sDiscos, q)
        <5>1. 0 \in Vacias(cola)
          BY <1>0, <3>3 DEF EnCurso, Vacias
        <5>2. EnEstado(sDiscos, "SINCRONIZANDO") = {}
          BY <3>3, <5>1, SinCursoVacia DEF Encolados
        <5>. QED BY <5>2 DEF Encolados
      <4>4. k \in Vacias(q)
        BY <4>1 DEF EsPrimero
      <4>5. Encolados(e, Cargar(q, k, x))
        BY <1>0, <3>1, <4>2, <4>3, <4>4, CargarEncolados
      <4>6. Cargar(q, k, x) \in [Pos -> EntradaCola]
        BY <3>1, <4>2 DEF Cargar
      <4>7. Cargar(q, k, x)[0].id # NULO
        <5>1. 0 \in Vacias(q) /\ \A j \in Pos : j <= 0 => j = 0
          BY <1>0, <4>2, NAssumption DEF Vacias, Pos
        <5>2. k = 0
          BY <4>1, <5>1 DEF EsPrimero
        <5>. QED BY <3>1, <4>2, <5>2 DEF Cargar
      <4>. HIDE DEF e
      <4>. QED BY <3>1, <4>1, <4>5, <4>6, <4>7, EmpezarEncolados
    <3>. QED BY <3>2, <3>3
  <2>2. ASSUME NEW i \in Pos, AgregarPrimero(i)
        PROVE  EnEstado(sDiscos', "SINCRONIZANDO") \subseteq EnEstado(sDiscos, "SINCRONIZANDO")
    BY <1>0, <2>2, SincronizandoMenos DEF AgregarPrimero
  <2>. QED BY <1>1, <1>2, <1>6, <2>1, <2>2 DEF ConsolaAgregar, AgregarNada, AgregarPrimero
<1>7. CASE Cierre
  <2>1. UNCHANGED <<cola, sDiscos>> \/ EnviarOtroASincronizar
    BY <1>7 DEF Cierre
  <2>2. CASE EnviarOtroASincronizar /\ EnCurso
    <3>1. UNCHANGED <<cola, sDiscos>> \/ (SincronizarDisco(sDiscos, cola) /\ cola[0].id # NULO)
      BY <2>2 DEF EnviarOtroASincronizar, EnCurso
    <3>. QED BY <1>0, <1>2, <3>1, EmpezarEncolados
  <2>3. CASE EnviarOtroASincronizar /\ ~EnCurso
    <3>1. \A j \in Pos : cola[j].id = NULO /\ Correr(cola)[j].id = NULO
      BY <2>3, SinCursoVacia, CorrerVacia
    <3>2. cola' = Correr(cola) /\ UNCHANGED sDiscos
      BY <1>0, <2>3, <3>1 DEF EnviarOtroASincronizar
    <3>. QED BY <3>1, <3>2 DEF Encolados, Vacias
  <2>. QED BY <1>2, <2>1, <2>2, <2>3
<1>8. CASE \E c \in Conexiones : \/ ProtocoloIncorrecto(c) \/ RespuestaDos(c)
                                 \/ RespuestaUno(c) \/ RespuestaPut(c) \/ HiloInicia(c)
                                 \/ DiscoAtiende(c) \/ DiscoCae(c)
  BY <1>2, <1>8 DEF ProtocoloIncorrecto, RespuestaDos, RespuestaUno, RespuestaPut,
                    HiloInicia, DiscoAtiende, DiscoCae
<1>9. CASE \/ ConsolaIniciar \/ ConsolaDetener \/ ConsolaEstado \/ ConsolaSalir
           \/ Vsk \/ SaleDelCiclo
  BY <1>2, <1>9 DEF ConsolaIniciar, ConsolaDetener, ConsolaEstado, ConsolaSalir, Vsk,
                    VskGet, VskPut, VskDesconecta, SaleDelCiclo
<1>10. CASE UNCHANGED vars
  BY <1>2, <1>10 DEF vars
<1>. QED BY <1>3, <1>4, <1>5, <1>6, <1>7, <1>8, <1>9, <1>10 DEF Next, Respuesta, Consola

\* A disk in SINCRONIZANDO has its entry in the queue, whatever the operator
\* adds or removes meanwhile, unless the queue is full: its end is pending.
THEOREM SincronizandoConEntrada == Spec => []SincronizandoEncolado
<1>1. Init => ColaContigua /\ Encolados(sDiscos, cola)
  <2>. SUFFICES ASSUME Init
                PROVE  ColaContigua /\ EnEstado(sDiscos, "SINCRONIZANDO") = {}
    BY DEF Encolados
  <2>1. ColaContigua
    BY DEF Init, ColaInicial, ColaContigua
  <2>2. EnEstado(sDiscos, "SINCRONIZANDO") = {}
    BY DEF Init, EnEstado, RespaldarLista, LugarVacio
  <2>. QED BY <2>1, <2>2
<1>2. /\ InvTipos /\ ColaContigua /\ Encolados(sDiscos, cola) /\ [Next]_vars
          => (ColaContigua /\ Encolados(sDiscos, cola))'
  BY ColaPaso, EncoladoPaso DEF Encolados, EnEstado, Vacias
<1>3. Encolados(sDiscos, cola) <=> SincronizandoEncolado
  BY DEF Encolados, SincronizandoEncolado
<1>. QED BY <1>1, <1>2, <1>3, SpecTipos, PTL DEF Spec

-----------------------------------------------------------------------------
(* What travels.  Most steps create no message of a class: each one of it     *)
(* that is in a channel after the step was in that channel before, the same   *)
(* number of places further on.                                               *)

Clases == {"consola", "get", "put"}

\* The requests and answers of a synchronisation and of the reads; the writes.
De(m, p) == IF p = "put" THEN m.t = "PUT"
            ELSE m.t \in {"GET1", "GET2", "RTA", "RTAb"} /\ m.id[1] = p

Conserva(s, t, j, p) ==
    \A k \in 1..Len(t) : De(t[k], p) => k + j \in 1..Len(s) /\ s[k + j] = t[k]

Viene(s, t, p) == \E j \in Nat : Conserva(s, t, j, p)

CanalesConservan(p) == \A c \in Conexiones :
    Viene(aDisco[c], aDisco'[c], p) /\ Viene(deDisco[c], deDisco'[c], p)

LEMMA VieneMismo ==
    ASSUME NEW S, NEW s \in Seq(S), NEW p
    PROVE  Viene(s, s, p) /\ Viene(s, <<>>, p)
<1>1. Conserva(s, s, 0, p) /\ Conserva(s, <<>>, 0, p)
  BY DEF Conserva
<1>. QED BY <1>1 DEF Viene

LEMMA VieneResto ==
    ASSUME NEW S, NEW s \in Seq(S), s # <<>>, NEW p
    PROVE  Viene(s, Tail(s), p)
<1>1. Conserva(s, Tail(s), 1, p)
  <2>1. Len(s) \in Nat /\ Len(Tail(s)) = Len(s) - 1 /\ \A k \in 1..Len(Tail(s)) : Tail(s)[k] = s[k + 1]
    OBVIOUS
  <2>. QED BY <2>1 DEF Conserva
<1>. QED BY <1>1 DEF Viene

LEMMA VieneCorte ==
    ASSUME NEW S, NEW s \in Seq(S), NEW n \in 0..Len(s), NEW p
    PROVE  Viene(s, SubSeq(s, 1, n), p)
<1>1. Conserva(s, SubSeq(s, 1, n), 0, p)
  <2>1. /\ Len(s) \in Nat /\ Len(SubSeq(s, 1, n)) = n
        /\ \A k \in 1..n : SubSeq(s, 1, n)[k] = s[k]
    OBVIOUS
  <2>. QED BY <2>1 DEF Conserva
<1>. QED BY <1>1 DEF Viene

LEMMA VieneSinLeer ==
    ASSUME NEW S, NEW s \in Seq(S), s # <<>>, NEW p
    PROVE  Viene(s, <<[t |-> "BASURA"]>> \o Tail(s), p)
<1>. DEFINE b == [t |-> "BASURA"]
            r == <<b>> \o Tail(s)
<1>1. /\ Len(r) = Len(s) /\ Len(s) \in Nat /\ r[1] = b
      /\ \A k \in 1..Len(r) : k > 1 => r[k] = s[k]
  OBVIOUS
<1>2. ~De(b, p)
  BY DEF De
<1>. HIDE DEF b, r
<1>3. Conserva(s, r, 0, p)
  BY <1>1, <1>2 DEF Conserva
<1>. QED BY <1>3 DEF Viene, r, b

LEMMA VieneMas ==
    ASSUME NEW S, NEW s \in Seq(S), NEW m, NEW p, ~De(m, p)
    PROVE  Viene(s, Append(s, m), p)
<1>1. /\ Len(Append(s, m)) = Len(s) + 1 /\ Len(s) \in Nat
      /\ Append(s, m)[Len(s) + 1] = m
      /\ \A k \in 1..Len(s) : Append(s, m)[k] = s[k]
  OBVIOUS
<1>2. Conserva(s, Append(s, m), 0, p)
  BY <1>1 DEF Conserva
<1>. QED BY <1>2 DEF Viene

LEMMA VieneDelante ==
    ASSUME NEW S, NEW s \in Seq(S), NEW f \in Seq(S), NEW p,
           \A k \in 1..Len(f) : ~De(f[k], p)
    PROVE  Viene(s, s \o f, p)
<1>1. /\ Len(s \o f) = Len(s) + Len(f) /\ Len(s) \in Nat /\ Len(f) \in Nat
      /\ \A k \in 1..(Len(s) + Len(f)) :
            (s \o f)[k] = IF k <= Len(s) THEN s[k] ELSE f[k - Len(s)]
  OBVIOUS
<1>2. \A k \in 1..(Len(s) + Len(f)) : ~(k <= Len(s)) => k - Len(s) \in 1..Len(f)
  BY <1>1
<1>. DEFINE r == s \o f
<1>. HIDE DEF r
<1>3. Conserva(s, r, 0, p)
  BY <1>1, <1>2 DEF Conserva, r
<1>. QED BY <1>3 DEF Viene, r

\* What is sent adds no message of a class it has none of.
LEMMA EnviarViene ==
    ASSUME aDisco \in [Conexiones -> Seq(AlDisco)],
           NEW f \in [Conexiones -> Seq(AlDisco)], NEW p, NEW sigue,
           \A c \in Conexiones : \A k \in 1..Len(f[c]) : ~De(f[c][k], p),
           Enviar(f, sigue)
    PROVE  \A c \in Conexiones : Viene(aDisco[c], aDisco'[c], p)
<1>. SUFFICES ASSUME NEW c \in Conexiones
              PROVE  Viene(aDisco[c], aDisco'[c], p)
  OBVIOUS
<1>1. aDisco'[c] = aDisco[c] \o f[c] \/ aDisco'[c] = aDisco[c]
  BY DEF Enviar
<1>2. aDisco[c] \in Seq(AlDisco) /\ f[c] \in Seq(AlDisco)
  OBVIOUS
<1>. QED BY <1>1, <1>2, VieneDelante, VieneMismo

\* What the main thread reads, or does not, from a socket.
LEMMA RecibirViene ==
    ASSUME deDisco \in [Conexiones -> Seq(DelDisco)],
           NEW c \in Conexiones, deDisco[c] # <<>>, NEW p,
           Recibir(c) \/ SinLeer(c) \/ deDisco' = [deDisco EXCEPT ![c] = <<>>]
    PROVE  \A d \in Conexiones : Viene(deDisco[d], deDisco'[d], p)
<1>. SUFFICES ASSUME NEW d \in Conexiones
              PROVE  Viene(deDisco[d], deDisco'[d], p)
  OBVIOUS
<1>. DEFINE s == deDisco[d]
<1>1. s \in Seq(DelDisco)
  OBVIOUS
<1>2. CASE d # c
  <2>1. deDisco'[d] = s
    BY <1>2 DEF Recibir, SinLeer
  <2>. QED BY <1>1, <2>1, VieneMismo
<1>3. CASE d = c
  <2>1. \/ deDisco'[d] = Tail(s) \/ deDisco'[d] = <<>>
        \/ deDisco'[d] = <<[t |-> "BASURA"]>> \o Tail(s)
    BY <1>3 DEF Recibir, SinLeer
  <2>2. s # <<>>
    BY <1>3
  <2>. HIDE DEF s
  <2>3. Viene(s, Tail(s), p) /\ Viene(s, <<>>, p) /\ Viene(s, <<[t |-> "BASURA"]>> \o Tail(s), p)
    BY <1>1, <2>2, VieneResto, VieneMismo, VieneSinLeer
  <2>. QED BY <2>1, <2>3 DEF s
<1>. QED BY <1>2, <1>3

LEMMA QuietosConservan ==
    ASSUME InvTipos, UNCHANGED canales, NEW p
    PROVE  CanalesConservan(p)
  BY VieneMismo DEF InvTipos, TypeOK, TipoHilos, canales, CanalesConservan

\* The steps that ask nothing of a disk, write nothing and get no answer.
Callado ==
    \/ \E d \in Discos : HandshakeDisco(d) \/ ConsolaEliminar(d)
    \/ \E c \in Conexiones :
          \/ AsociarHilo(c) \/ Desconexion(c) \/ ProtocoloIncorrecto(c)
          \/ RespuestaDos(c) \/ RespuestaUno(c) \/ RespuestaPut(c)
          \/ HiloInicia(c) \/ DiscoCae(c)
    \/ ConsolaIniciar \/ ConsolaDetener \/ ConsolaEstado \/ ConsolaSalir
    \/ VskDesconecta \/ SaleDelCiclo
    \/ UNCHANGED vars

LEMMA CalladoConserva ==
    ASSUME InvTipos, Callado, NEW p
    PROVE  CanalesConservan(p)
<1>0. /\ aDisco \in [Conexiones -> Seq(AlDisco)]
      /\ deDisco \in [Conexiones -> Seq(DelDisco)]
  BY DEF InvTipos, TypeOK, TipoHilos
<1>1. UNCHANGED aDisco => \A c \in Conexiones : Viene(aDisco[c], aDisco'[c], p)
  BY <1>0, VieneMismo
<1>2. UNCHANGED deDisco => \A c \in Conexiones : Viene(deDisco[c], deDisco'[c], p)
  BY <1>0, VieneMismo
<1>3. ASSUME NEW d \in Discos, HandshakeDisco(d)
      PROVE  CanalesConservan(p)
  <2>1. UNCHANGED deDisco /\ (UNCHANGED aDisco \/
            aDisco' = [x \in Conexiones |-> IF hilo[x].disco = d THEN <<>> ELSE aDisco[x]])
    BY <1>3 DEF HandshakeDisco, HandshakeAceptado, HandshakeRechazado
  <2>2. \A c \in Conexiones : aDisco'[c] = aDisco[c] \/ aDisco'[c] = <<>>
    BY <2>1
  <2>3. \A c \in Conexiones : Viene(aDisco[c], aDisco'[c], p)
    BY <1>0, <2>2, VieneMismo
  <2>. QED BY <1>2, <2>1, <2>3 DEF CanalesConservan
<1>4. ASSUME NEW d \in Discos, ConsolaEliminar(d)
      PROVE  CanalesConservan(p)
  <2>1. UNCHANGED canales \/ \E c \in Conexiones : EliminaPuente(c)
    BY <1>4 DEF ConsolaEliminar, canales
  <2>2. ASSUME NEW c \in Conexiones, EliminaPuente(c)
        PROVE  CanalesConservan(p)
    <3>1. PICK n \in 0..Len(aDisco[c]) : aDisco' = [aDisco EXCEPT ![c] = SubSeq(@, 1, n)]
      BY <2>2 DEF EliminaPuente
    <3>2. \A x \in Conexiones :
             /\ aDisco'[x] = IF x = c THEN SubSeq(aDisco[c], 1, n) ELSE aDisco[x]
             /\ deDisco'[x] = IF x = c THEN <<>> ELSE deDisco[x]
      BY <1>0, <2>2, <3>1 DEF EliminaPuente
    <3>3. Viene(aDisco[c], SubSeq(aDisco[c], 1, n), p)
      BY <1>0, VieneCorte
    <3>. QED BY <1>0, <3>2, <3>3, VieneMismo DEF CanalesConservan
  <2>. QED BY <2>1, <2>2, QuietosConservan
<1>5. ASSUME NEW c \in Conexiones,
             \/ AsociarHilo(c) \/ Desconexion(c) \/ ProtocoloIncorrecto(c)
             \/ RespuestaDos(c) \/ RespuestaUno(c) \/ RespuestaPut(c)
      PROVE  CanalesConservan(p)
  <2>1. deDisco[c] # <<>> /\ UNCHANGED aDisco
    BY <1>5 DEF AsociarHilo, Desconexion, ProtocoloIncorrecto, RespuestaDos, RespuestaUno,
                RespuestaPut, Llega
  <2>2. Recibir(c) \/ SinLeer(c) \/ deDisco' = [deDisco EXCEPT ![c] = <<>>]
    BY <1>5 DEF AsociarHilo, Desconexion, ProtocoloIncorrecto, RespuestaDos, RespuestaUno,
                RespuestaPut
  <2>. QED BY <1>0, <1>1, <2>1, <2>2, RecibirViene DEF CanalesConservan
<1>6. ASSUME NEW c \in Conexiones, HiloInicia(c) \/ DiscoCae(c)
      PROVE  CanalesConservan(p)
  <2>1. \A x \in Conexiones : aDisco'[x] = aDisco[x] \/ aDisco'[x] = <<>>
    BY <1>0, <1>6 DEF HiloInicia, DiscoCae
  <2>2. UNCHANGED deDisco \/ \E m : m.t \in {"HILO", "EOF"} /\ Contestar(c, m)
    <3>1. CASE HiloInicia(c)
      <4>. DEFINE m == [t |-> "HILO", nombre |-> sDiscos[hilo[c].pos].nombre]
      <4>1. m.t = "HILO" /\ (UNCHANGED deDisco \/ Contestar(c, m))
        BY <3>1 DEF HiloInicia
      <4>. HIDE DEF m
      <4>. QED BY <4>1
    <3>2. CASE DiscoCae(c)
      <4>. DEFINE m == [t |-> "EOF"]
      <4>1. m.t = "EOF" /\ Contestar(c, m)
        BY <3>2 DEF DiscoCae
      <4>. HIDE DEF m
      <4>. QED BY <4>1
    <3>. QED BY <1>6, <3>1, <3>2
  <2>3. ASSUME NEW m, m.t \in {"HILO", "EOF"}, Contestar(c, m)
        PROVE  \A x \in Conexiones : Viene(deDisco[x], deDisco'[x], p)
    <3>1. \A x \in Conexiones :
              deDisco'[x] = IF x = c THEN Append(deDisco[c], m) ELSE deDisco[x]
      BY <1>0, <2>3 DEF Contestar
    <3>2. ~De(m, p)
      BY <2>3 DEF De
    <3>3. Viene(deDisco[c], Append(deDisco[c], m), p)
      BY <1>0, <3>2, VieneMas
    <3>. QED BY <1>0, <3>1, <3>3, VieneMismo
  <2>4. \A x \in Conexiones : Viene(aDisco[x], aDisco'[x], p)
    BY <1>0, <2>1, VieneMismo
  <2>. QED BY <1>2, <2>2, <2>3, <2>4 DEF CanalesConservan
<1>7. CASE \/ ConsolaIniciar \/ ConsolaDetener \/ ConsolaEstado \/ ConsolaSalir
           \/ VskDesconecta \/ SaleDelCiclo \/ UNCHANGED vars
  <2>1. UNCHANGED canales
    BY <1>7 DEF ConsolaIniciar, ConsolaDetener, ConsolaEstado, ConsolaSalir,
                VskDesconecta, SaleDelCiclo, vars, canales
  <2>. QED BY <2>1, QuietosConservan
<1>. QED BY <1>3, <1>4, <1>5, <1>6, <1>7 DEF Callado

\* Where each message sent was: in the channel, or in what was sent.
LEMMA EnviarOrigen ==
    ASSUME aDisco \in [Conexiones -> Seq(AlDisco)],
           NEW f \in [Conexiones -> Seq(AlDisco)], NEW sigue, Enviar(f, sigue),
           NEW c \in Conexiones, NEW k \in 1..Len(aDisco'[c])
    PROVE  \/ k \in 1..Len(aDisco[c]) /\ aDisco'[c][k] = aDisco[c][k]
           \/ \E l \in 1..Len(f[c]) : k = Len(aDisco[c]) + l /\ aDisco'[c][k] = f[c][l]
<1>1. aDisco[c] \in Seq(AlDisco) /\ f[c] \in Seq(AlDisco)
  OBVIOUS
<1>2. aDisco'[c] = aDisco[c] \o f[c] \/ aDisco'[c] = aDisco[c]
  BY DEF Enviar
<1>3. CASE aDisco'[c] = aDisco[c]
  BY <1>3
<1>4. CASE aDisco'[c] = aDisco[c] \o f[c]
  <2>. DEFINE s == aDisco[c]
              g == f[c]
  <2>1. /\ Len(s \o g) = Len(s) + Len(g) /\ Len(s) \in Nat /\ Len(g) \in Nat
        /\ \A i \in 1..(Len(s) + Len(g)) :
              (s \o g)[i] = IF i <= Len(s) THEN s[i] ELSE g[i - Len(s)]
    BY <1>1
  <2>. HIDE DEF s, g
  <2>2. aDisco'[c] = s \o g /\ k \in 1..(Len(s) + Len(g))
    BY <1>4, <2>1 DEF s, g
  <2>3. CASE k <= Len(s)
    BY <2>1, <2>2, <2>3 DEF s
  <2>4. CASE ~(k <= Len(s))
    <3>1. k - Len(s) \in 1..Len(g) /\ k = Len(s) + (k - Len(s))
      BY <2>1, <2>2, <2>4
    <3>2. aDisco'[c][k] = g[k - Len(s)]
      BY <2>1, <2>2, <2>4
    <3>. QED BY <3>1, <3>2 DEF s, g
  <2>. QED BY <2>3, <2>4
<1>. QED BY <1>2, <1>3, <1>4

\* A disk takes the first request sent to it and adds its answer.
LEMMA DiscoOrigen ==
    ASSUME InvTipos, NEW c \in Conexiones, DiscoAtiende(c)
    PROVE  /\ aDisco[c] # <<>> /\ 1 \in 1..Len(aDisco[c]) /\ Head(aDisco[c]) = aDisco[c][1]
           /\ \A d \in Conexiones : \A k \in 1..Len(aDisco'[d]) :
                 IF d = c THEN k + 1 \in 1..Len(aDisco[c]) /\ aDisco'[c][k] = aDisco[c][k + 1]
                          ELSE k \in 1..Len(aDisco[d]) /\ aDisco'[d][k] = aDisco[d][k]
           /\ \A d \in Conexiones : \A k \in 1..Len(deDisco'[d]) :
                 \/ k \in 1..Len(deDisco[d]) /\ deDisco'[d][k] = deDisco[d][k]
                 \/ /\ d = c /\ k = Len(deDisco[c]) + 1 /\ hilo[c].fase = "activa"
                    /\ deDisco'[c][k] = Servir(aDisco[c][1], datos[hilo[c].disco])
<1>0. /\ aDisco \in [Conexiones -> Seq(AlDisco)] /\ deDisco \in [Conexiones -> Seq(DelDisco)]
      /\ aDisco[c] # <<>>
  BY DEF InvTipos, TypeOK, TipoHilos, DiscoAtiende
<1>1. /\ aDisco[c] \in Seq(AlDisco) /\ 1 \in 1..Len(aDisco[c])
      /\ Head(aDisco[c]) = aDisco[c][1] /\ Len(aDisco[c]) \in Nat
      /\ Len(Tail(aDisco[c])) = Len(aDisco[c]) - 1
      /\ \A k \in 1..Len(Tail(aDisco[c])) : Tail(aDisco[c])[k] = aDisco[c][k + 1]
  BY <1>0
<1>2. \A d \in Conexiones : aDisco'[d] = IF d = c THEN Tail(aDisco[c]) ELSE aDisco[d]
  BY <1>0 DEF DiscoAtiende
<1>3. \A d \in Conexiones : \A k \in 1..Len(aDisco'[d]) :
         IF d = c THEN k + 1 \in 1..Len(aDisco[c]) /\ aDisco'[c][k] = aDisco[c][k + 1]
                  ELSE k \in 1..Len(aDisco[d]) /\ aDisco'[d][k] = aDisco[d][k]
  <2>1. \A k \in 1..Len(Tail(aDisco[c])) : k + 1 \in 1..Len(aDisco[c])
    BY <1>1
  <2>. DEFINE r == Tail(aDisco[c])
  <2>2. \A d \in Conexiones : aDisco'[d] = IF d = c THEN r ELSE aDisco[d]
    BY <1>2
  <2>3. \A k \in 1..Len(r) : k + 1 \in 1..Len(aDisco[c]) /\ r[k] = aDisco[c][k + 1]
    BY <1>1, <2>1
  <2>. HIDE DEF r
  <2>. QED BY <2>2, <2>3
<1>4. ASSUME NEW d \in Conexiones, NEW k \in 1..Len(deDisco'[d])
      PROVE  \/ k \in 1..Len(deDisco[d]) /\ deDisco'[d][k] = deDisco[d][k]
             \/ /\ d = c /\ k = Len(deDisco[c]) + 1 /\ hilo[c].fase = "activa"
                /\ deDisco'[c][k] = Servir(aDisco[c][1], datos[hilo[c].disco])
  <2>. DEFINE m == Servir(aDisco[c][1], datos[hilo[c].disco])
  <2>1. \/ UNCHANGED deDisco
        \/ hilo[c].fase = "activa" /\ Contestar(c, m)
    BY <1>1 DEF DiscoAtiende
  <2>. HIDE DEF m
  <2>2. CASE UNCHANGED deDisco
    BY <1>4, <2>2
  <2>3. CASE hilo[c].fase = "activa" /\ Contestar(c, m)
    <3>1. deDisco'[d] = IF d = c THEN Append(deDisco[c], m) ELSE deDisco[d]
      BY <1>0, <2>3 DEF Contestar
    <3>2. deDisco[c] \in Seq(DelDisco)
      BY <1>0
    <3>3. /\ Len(Append(deDisco[c], m)) = Len(deDisco[c]) + 1 /\ Len(deDisco[c]) \in Nat
          /\ Append(deDisco[c], m)[Len(deDisco[c]) + 1] = m
          /\ \A i \in 1..Len(deDisco[c]) : Append(deDisco[c], m)[i] = deDisco[c][i]
      BY <3>2
    <3>4. CASE d # c
      BY <1>4, <3>1, <3>4
    <3>5. CASE d = c
      <4>. DEFINE r == Append(deDisco[c], m)
      <4>1. deDisco'[c] = r /\ k \in 1..Len(r)
        BY <1>4, <3>1, <3>5
      <4>. HIDE DEF r
      <4>2. Len(r) = Len(deDisco[c]) + 1 /\ r[Len(deDisco[c]) + 1] = m
            /\ \A i \in 1..Len(deDisco[c]) : r[i] = deDisco[c][i]
        BY <3>3 DEF r
      <4>3. k \in 1..Len(deDisco[c]) \/ k = Len(deDisco[c]) + 1
        BY <3>3, <4>1, <4>2
      <4>. QED BY <2>3, <3>5, <4>1, <4>2, <4>3 DEF m
    <3>. QED BY <3>4, <3>5
  <2>. QED BY <2>1, <2>2, <2>3
<1>. QED BY <1>0, <1>1, <1>3, <1>4

-----------------------------------------------------------------------------
(* The copy of a disk.  The answer to a synchronisation is written to the     *)
(* sectors entry 0 of the queue says, whatever it brings, so what must be     *)
(* invariant is that there is one under way at most, and for those sectors.   *)

\* What was left in the memory of the queue does not look like the number of a
\* last sector: if it does, the synchronisation in progress is started again.
SinReinicio == \A b \in Basura : b < Total - 1

Trae(c, v, k) == k \in 1..Len(Canal(c, v))
SincEn(c, v, k) == Trae(c, v, k) /\ De(Canal(c, v)[k], "consola")

UnaSola ==
    \A c, d \in Conexiones, v, w \in Sentidos, k, l \in Nat :
        SincEn(c, v, k) /\ SincEn(d, w, l) => c = d /\ v = w /\ k = l

\* The message is of entry 0, which has begun, and for its sectors.
EsDeLaEntrada(m, v, q) ==
    /\ m.id = q.id /\ q.act >= 1 /\ q.act % 2 = 1
    /\ v = "ida" => m.t = "GET2" /\ m.s1 = q.act - 1 /\ m.s2 = q.act
    /\ v = "vuelta" => m.t = "RTA" /\ m.d1.sec = q.act - 1 /\ m.d2.sec = q.act

DeLaEntrada ==
    \A c \in Conexiones, v \in Sentidos, k \in Nat :
        SincEn(c, v, k) => EsDeLaEntrada(Canal(c, v)[k], v, cola[0])

\* The entries: their ids are of the console, and all but the first one start.
DeConsola(q) == \A i \in Pos : q[i].id # NULO => q[i].id[1] = "consola"
SinEmpezar(q) == \A i \in Pos : i # 0 => q[i].act < Total - 1

PutBien(m) == m.t = "PUT" => m.d1.sec = m.s1 /\ m.d2.sec = m.s2
PutsBien == \A c \in Conexiones : \A k \in 1..Len(aDisco[c]) : PutBien(aDisco[c][k])

InvSinc == /\ UnaSola /\ DeLaEntrada /\ DeConsola(cola) /\ SinEmpezar(cola)
           /\ PutsBien /\ SectorPropio

SinSinc == \A c \in Conexiones, v \in Sentidos, k \in Nat : ~SincEn(c, v, k)

LEMMA SinSincBasta == SinSinc => UnaSola /\ DeLaEntrada
  BY DEF SinSinc, UnaSola, DeLaEntrada

LEMMA SinCursoSinSinc ==
    ASSUME InvTipos, DeLaEntrada, ~EnCurso
    PROVE  SinSinc
<1>. SUFFICES ASSUME NEW c \in Conexiones, NEW v \in Sentidos, NEW k \in Nat, SincEn(c, v, k)
              PROVE  FALSE
  BY DEF SinSinc
<1>1. Canal(c, v)[k].id = NULO
  BY DEF DeLaEntrada, EsDeLaEntrada, EnCurso
<1>2. \A m \in AlDisco \union DelDisco : De(m, "consola") => m.id \in Ids
  BY DEF De, AlDisco, DelDisco, Pedidos1, Pedidos2, Escrituras, IdsLectura, Ids
<1>3. Canal(c, v)[k] \in AlDisco \union DelDisco
  <2>1. aDisco[c] \in Seq(AlDisco) /\ deDisco[c] \in Seq(DelDisco)
    BY DEF InvTipos, TypeOK, TipoHilos
  <2>2. \A S, s : s \in Seq(S) => \A i \in 1..Len(s) : s[i] \in S
    OBVIOUS
  <2>. QED BY <2>1, <2>2 DEF SincEn, Trae, Canal
<1>. QED BY <1>1, <1>2, <1>3, IdsAssumption DEF SincEn

\* Where a message of synchronisation was, when no step makes one.
LEMMA SincVino ==
    ASSUME CanalesConservan("consola"),
           NEW c \in Conexiones, NEW v \in Sentidos
    PROVE  \E j \in Nat : \A k \in Nat : SincEn(c, v, k)' =>
              SincEn(c, v, k + j) /\ Canal(c, v)[k + j] = Canal(c, v)'[k]
<1>1. PICK j \in Nat : Conserva(Canal(c, v), Canal(c, v)', j, "consola")
  BY DEF CanalesConservan, Viene, Canal
<1>. QED BY <1>1 DEF Conserva, SincEn, Trae

LEMMA SincSigue ==
    ASSUME UnaSola, DeLaEntrada, CanalesConservan("consola"),
           cola'[0].id = cola[0].id, cola'[0].act = cola[0].act
    PROVE  UnaSola' /\ DeLaEntrada'
<1>1. UnaSola'
  <2>. SUFFICES ASSUME NEW c \in Conexiones, NEW d \in Conexiones,
                       NEW v \in Sentidos, NEW w \in Sentidos,
                       NEW k \in Nat, NEW l \in Nat,
                       SincEn(c, v, k)', SincEn(d, w, l)'
                PROVE  c = d /\ v = w /\ k = l
    BY DEF UnaSola
  <2>1. PICK i \in Nat : \A x \in Nat : SincEn(c, v, x)' => SincEn(c, v, x + i)
    BY SincVino
  <2>2. PICK j \in Nat : \A x \in Nat : SincEn(d, w, x)' => SincEn(d, w, x + j)
    BY SincVino
  <2>3. k + i \in Nat /\ l + j \in Nat /\ l + i \in Nat
    OBVIOUS
  <2>4. SincEn(c, v, k + i) /\ SincEn(d, w, l + j)
    BY <2>1, <2>2
  <2>5. c = d /\ v = w
    BY <2>3, <2>4 DEF UnaSola
  <2>6. SincEn(c, v, l + i)
    BY <2>1, <2>5
  <2>7. k + i = l + i
    BY <2>3, <2>4, <2>6 DEF UnaSola
  <2>. QED BY <2>5, <2>7
<1>2. DeLaEntrada'
  <2>. SUFFICES ASSUME NEW c \in Conexiones, NEW v \in Sentidos, NEW k \in Nat,
                       SincEn(c, v, k)'
                PROVE  EsDeLaEntrada(Canal(c, v)'[k], v, cola'[0])
    BY DEF DeLaEntrada
  <2>1. PICK j \in Nat : SincEn(c, v, k + j) /\ Canal(c, v)[k + j] = Canal(c, v)'[k]
    BY SincVino
  <2>2. EsDeLaEntrada(Canal(c, v)'[k], v, cola[0])
    BY <2>1 DEF DeLaEntrada
  <2>. QED BY <2>2 DEF EsDeLaEntrada
<1>. QED BY <1>1, <1>2

LEMMA PutsSiguen ==
    ASSUME PutsBien, \A c \in Conexiones : Viene(aDisco[c], aDisco'[c], "put")
    PROVE  PutsBien'
<1>. SUFFICES ASSUME NEW c \in Conexiones, NEW k \in 1..Len(aDisco'[c])
              PROVE  PutBien(aDisco'[c][k])
  BY DEF PutsBien
<1>1. PICK j \in Nat : Conserva(aDisco[c], aDisco'[c], j, "put")
  BY DEF Viene
<1>2. CASE De(aDisco'[c][k], "put")
  BY <1>1, <1>2 DEF Conserva, PutsBien
<1>3. CASE ~De(aDisco'[c][k], "put")
  BY <1>3 DEF De, PutBien
<1>. QED BY <1>2, <1>3

\* The messages a send is made of.
LEMMA PorMensajes ==
    ASSUME NEW S, NEW m \in S, NEW s
    PROVE  /\ Por(s, m) \in [Conexiones -> Seq(S)]
           /\ \A c \in Conexiones : \A k \in 1..Len(Por(s, m)[c]) :
                 c = s /\ k = 1 /\ Len(Por(s, m)[c]) = 1 /\ Por(s, m)[c][k] = m
<1>1. Por(s, m) \in [Conexiones -> Seq(S)]
  BY PorTipo
<1>. SUFFICES ASSUME NEW c \in Conexiones, NEW k \in 1..Len(Por(s, m)[c])
              PROVE  c = s /\ k = 1 /\ Len(Por(s, m)[c]) = 1 /\ Por(s, m)[c][k] = m
  BY <1>1
<1>2. Por(s, m)[c] = IF c = s THEN <<m>> ELSE <<>>
  BY DEF Por
<1>. QED BY <1>2

EsJunta(r, f, g) == \A c \in Conexiones :
    /\ Len(r[c]) = Len(f[c]) + Len(g[c])
    /\ \A k \in 1..Len(r[c]) :
          \/ k \in 1..Len(f[c]) /\ r[c][k] = f[c][k]
          \/ \E l \in 1..Len(g[c]) : k = Len(f[c]) + l /\ r[c][k] = g[c][l]

LEMMA LuegoMensajes ==
    ASSUME NEW f \in [Conexiones -> Seq(AlDisco)], NEW g \in [Conexiones -> Seq(AlDisco)]
    PROVE  Luego(f, g) \in [Conexiones -> Seq(AlDisco)] /\ EsJunta(Luego(f, g), f, g)
<1>1. Luego(f, g) \in [Conexiones -> Seq(AlDisco)]
  BY ConcatProperties DEF Luego
<1>2. ASSUME NEW c \in Conexiones
      PROVE  /\ Len(Luego(f, g)[c]) = Len(f[c]) + Len(g[c])
             /\ \A k \in 1..Len(Luego(f, g)[c]) :
                  \/ k \in 1..Len(f[c]) /\ Luego(f, g)[c][k] = f[c][k]
                  \/ \E l \in 1..Len(g[c]) : k = Len(f[c]) + l /\ Luego(f, g)[c][k] = g[c][l]
  <2>. DEFINE s == f[c]
              t == g[c]
              r == s \o t
  <2>1. s \in Seq(AlDisco) /\ t \in Seq(AlDisco)
    OBVIOUS
  <2>2. /\ Len(r) = Len(s) + Len(t) /\ Len(s) \in Nat /\ Len(t) \in Nat
        /\ \A i \in 1..(Len(s) + Len(t)) : r[i] = IF i <= Len(s) THEN s[i] ELSE t[i - Len(s)]
    BY <2>1
  <2>3. Luego(f, g)[c] = r
    BY DEF Luego
  <2>. HIDE DEF r, s, t
  <2>4. ASSUME NEW k \in 1..Len(r)
        PROVE  \/ k \in 1..Len(s) /\ r[k] = s[k]
               \/ \E l \in 1..Len(t) : k = Len(s) + l /\ r[k] = t[l]
    <3>1. CASE k <= Len(s)
      BY <2>2, <2>4, <3>1
    <3>2. CASE ~(k <= Len(s))
      <4>1. k - Len(s) \in 1..Len(t) /\ k = Len(s) + (k - Len(s)) /\ r[k] = t[k - Len(s)]
        BY <2>2, <2>4, <3>2
      <4>. QED BY <4>1
    <3>. QED BY <3>1, <3>2
  <2>. QED BY <2>2, <2>3, <2>4 DEF s, t
<1>. QED BY <1>1, <1>2 DEF EsJunta

\* No message of synchronisation travels but m, the n-th one to socket h.
SoloEn(h, n, m) ==
    \A c \in Conexiones, v \in Sentidos, k \in Nat :
        SincEn(c, v, k) => c = h /\ v = "ida" /\ k = n /\ Canal(c, v)[k] = m

LEMMA UnaNueva ==
    ASSUME NEW h, NEW n, NEW m, SoloEn(h, n, m)', EsDeLaEntrada(m, "ida", cola'[0])
    PROVE  UnaSola' /\ DeLaEntrada'
<1>1. UnaSola'
  BY DEF UnaSola, SoloEn
<1>2. DeLaEntrada'
  BY DEF DeLaEntrada, SoloEn
<1>. QED BY <1>1, <1>2

LEMMA SincEnSon ==
    /\ \A c, k : SincEn(c, "ida", k) <=> k \in 1..Len(aDisco[c]) /\ De(aDisco[c][k], "consola")
    /\ \A c, k : SincEn(c, "vuelta", k) <=> k \in 1..Len(deDisco[c]) /\ De(deDisco[c][k], "consola")
  BY DEF SincEn, Trae, Canal

\* f sends one message of synchronisation at most: m, the last one to socket h.
MandaUna(f, h, m) == \A c \in Conexiones : \A k \in 1..Len(f[c]) :
    De(f[c][k], "consola") => c = h /\ k = Len(f[c]) /\ f[c][k] = m

NingunaPorVia(v) == \A c \in Conexiones, k \in Nat : ~SincEn(c, v, k)

LEMMA EnviarNueva ==
    ASSUME InvTipos, NEW f \in [Conexiones -> Seq(AlDisco)], NEW sigue, Enviar(f, sigue),
           NingunaPorVia("ida"), NingunaPorVia("vuelta")',
           NEW h, NEW m, MandaUna(f, h, m), EsDeLaEntrada(m, "ida", cola'[0])
    PROVE  UnaSola' /\ DeLaEntrada'
<1>. USE DEF NingunaPorVia, MandaUna
<1>0. PICK n : n = Len(aDisco[h]) + Len(f[h])
  OBVIOUS
<1>1. aDisco \in [Conexiones -> Seq(AlDisco)]
  BY DEF InvTipos, TypeOK, TipoHilos
<1>2. ASSUME NEW c \in Conexiones, NEW k \in Nat, SincEn(c, "ida", k)'
      PROVE  c = h /\ k = n /\ aDisco'[c][k] = m
  <2>1. k \in 1..Len(aDisco'[c]) /\ De(aDisco'[c][k], "consola")
    BY <1>2 DEF SincEn, Trae, Canal
  <2>2. ~(k \in 1..Len(aDisco[c]) /\ aDisco'[c][k] = aDisco[c][k])
    BY <1>2, <2>1, SincEnSon
  <2>3. PICK l \in 1..Len(f[c]) : k = Len(aDisco[c]) + l /\ aDisco'[c][k] = f[c][l]
    BY <1>1, <2>1, <2>2, EnviarOrigen
  <2>. QED BY <1>0, <2>1, <2>3
<1>3. ASSUME NEW c \in Conexiones, NEW v \in Sentidos, NEW k \in Nat, SincEn(c, v, k)'
      PROVE  c = h /\ v = "ida" /\ k = n /\ Canal(c, v)'[k] = m
  <2>1. v = "ida" \/ v = "vuelta"
    BY DEF Sentidos
  <2>2. v = "ida"
    BY <1>3, <2>1
  <2>. QED BY <1>2, <1>3, <2>2 DEF Canal
<1>4. SoloEn(h, n, m)'
  BY <1>3 DEF SoloEn
<1>. QED BY <1>4, UnaNueva

\* The start of entry 0, with no synchronisation under way.
LEMMA EmpezarSinc ==
    ASSUME InvTipos, SinSinc, NEW e, NEW q \in [Pos -> EntradaCola], q[0].id # NULO,
           SincronizarDisco(e, q), UNCHANGED deDisco
    PROVE  /\ UnaSola' /\ DeLaEntrada'
           /\ \A c \in Conexiones : Viene(aDisco[c], aDisco'[c], "put")
           /\ \A c \in Conexiones : Viene(aDisco[c], aDisco'[c], "get") \/ q[0].id[1] = "get"
<1>0. 0 \in Pos /\ 0 \in Sectores /\ 1 \in Sectores /\ aDisco \in [Conexiones -> Seq(AlDisco)]
  BY NAssumption, TotalAssumption DEF Pos, Sectores, InvTipos, TypeOK, TipoHilos
<1>1. q[0].id \in Ids
  BY <1>0 DEF EntradaCola
<1>2. PICK m : m = Get2(q[0].id, 0, 1)
  OBVIOUS
<1>3. /\ m \in AlDisco /\ m.t = "GET2" /\ m.id = q[0].id
      /\ m.s1 = 0 /\ m.s2 = 1
  <2>1. m \in AlDisco
    BY <1>0, <1>1, <1>2, MensajesTipo
  <2>. QED BY <1>2, <2>1 DEF Get2
<1>4. PICK h : h = e[q[0].orig].hilo
  OBVIOUS
<1>5. PICK f : f = Por(h, m)
  OBVIOUS
<1>6. /\ f \in [Conexiones -> Seq(AlDisco)]
      /\ \A c \in Conexiones : \A k \in 1..Len(f[c]) :
            c = h /\ k = 1 /\ Len(f[c]) = 1 /\ f[c][k] = m
  BY <1>3, <1>5, PorMensajes
<1>7. Enviar(f, proceso)
  BY <1>2, <1>4, <1>5 DEF SincronizarDisco
<1>8. cola'[0].id = q[0].id /\ cola'[0].act = 1
  BY <1>0 DEF SincronizarDisco, EntradaCola
<1>9. EsDeLaEntrada(m, "ida", cola'[0])
  BY <1>3, <1>8 DEF EsDeLaEntrada
<1>10. NingunaPorVia("ida")
  BY DEF SinSinc, Sentidos, NingunaPorVia
<1>11. NingunaPorVia("vuelta")'
  <2>1. NingunaPorVia("vuelta")
    BY DEF SinSinc, Sentidos, NingunaPorVia
  <2>. QED BY <2>1 DEF SincEn, Trae, Canal, NingunaPorVia
<1>12. UnaSola' /\ DeLaEntrada'
  <2>1. MandaUna(f, h, m)
    BY <1>6 DEF MandaUna
  <2>. QED BY <1>3, <1>6, <1>7, <1>9, <1>10, <1>11, <2>1, EnviarNueva
<1>13. \A p : (p = "put" \/ m.id[1] # p)
           => \A c \in Conexiones : \A k \in 1..Len(f[c]) : ~De(f[c][k], p)
  BY <1>3, <1>6 DEF De
<1>14. \A c \in Conexiones : Viene(aDisco[c], aDisco'[c], "put")
  BY <1>0, <1>6, <1>7, <1>13, EnviarViene
<1>15. q[0].id[1] # "get" => \A c \in Conexiones : Viene(aDisco[c], aDisco'[c], "get")
  BY <1>0, <1>3, <1>6, <1>7, <1>13, EnviarViene
<1>. QED BY <1>12, <1>14, <1>15

\* The reads and writes of the VSK.
LecturaEnvia(par, t1, t2) ==
    LET id == <<"get", Len(lecturas) + 1>>
        h1 == sDiscos[t1].hilo
        h2 == sDiscos[t2].hilo
    IN IF t1 = t2 THEN Por(h1, Get2(id, par[1], par[2]))
       ELSE Luego(Por(h1, Get1(id, par[1])), Por(h2, Get1(id, par[2])))

LEMMA VskGetEs ==
    ASSUME InvTipos, NEW par \in Pares, VskGet(par)
    PROVE  \/ UNCHANGED <<pedidos, lecturas, respuestas, aDisco>>
           \/ \E t1, t2 \in Pos : Repartir(par, t1, t2)
<1>1. CASE estadoActual = "FUERASERVICIO" /\ UNCHANGED <<pedidos, lecturas, respuestas, aDisco>>
  BY <1>1
<1>2. ASSUME NEW t1 \in Selectores, NEW t2 \in Selectores,
             ElegirDisco(sDiscos, sel1, sel2, t1, t2), t2 >= 0, Repartir(par, t1, t2)
      PROVE  \E u1, u2 \in Pos : Repartir(par, u1, u2)
  <2>1. sel1 \in Selectores /\ sel2 \in Selectores /\ (sel1 = -1 => sel2 = -1)
    BY DEF InvTipos, TypeOK, TipoControl, SelectoresJuntos
  <2>2. t1 \in Pos /\ t2 \in Pos
    BY <1>2, <2>1, ElegirTipo
  <2>. QED BY <1>2, <2>2
<1>3. \A t2 \in Selectores : ~(t2 < 0) => t2 >= 0
  BY NAssumption DEF Selectores
<1>. QED BY <1>1, <1>2, <1>3 DEF VskGet

\* The requests of a read: both sectors to one disk, or one to each.
MandaLectura(f, id, par, t1, t2) == \A c \in Conexiones : \A k \in 1..Len(f[c]) :
    \/ /\ t1 = t2 /\ c = sDiscos[t1].hilo /\ k = 1
       /\ f[c][k] = Get2(id, par[1], par[2])
    \/ /\ t1 # t2 /\ c = sDiscos[t1].hilo /\ k = 1
       /\ f[c][k] = Get1(id, par[1])
    \/ /\ t1 # t2 /\ c = sDiscos[t2].hilo
       /\ k = IF c = sDiscos[t1].hilo THEN 2 ELSE 1
       /\ f[c][k] = Get1(id, par[2])

LEMMA RepartirEnvia ==
    ASSUME InvTipos, NEW par \in Pares, NEW t1 \in Pos, NEW t2 \in Pos,
           Repartir(par, t1, t2)
    PROVE  \E f \in [Conexiones -> Seq(AlDisco)] :
              /\ \E sigue : Enviar(f, sigue)
              /\ MandaLectura(f, <<"get", Len(lecturas) + 1>>, par, t1, t2)
<1>. USE DEF MandaLectura
<1>0. PICK id : id = <<"get", Len(lecturas) + 1>>
  OBVIOUS
<1>1. PICK h1 : h1 = sDiscos[t1].hilo
  OBVIOUS
<1>2. PICK h2 : h2 = sDiscos[t2].hilo
  OBVIOUS
<1>3. id \in Ids /\ id \in IdsLectura /\ par[1] \in Sectores /\ par[2] \in Sectores
  BY <1>0, EntornoAssumption, LenProperties DEF Ids, IdsLectura, InvTipos, TypeOK, TipoHistoria
<1>4. /\ Get2(id, par[1], par[2]) \in AlDisco
      /\ Get1(id, par[1]) \in AlDisco /\ Get1(id, par[2]) \in AlDisco
  BY <1>3, MensajesTipo
<1>5. \E sigue : Enviar(LecturaEnvia(par, t1, t2), sigue)
  BY DEF Repartir, LecturaEnvia
<1>6. CASE t1 = t2
  <2>1. PICK f : f = Por(h1, Get2(id, par[1], par[2]))
    OBVIOUS
  <2>2. f = LecturaEnvia(par, t1, t2)
    BY <1>0, <1>1, <1>6, <2>1 DEF LecturaEnvia
  <2>3. /\ f \in [Conexiones -> Seq(AlDisco)]
        /\ \A c \in Conexiones : \A k \in 1..Len(f[c]) :
              c = h1 /\ k = 1 /\ Len(f[c]) = 1 /\ f[c][k] = Get2(id, par[1], par[2])
    BY <1>4, <2>1, PorMensajes
  <2>. QED BY <1>0, <1>1, <1>5, <1>6, <2>2, <2>3
<1>7. CASE t1 # t2
  <2>1. PICK g1 : g1 = Por(h1, Get1(id, par[1]))
    OBVIOUS
  <2>2. PICK g2 : g2 = Por(h2, Get1(id, par[2]))
    OBVIOUS
  <2>3. /\ g1 \in [Conexiones -> Seq(AlDisco)]
        /\ \A c \in Conexiones : \A k \in 1..Len(g1[c]) :
              c = h1 /\ k = 1 /\ Len(g1[c]) = 1 /\ g1[c][k] = Get1(id, par[1])
    BY <1>4, <2>1, PorMensajes
  <2>3a. /\ g2 \in [Conexiones -> Seq(AlDisco)]
         /\ \A c \in Conexiones : \A k \in 1..Len(g2[c]) :
              c = h2 /\ k = 1 /\ Len(g2[c]) = 1 /\ g2[c][k] = Get1(id, par[2])
    BY <1>4, <2>2, PorMensajes
  <2>4. PICK f : f = Luego(g1, g2)
    OBVIOUS
  <2>5. f = LecturaEnvia(par, t1, t2)
    BY <1>0, <1>1, <1>2, <1>7, <2>1, <2>2, <2>4 DEF LecturaEnvia
  <2>6. f \in [Conexiones -> Seq(AlDisco)] /\ EsJunta(f, g1, g2)
    BY <2>3, <2>3a, <2>4, LuegoMensajes
  <2>7. \A c \in Conexiones : Len(g1[c]) = IF c = h1 THEN 1 ELSE 0
    BY <2>1 DEF Por
  <2>8. ASSUME NEW c \in Conexiones, NEW k \in 1..Len(f[c])
        PROVE  \/ c = h1 /\ k = 1 /\ f[c][k] = Get1(id, par[1])
               \/ /\ c = h2 /\ k = IF c = h1 THEN 2 ELSE 1
                  /\ f[c][k] = Get1(id, par[2])
    <3>1. CASE k \in 1..Len(g1[c]) /\ f[c][k] = g1[c][k]
      BY <2>3, <2>3a, <3>1
    <3>2. CASE \E l \in 1..Len(g2[c]) : k = Len(g1[c]) + l /\ f[c][k] = g2[c][l]
      <4>1. PICK l \in 1..Len(g2[c]) : k = Len(g1[c]) + l /\ f[c][k] = g2[c][l]
        BY <3>2
      <4>2. c = h2 /\ l = 1 /\ g2[c][l] = Get1(id, par[2])
        BY <2>3, <2>3a
      <4>. QED BY <2>7, <4>1, <4>2
    <3>. QED BY <2>6, <2>8, <3>1, <3>2 DEF EsJunta
  <2>. QED BY <1>0, <1>1, <1>2, <1>5, <1>7, <2>5, <2>6, <2>8
<1>. QED BY <1>6, <1>7

\* A read adds no message but its requests; a write, none but its own.
LEMMA VskGetConserva ==
    ASSUME InvTipos, NEW par \in Pares, VskGet(par), NEW p \in {"consola", "put"}
    PROVE  CanalesConservan(p)
<1>0. /\ aDisco \in [Conexiones -> Seq(AlDisco)] /\ deDisco \in [Conexiones -> Seq(DelDisco)]
      /\ UNCHANGED deDisco
  BY DEF InvTipos, TypeOK, TipoHilos, VskGet
<1>1. CASE UNCHANGED aDisco
  BY <1>0, <1>1, VieneMismo DEF CanalesConservan
<1>2. ASSUME NEW t1 \in Pos, NEW t2 \in Pos, Repartir(par, t1, t2)
      PROVE  CanalesConservan(p)
  <2>1. PICK f \in [Conexiones -> Seq(AlDisco)] :
              /\ \E sigue : Enviar(f, sigue)
              /\ MandaLectura(f, <<"get", Len(lecturas) + 1>>, par, t1, t2)
    BY <1>2, RepartirEnvia
  <2>2. \A s, z : /\ ~De(Get2(<<"get", Len(lecturas) + 1>>, s, z), p)
                  /\ ~De(Get1(<<"get", Len(lecturas) + 1>>, s), p)
    BY DEF De, Get1, Get2
  <2>3. \A c \in Conexiones : \A k \in 1..Len(f[c]) : ~De(f[c][k], p)
    BY <2>1, <2>2 DEF MandaLectura
  <2>4. \A c \in Conexiones : Viene(aDisco[c], aDisco'[c], p)
    BY <1>0, <2>1, <2>3, EnviarViene
  <2>. QED BY <1>0, <2>4, VieneMismo DEF CanalesConservan
<1>. QED BY <1>1, <1>2, VskGetEs

LEMMA VskPutConserva ==
    ASSUME InvTipos, NEW par \in Pares, VskPut(par)
    PROVE  /\ CanalesConservan("consola") /\ CanalesConservan("get")
           /\ PutsBien => PutsBien'
<1>0. /\ aDisco \in [Conexiones -> Seq(AlDisco)] /\ deDisco \in [Conexiones -> Seq(DelDisco)]
      /\ UNCHANGED deDisco /\ Len(escritas) \in Nat
  BY LenProperties DEF InvTipos, TypeOK, TipoHilos, TipoHistoria, VskPut
<1>. DEFINE v == Len(escritas) + 1
<1>1. PICK m : m = Put(<<"put", v>>, par[1], par[2], [sec |-> par[1], ver |-> v],
                       [sec |-> par[2], ver |-> v])
  OBVIOUS
<1>2. m \in AlDisco /\ PutBien(m) /\ ~De(m, "consola") /\ ~De(m, "get")
  <2>1. par[1] \in Int /\ par[2] \in Int
    BY EntornoAssumption DEF Sectores
  <2>2. [sec |-> par[1], ver |-> v] \in Buffers /\ [sec |-> par[2], ver |-> v] \in Buffers
    BY <1>0, <2>1 DEF Buffers, Contenidos
  <2>3. <<"put", v>> \in Ids
    BY <1>0 DEF Ids
  <2>4. m \in AlDisco
    BY <1>1, <2>1, <2>2, <2>3, MensajesTipo
  <2>. QED BY <1>1, <2>4 DEF Put, PutBien, De
<1>3. PICK f : f = [c \in Conexiones |-> IF \E i \in ConHilo(sDiscos, c) : RecibePut(i, par)
                                          THEN <<m>> ELSE <<>>]
  OBVIOUS
<1>4. /\ f \in [Conexiones -> Seq(AlDisco)]
      /\ \A c \in Conexiones : \A k \in 1..Len(f[c]) : f[c][k] = m
  BY <1>2, <1>3
<1>5. Enviar(f, proceso)
  BY <1>1, <1>3 DEF VskPut
<1>6. ASSUME NEW p \in {"consola", "get"}
      PROVE  CanalesConservan(p)
  <2>1. \A c \in Conexiones : \A k \in 1..Len(f[c]) : ~De(f[c][k], p)
    BY <1>2, <1>4
  <2>2. \A c \in Conexiones : Viene(aDisco[c], aDisco'[c], p)
    BY <1>0, <1>4, <1>5, <2>1, EnviarViene
  <2>. QED BY <1>0, <2>2, VieneMismo DEF CanalesConservan
<1>7. PutsBien => PutsBien'
  <2>. SUFFICES ASSUME PutsBien, NEW c \in Conexiones, NEW k \in 1..Len(aDisco'[c])
                PROVE  PutBien(aDisco'[c][k])
    BY DEF PutsBien
  <2>1. \/ k \in 1..Len(aDisco[c]) /\ aDisco'[c][k] = aDisco[c][k]
        \/ \E l \in 1..Len(f[c]) : aDisco'[c][k] = f[c][l]
    BY <1>0, <1>4, <1>5, EnviarOrigen
  <2>. QED BY <1>2, <1>4, <2>1 DEF PutsBien
<1>. QED BY <1>6, <1>7

LEMMA CorrerSinc ==
    ASSUME NEW q, DeConsola(q), SinEmpezar(q)
    PROVE  DeConsola(Correr(q)) /\ SinEmpezar(Correr(q))
<1>. SUFFICES ASSUME NEW i \in Pos
              PROVE  /\ Correr(q)[i].id # NULO => Correr(q)[i].id[1] = "consola"
                     /\ i # 0 => Correr(q)[i].act < Total - 1
  BY DEF DeConsola, SinEmpezar
<1>1. \E j \in Pos : Correr(q)[i] = q[j] /\ (i # 0 => j # 0)
  <2>1. CASE i = N - 1
    BY <2>1 DEF Correr
  <2>2. CASE i # N - 1
    <3>1. i + 1 \in Pos /\ i + 1 # 0 /\ Correr(q)[i] = q[i + 1]
      BY <2>2, NAssumption DEF Correr, Pos
    <3>. QED BY <3>1
  <2>. QED BY <2>1, <2>2
<1>. QED BY <1>1 DEF DeConsola, SinEmpezar

LEMMA CalladoSinc ==
    ASSUME InvTipos, InvSinc, Callado
    PROVE  InvSinc'
<1>1. UNCHANGED <<cola, datos>>
  BY DEF Callado, HandshakeDisco, ConsolaEliminar, AsociarHilo, Desconexion,
         ProtocoloIncorrecto, RespuestaDos, RespuestaUno, RespuestaPut, HiloInicia, DiscoCae,
         ConsolaIniciar, ConsolaDetener, ConsolaEstado, ConsolaSalir, VskDesconecta,
         SaleDelCiclo, vars
<1>2. CanalesConservan("consola") /\ CanalesConservan("put")
  BY CalladoConserva
<1>3. UnaSola' /\ DeLaEntrada'
  BY <1>1, <1>2, SincSigue DEF InvSinc
<1>4. PutsBien'
  BY <1>2, PutsSiguen DEF InvSinc, CanalesConservan
<1>. QED BY <1>1, <1>3, <1>4 DEF InvSinc, DeConsola, SinEmpezar, SectorPropio

LEMMA VskSinc ==
    ASSUME InvTipos, InvSinc, NEW par \in Pares, VskGet(par) \/ VskPut(par)
    PROVE  InvSinc'
<1>1. UNCHANGED <<cola, datos>>
  BY DEF VskGet, VskPut
<1>2. CanalesConservan("consola") /\ PutsBien'
  <2>1. CASE VskGet(par)
    <3>1. CanalesConservan("consola") /\ CanalesConservan("put")
      BY <2>1, VskGetConserva
    <3>. QED BY <3>1, PutsSiguen DEF InvSinc, CanalesConservan
  <2>2. CASE VskPut(par)
    BY <2>2, VskPutConserva DEF InvSinc
  <2>. QED BY <2>1, <2>2
<1>3. UnaSola' /\ DeLaEntrada'
  BY <1>1, <1>2, SincSigue DEF InvSinc
<1>. QED BY <1>1, <1>2, <1>3 DEF InvSinc, DeConsola, SinEmpezar, SectorPropio

LEMMA AgregarSinc ==
    ASSUME InvTipos, ColaContigua, InvSinc, NEW d \in Discos, ConsolaAgregar(d)
    PROVE  InvSinc'
<1>0. /\ cola \in [Pos -> EntradaCola] /\ 0 \in Pos /\ nComandos \in Nat
      /\ UNCHANGED <<deDisco, datos>>
  <2>1. cola \in [Pos -> EntradaCola] /\ 0 \in Pos /\ nComandos \in Nat
    BY NAssumption DEF InvTipos, TypeOK, TipoTablas, TipoControl, Pos
  <2>2. UNCHANGED <<deDisco, datos>>
    BY DEF ConsolaAgregar
  <2>. QED BY <2>1, <2>2
<1>1. CASE UNCHANGED <<cola, aDisco>>
  <2>1. CanalesConservan("consola") /\ CanalesConservan("put")
    BY <1>0, <1>1, QuietosConservan DEF canales
  <2>2. UnaSola' /\ DeLaEntrada' /\ PutsBien'
    BY <1>1, <2>1, SincSigue, PutsSiguen DEF InvSinc, CanalesConservan
  <2>. QED BY <1>0, <1>1, <2>2 DEF InvSinc, DeConsola, SinEmpezar, SectorPropio
<1>2. ASSUME NEW i \in Pos, NEW o \in Pos, AgregarSincroniza(i, o)
      PROVE  InvSinc'
  <2>1. PICK x : x = [id |-> IdConsola, act |-> 0, orig |-> o, dest |-> i]
    OBVIOUS
  <2>2. /\ x \in EntradaCola /\ x.id # NULO /\ x.id[1] = "consola" /\ x.act = 0
    <3>1. IdConsola \in Ids /\ IdConsola[1] = "consola"
      BY <1>0 DEF IdConsola, Ids
    <3>. QED BY <2>1, <3>1, IdsAssumption DEF EntradaCola
  <2>3. ASSUME NEW q \in [Pos -> EntradaCola], DeConsola(q), SinEmpezar(q), NEW k \in Pos
        PROVE  /\ Cargar(q, k, x) \in [Pos -> EntradaCola]
               /\ DeConsola(Cargar(q, k, x)) /\ SinEmpezar(Cargar(q, k, x))
    BY <2>2, <2>3, TotalAssumption DEF Cargar, DeConsola, SinEmpezar
  <2>4. CASE EnCurso
    <3>1. \/ UNCHANGED <<cola, aDisco>>
          \/ \E k \in Pos : /\ EsPrimero(k, Vacias(cola)) /\ UNCHANGED aDisco
                            /\ cola' = Cargar(cola, k, x)
      BY <1>2, <2>1, <2>4 DEF AgregarSincroniza, ColaLlena
    <3>2. ASSUME NEW k \in Pos, k \in Vacias(cola), cola' = Cargar(cola, k, x), UNCHANGED aDisco
          PROVE  InvSinc'
      <4>1. cola'[0] = cola[0]
        BY <1>0, <2>4, <3>2 DEF Cargar, Vacias, EnCurso
      <4>2. CanalesConservan("consola") /\ CanalesConservan("put")
        BY <1>0, <3>2, QuietosConservan DEF canales
      <4>3. UnaSola' /\ DeLaEntrada' /\ PutsBien'
        BY <4>1, <4>2, SincSigue, PutsSiguen DEF InvSinc, CanalesConservan
      <4>4. DeConsola(cola') /\ SinEmpezar(cola')
        BY <1>0, <2>3, <3>2 DEF InvSinc
      <4>. QED BY <1>0, <4>3, <4>4 DEF InvSinc, DeConsola, SinEmpezar, SectorPropio
    <3>. QED BY <1>1, <3>1, <3>2 DEF EsPrimero
  <2>5. CASE ~EnCurso
    <3>1. PICK k \in Pos :
             /\ EsPrimero(k, Vacias(Correr(cola)))
             /\ SincronizarDisco(PonerEstado(sDiscos, i, "SINCRONIZANDO"),
                                 Cargar(Correr(cola), k, x))
      BY <1>2, <2>1, <2>5 DEF AgregarSincroniza
    <3>2. PICK q : q = Cargar(Correr(cola), k, x)
      OBVIOUS
    <3>3. q \in [Pos -> EntradaCola] /\ DeConsola(q) /\ SinEmpezar(q)
      BY <1>0, <2>3, <3>2, CorrerEntradas, CorrerSinc DEF InvSinc
    <3>4. q[0].id # NULO
      <4>1. Correr(cola) \in [Pos -> EntradaCola] /\ 0 \in Vacias(Correr(cola))
        BY <1>0, <2>5, CorrerVacia DEF Vacias
      <4>2. k = 0
        BY <3>1, <4>1, NAssumption DEF EsPrimero, Pos
      <4>. QED BY <2>2, <3>2, <4>1, <4>2 DEF Cargar
    <3>5. SinSinc
      BY <2>5, SinCursoSinSinc DEF InvSinc
    <3>6. UnaSola' /\ DeLaEntrada' /\ \A c \in Conexiones : Viene(aDisco[c], aDisco'[c], "put")
      BY <1>0, <3>1, <3>2, <3>3, <3>4, <3>5, EmpezarSinc
    <3>7. PutsBien'
      BY <3>6, PutsSiguen DEF InvSinc
    <3>8. DeConsola(cola') /\ SinEmpezar(cola')
      <4>1. cola' = [q EXCEPT ![0].act = 1]
        BY <3>1, <3>2 DEF SincronizarDisco
      <4>2. \A j \in Pos : cola'[j].id = q[j].id /\ (j # 0 => cola'[j] = q[j])
        BY <3>3, <4>1 DEF EntradaCola
      <4>. QED BY <3>3, <4>2 DEF DeConsola, SinEmpezar
    <3>. QED BY <1>0, <3>6, <3>7, <3>8 DEF InvSinc, DeConsola, SinEmpezar, SectorPropio
  <2>. QED BY <2>4, <2>5
<1>. QED BY <1>1, <1>2 DEF ConsolaAgregar, AgregarNada, AgregarPrimero

LEMMA CierreSinc ==
    ASSUME InvTipos, ColaContigua, InvSinc, Cierre
    PROVE  InvSinc'
<1>0. /\ cola \in [Pos -> EntradaCola] /\ 0 \in Pos /\ 1 \in Pos /\ UNCHANGED <<deDisco, datos>>
  BY NAssumption DEF InvTipos, TypeOK, TipoTablas, Pos, Cierre
<1>1. SigueSincronizando(cola)
  <2>1. cola[1].act < Total - 1
    BY <1>0 DEF InvSinc, SinEmpezar
  <2>. QED BY <2>1 DEF SigueSincronizando
<1>2. /\ aDisco' = aDisco
      /\ cola' = cola \/ (~EnCurso /\ cola' = Correr(cola))
  <2>1. CASE EnviarOtroASincronizar /\ EnCurso
    BY <1>1, <2>1 DEF EnviarOtroASincronizar
  <2>2. CASE EnviarOtroASincronizar /\ ~EnCurso
    <3>1. Correr(cola)[0].id = NULO
      BY <1>0, <2>2, CorrerVacia
    <3>. QED BY <2>2, <3>1 DEF EnviarOtroASincronizar
  <2>3. CASE UNCHANGED <<cola, aDisco>>
    BY <2>3
  <2>. QED BY <2>1, <2>2, <2>3 DEF Cierre
<1>3. CanalesConservan("consola") /\ CanalesConservan("put")
  BY <1>0, <1>2, QuietosConservan DEF canales
<1>4. PutsBien'
  BY <1>3, PutsSiguen DEF InvSinc, CanalesConservan
<1>5. UnaSola' /\ DeLaEntrada'
  <2>1. CASE UNCHANGED cola
    BY <1>3, <2>1, SincSigue DEF InvSinc
  <2>2. CASE ~EnCurso
    <3>1. SinSinc
      BY <2>2, SinCursoSinSinc DEF InvSinc
    <3>2. SinSinc'
      BY <1>0, <1>2, <3>1 DEF SinSinc, SincEn, Trae, Canal
    <3>. QED BY <3>2 DEF SinSinc, UnaSola, DeLaEntrada
  <2>. QED BY <1>2, <2>1, <2>2
<1>6. DeConsola(cola') /\ SinEmpezar(cola')
  BY <1>2, CorrerSinc DEF InvSinc
<1>. QED BY <1>0, <1>4, <1>5, <1>6 DEF InvSinc, DeConsola, SinEmpezar, SectorPropio

\* What a disk holds and answers, when each sector holds its own.
LEMMA GrabarPropio ==
    ASSUME NEW m \in AlDisco, PutBien(m), NEW s \in [Sectores -> Buffers],
           \A z \in Sectores : s[z].sec = z
    PROVE  \A z \in Sectores : Grabar(m, s)[z].sec = z
  BY DEF Grabar, PutBien

LEMMA ServirPropio ==
    ASSUME NEW m \in AlDisco, NEW s \in [Sectores -> Buffers],
           \A z \in Sectores : s[z].sec = z
    PROVE  /\ m.t = "PUT" => Servir(m, s).t = "PUT_OK"
           /\ m.t = "GET1" => /\ Servir(m, s).t = "RTAb" /\ Servir(m, s).id = m.id
                              /\ Servir(m, s).d1 = s[m.s1] /\ m.s1 \in Sectores
                              /\ Servir(m, s).d1.sec = m.s1
           /\ m.t = "GET2" => /\ Servir(m, s).t = "RTA" /\ Servir(m, s).id = m.id
                              /\ Servir(m, s).d1 = s[m.s1] /\ m.s1 \in Sectores
                              /\ Servir(m, s).d2 = s[m.s2] /\ m.s2 \in Sectores
                              /\ Servir(m, s).d1.sec = m.s1 /\ Servir(m, s).d2.sec = m.s2
           /\ m.t \in {"PUT", "GET1", "GET2"}
<1>1. CASE m \in Pedidos1
  BY <1>1 DEF Servir, Pedidos1
<1>2. CASE m \in Pedidos2
  BY <1>2 DEF Servir, Pedidos2
<1>3. CASE m \in Escrituras
  BY <1>3 DEF Servir, Escrituras
<1>. QED BY <1>1, <1>2, <1>3 DEF AlDisco

LEMMA DiscoSinc ==
    ASSUME InvTipos, InvSinc, NEW c \in Conexiones, DiscoAtiende(c)
    PROVE  InvSinc'
<1>0. /\ aDisco \in [Conexiones -> Seq(AlDisco)] /\ deDisco \in [Conexiones -> Seq(DelDisco)]
      /\ datos \in [Discos -> [Sectores -> Buffers]]
      /\ UNCHANGED cola
  BY DEF InvTipos, TypeOK, TipoHilos, DiscoAtiende
<1>1. PICK d : d = hilo[c].disco
  OBVIOUS
<1>2. PICK m : m = aDisco[c][1]
  OBVIOUS
<1>3. /\ aDisco[c] # <<>> /\ 1 \in 1..Len(aDisco[c]) /\ Head(aDisco[c]) = m
      /\ \A e \in Conexiones : \A k \in 1..Len(aDisco'[e]) :
            IF e = c THEN k + 1 \in 1..Len(aDisco[c]) /\ aDisco'[c][k] = aDisco[c][k + 1]
                     ELSE k \in 1..Len(aDisco[e]) /\ aDisco'[e][k] = aDisco[e][k]
      /\ \A e \in Conexiones : \A k \in 1..Len(deDisco'[e]) :
            \/ k \in 1..Len(deDisco[e]) /\ deDisco'[e][k] = deDisco[e][k]
            \/ /\ e = c /\ k = Len(deDisco[c]) + 1 /\ hilo[c].fase = "activa"
               /\ deDisco'[c][k] = Servir(m, datos[d])
  BY <1>1, <1>2, DiscoOrigen
<1>4. m \in AlDisco /\ PutBien(m)
  <2>1. aDisco[c] \in Seq(AlDisco)
    BY <1>0
  <2>2. m \in AlDisco
    BY <1>2, <1>3, <2>1
  <2>. QED BY <1>2, <1>3, <2>2 DEF InvSinc, PutsBien
<1>5. hilo[c].fase = "activa" => d \in Discos
  BY <1>1 DEF InvTipos, HilosConDisco
<1>6. SectorPropio'
  <2>1. datos' = [datos EXCEPT ![d] = Grabar(m, datos[d])]
    BY <1>1, <1>3 DEF DiscoAtiende
  <2>2. d \in Discos => \A z \in Sectores : Grabar(m, datos[d])[z].sec = z
    <3>1. d \in Discos => /\ datos[d] \in [Sectores -> Buffers]
                          /\ \A z \in Sectores : datos[d][z].sec = z
      BY <1>0 DEF InvSinc, SectorPropio
    <3>. QED BY <1>4, <3>1, GrabarPropio
  <2>. QED BY <1>0, <2>1, <2>2 DEF InvSinc, SectorPropio
<1>7. PutsBien'
  BY <1>3 DEF InvSinc, PutsBien
<1>8. CASE ~De(m, "consola")
  <2>1. hilo[c].fase = "activa" => ~De(Servir(m, datos[d]), "consola")
    <3>1. hilo[c].fase = "activa" => datos[d] \in [Sectores -> Buffers] /\ \A z \in Sectores : datos[d][z].sec = z
      BY <1>0, <1>5 DEF InvSinc, SectorPropio
    <3>. QED BY <1>4, <1>8, <3>1, ServirPropio DEF De
  <2>2. \A e \in Conexiones, v \in Sentidos : \E j \in Nat : \A k \in Nat :
           SincEn(e, v, k)' => SincEn(e, v, k + j) /\ Canal(e, v)[k + j] = Canal(e, v)'[k]
    <3>1. ASSUME NEW e \in Conexiones
          PROVE  \A k \in Nat : SincEn(e, "vuelta", k)' =>
                    SincEn(e, "vuelta", k + 0) /\ Canal(e, "vuelta")[k + 0] = Canal(e, "vuelta")'[k]
      BY <1>3, <2>1 DEF SincEn, Trae, Canal
    <3>2. ASSUME NEW e \in Conexiones
          PROVE  \A k \in Nat : SincEn(e, "ida", k)' =>
                    IF e = c THEN SincEn(c, "ida", k + 1) /\ Canal(c, "ida")[k + 1] = Canal(e, "ida")'[k]
                    ELSE SincEn(e, "ida", k + 0) /\ Canal(e, "ida")[k + 0] = Canal(e, "ida")'[k]
      BY <1>3 DEF SincEn, Trae, Canal
    <3>. QED BY <3>1, <3>2 DEF Sentidos
  <2>3. UnaSola'
    <3>. SUFFICES ASSUME NEW e \in Conexiones, NEW g \in Conexiones,
                         NEW v \in Sentidos, NEW w \in Sentidos,
                         NEW k \in Nat, NEW l \in Nat,
                         SincEn(e, v, k)', SincEn(g, w, l)'
                  PROVE  e = g /\ v = w /\ k = l
      BY DEF UnaSola
    <3>1. PICK i \in Nat : \A x \in Nat : SincEn(e, v, x)' => SincEn(e, v, x + i)
      BY <2>2
    <3>2. PICK j \in Nat : \A x \in Nat : SincEn(g, w, x)' => SincEn(g, w, x + j)
      BY <2>2
    <3>3. k + i \in Nat /\ l + j \in Nat /\ l + i \in Nat
      OBVIOUS
    <3>4. SincEn(e, v, k + i) /\ SincEn(g, w, l + j)
      BY <3>1, <3>2
    <3>5. e = g /\ v = w
      BY <3>3, <3>4 DEF InvSinc, UnaSola
    <3>6. SincEn(e, v, l + i)
      BY <3>1, <3>5
    <3>7. k + i = l + i
      BY <3>3, <3>4, <3>6 DEF InvSinc, UnaSola
    <3>. QED BY <3>5, <3>7
  <2>4. DeLaEntrada'
    <3>. SUFFICES ASSUME NEW e \in Conexiones, NEW v \in Sentidos, NEW k \in Nat, SincEn(e, v, k)'
                  PROVE  EsDeLaEntrada(Canal(e, v)'[k], v, cola[0])
      BY <1>0 DEF DeLaEntrada
    <3>1. PICK j \in Nat : SincEn(e, v, k + j) /\ Canal(e, v)[k + j] = Canal(e, v)'[k]
      BY <2>2
    <3>. QED BY <3>1 DEF InvSinc, DeLaEntrada
  <2>. QED BY <1>0, <1>6, <1>7, <2>3, <2>4 DEF InvSinc, DeConsola, SinEmpezar
<1>9. CASE De(m, "consola")
  <2>1. SincEn(c, "ida", 1) /\ "ida" \in Sentidos /\ "vuelta" \in Sentidos /\ 1 \in Nat
    BY <1>2, <1>3, <1>9 DEF SincEn, Trae, Canal, Sentidos
  <2>2. EsDeLaEntrada(m, "ida", cola[0])
    BY <1>2, <2>1 DEF InvSinc, DeLaEntrada, Canal
  <2>3. PICK r : r = Servir(m, datos[d])
    OBVIOUS
  <2>4. hilo[c].fase = "activa" => EsDeLaEntrada(r, "vuelta", cola[0])
    <3>1. hilo[c].fase = "activa" => datos[d] \in [Sectores -> Buffers] /\ \A z \in Sectores : datos[d][z].sec = z
      BY <1>0, <1>5 DEF InvSinc, SectorPropio
    <3>. QED BY <1>4, <2>2, <2>3, <3>1, ServirPropio DEF EsDeLaEntrada
  <2>5. ASSUME NEW e \in Conexiones, NEW k \in Nat, SincEn(e, "ida", k)'
        PROVE  FALSE
    <3>1. k \in 1..Len(aDisco'[e]) /\ De(aDisco'[e][k], "consola")
      BY <2>5 DEF SincEn, Trae, Canal
    <3>2. CASE e = c
      <4>1. SincEn(c, "ida", k + 1)
        BY <1>3, <3>1, <3>2 DEF SincEn, Trae, Canal
      <4>2. k + 1 \in Nat /\ k + 1 # 1
        BY <3>1
      <4>. QED BY <2>1, <4>1, <4>2 DEF InvSinc, UnaSola
    <3>3. CASE e # c
      <4>1. SincEn(e, "ida", k)
        BY <1>3, <3>1, <3>3 DEF SincEn, Trae, Canal
      <4>. QED BY <2>1, <3>3, <4>1 DEF InvSinc, UnaSola
    <3>. QED BY <3>2, <3>3
  <2>6. ASSUME NEW e \in Conexiones, NEW k \in Nat, SincEn(e, "vuelta", k)'
        PROVE  /\ e = c /\ k = Len(deDisco[c]) + 1 /\ hilo[c].fase = "activa"
               /\ Canal(e, "vuelta")'[k] = r
    <3>1. k \in 1..Len(deDisco'[e]) /\ De(deDisco'[e][k], "consola")
      BY <2>6 DEF SincEn, Trae, Canal
    <3>2. ~(k \in 1..Len(deDisco[e]) /\ deDisco'[e][k] = deDisco[e][k])
      <4>. SUFFICES ASSUME k \in 1..Len(deDisco[e]), deDisco'[e][k] = deDisco[e][k]
                    PROVE  FALSE
        OBVIOUS
      <4>1. SincEn(e, "vuelta", k)
        BY <3>1 DEF SincEn, Trae, Canal
      <4>. QED BY <2>1, <4>1 DEF InvSinc, UnaSola
    <3>3. /\ e = c /\ k = Len(deDisco[c]) + 1 /\ hilo[c].fase = "activa"
          /\ deDisco'[c][k] = r
      BY <1>3, <2>3, <3>1, <3>2
    <3>. QED BY <3>3 DEF Canal
  <2>7. UnaSola' /\ DeLaEntrada'
    <3>1. \A v \in Sentidos : v = "ida" \/ v = "vuelta"
      BY DEF Sentidos
    <3>2. UnaSola'
      BY <2>5, <2>6, <3>1 DEF UnaSola
    <3>3. DeLaEntrada'
      BY <1>0, <2>4, <2>5, <2>6, <3>1 DEF DeLaEntrada
    <3>. QED BY <3>2, <3>3
  <2>. QED BY <1>0, <1>6, <1>7, <2>7 DEF InvSinc, DeConsola, SinEmpezar
<1>. QED BY <1>8, <1>9

\* The numbers of the sectors: pairs start at even ones, and come out even.
LEMMA ParSiguiente ==
    ASSUME NEW a \in Nat, a >= 1, a % 2 = 1, HaySector(a + 1)
    PROVE  HaySector(a + 2) /\ (a + 2) % 2 = 1
  BY TotalAssumption DEF HaySector

LEMMA RespuestaSinc ==
    ASSUME InvTipos, InvSinc, NEW c \in Conexiones, RespuestaSincronizacion(c)
    PROVE  InvSinc'
<1>0. /\ aDisco \in [Conexiones -> Seq(AlDisco)] /\ deDisco \in [Conexiones -> Seq(DelDisco)]
      /\ cola \in [Pos -> EntradaCola] /\ 0 \in Pos
      /\ Recibir(c) /\ UNCHANGED datos
  <2>1. /\ aDisco \in [Conexiones -> Seq(AlDisco)] /\ deDisco \in [Conexiones -> Seq(DelDisco)]
        /\ cola \in [Pos -> EntradaCola] /\ 0 \in Pos
    BY NAssumption DEF InvTipos, TypeOK, TipoTablas, TipoHilos, Pos
  <2>. QED BY <2>1 DEF RespuestaSincronizacion
<1>1. PICK m : m = Head(deDisco[c])
  OBVIOUS
<1>2. PICK q : q = cola[0]
  OBVIOUS
<1>3. /\ m \in [t : {"RTA"}, id : Ids, d1 : Buffers, d2 : Buffers]
      /\ deDisco[c] # <<>> /\ m.id = q.id
  <2>1. Llega(c, "RTA")
    BY DEF RespuestaSincronizacion
  <2>2. m \in DelDisco /\ m.t = "RTA" /\ deDisco[c] # <<>>
    BY <1>0, <1>1, <2>1, RecibidoTipo DEF Llega
  <2>3. m.id = q.id
    BY <1>1, <1>2 DEF RespuestaSincronizacion, EnSincronizacion
  <2>. QED BY <2>2, <2>3, ClaseMensaje
<1>4. /\ 1 \in 1..Len(deDisco[c]) /\ m = deDisco[c][1]
      /\ Len(Tail(deDisco[c])) = Len(deDisco[c]) - 1 /\ Len(deDisco[c]) \in Nat
      /\ \A k \in 1..Len(Tail(deDisco[c])) : Tail(deDisco[c])[k] = deDisco[c][k + 1]
  <2>1. deDisco[c] \in Seq(DelDisco)
    BY <1>0
  <2>. QED BY <1>1, <1>3, <2>1
<1>5. q.id # NULO /\ q.id[1] = "consola" /\ q \in EntradaCola
  BY <1>0, <1>2, <1>3, IdsAssumption DEF InvSinc, DeConsola
<1>6. SincEn(c, "vuelta", 1) /\ "vuelta" \in Sentidos /\ "ida" \in Sentidos /\ 1 \in Nat
  BY <1>3, <1>4, <1>5 DEF SincEn, Trae, Canal, De, Sentidos
<1>7. EsDeLaEntrada(m, "vuelta", q)
  BY <1>2, <1>4, <1>6 DEF InvSinc, DeLaEntrada, Canal
<1>8. q.act \in Nat /\ q.act >= 1 /\ q.act % 2 = 1 /\ m.d1.sec = q.act - 1 /\ m.d2.sec = q.act
  BY <1>5, <1>7 DEF EsDeLaEntrada, EntradaCola
<1>9. NingunaPorVia("ida")
  BY <1>6 DEF NingunaPorVia, InvSinc, UnaSola
<1>10. NingunaPorVia("vuelta")'
  <2>. SUFFICES ASSUME NEW e \in Conexiones, NEW k \in Nat, SincEn(e, "vuelta", k)'
                PROVE  FALSE
    BY DEF NingunaPorVia
  <2>1. k \in 1..Len(deDisco'[e]) /\ De(deDisco'[e][k], "consola")
    BY DEF SincEn, Trae, Canal
  <2>2. deDisco'[e] = IF e = c THEN Tail(deDisco[c]) ELSE deDisco[e]
    BY <1>0 DEF Recibir
  <2>3. CASE e = c
    <3>1. k + 1 \in 1..Len(deDisco[c]) /\ deDisco'[e][k] = deDisco[c][k + 1]
      BY <1>4, <2>1, <2>2, <2>3
    <3>2. SincEn(c, "vuelta", k + 1)
      BY <2>1, <3>1 DEF SincEn, Trae, Canal
    <3>3. k + 1 \in Nat /\ k + 1 # 1
      BY <2>1
    <3>. QED BY <1>6, <3>2, <3>3 DEF InvSinc, UnaSola
  <2>4. CASE e # c
    <3>1. SincEn(e, "vuelta", k)
      BY <2>1, <2>2, <2>4 DEF SincEn, Trae, Canal
    <3>. QED BY <1>6, <2>4, <3>1 DEF InvSinc, UnaSola
  <2>. QED BY <2>3, <2>4
<1>11. PICK w : w = Put(m.id, q.act - 1, q.act, m.d1, m.d2)
  OBVIOUS
<1>12. w \in AlDisco /\ PutBien(w) /\ ~De(w, "consola")
  <2>0. m.id \in Ids /\ m.d1 \in Buffers /\ m.d2 \in Buffers /\ q.act - 1 \in Int /\ q.act \in Int
    BY <1>3, <1>8
  <2>1. w \in AlDisco
    BY <1>11, <2>0, MensajesTipo
  <2>. QED BY <1>8, <1>11, <2>1 DEF Put, PutBien, De
<1>13. PICK hd : hd = sDiscos[q.dest].hilo
  OBVIOUS
<1>14. PICK g : g = Por(hd, w)
  OBVIOUS
<1>15. /\ g \in [Conexiones -> Seq(AlDisco)]
       /\ \A e \in Conexiones : \A k \in 1..Len(g[e]) : e = hd /\ k = 1 /\ g[e][k] = w
  BY <1>12, <1>14, PorMensajes
<1>16. PICK z : z = [cola EXCEPT ![0].act = q.act + 2]
  OBVIOUS
<1>17. /\ z \in [Pos -> EntradaCola] /\ DeConsola(z) /\ SinEmpezar(z)
       /\ z[0].id = q.id /\ z[0].act = q.act + 2
  <2>1. [q EXCEPT !.act = q.act + 2] \in EntradaCola
    BY <1>5, <1>8 DEF EntradaCola
  <2>2. z \in [Pos -> EntradaCola] /\ z[0] = [q EXCEPT !.act = q.act + 2]
    BY <1>0, <1>2, <1>16, <2>1
  <2>3. z[0].id = q.id /\ z[0].act = q.act + 2
    BY <1>5, <2>2 DEF EntradaCola
  <2>4. \A i \in Pos : z[i].id = cola[i].id /\ (i # 0 => z[i] = cola[i])
    BY <1>0, <1>2, <1>16, <2>3
  <2>. QED BY <2>2, <2>3, <2>4 DEF InvSinc, DeConsola, SinEmpezar
<1>18. Continuar(m)
  BY <1>1 DEF RespuestaSincronizacion
<1>19. CASE HaySector(q.act + 1)
  <2>1. HaySector(q.act + 2) /\ (q.act + 2) % 2 = 1
    BY <1>8, <1>19, ParSiguiente
  <2>2. PICK s : s = Get2(m.id, q.act + 1, q.act + 2)
    OBVIOUS
  <2>3. s \in AlDisco /\ EsDeLaEntrada(s, "ida", z[0]) /\ s.t = "GET2"
    <3>1. q.act + 1 \in Sectores /\ q.act + 2 \in Sectores
      BY <1>8, <1>19, <2>1, TotalAssumption DEF HaySector, Sectores
    <3>2. s \in AlDisco
      BY <1>3, <2>2, <3>1, MensajesTipo
    <3>. QED BY <1>3, <1>8, <1>17, <2>1, <2>2, <3>2 DEF Get2, EsDeLaEntrada
  <2>4. PICK ho : ho = sDiscos[q.orig].hilo
    OBVIOUS
  <2>5. PICK y : y = Por(ho, s)
    OBVIOUS
  <2>6. /\ y \in [Conexiones -> Seq(AlDisco)]
        /\ \A e \in Conexiones : \A k \in 1..Len(y[e]) :
              e = ho /\ k = 1 /\ Len(y[e]) = 1 /\ y[e][k] = s
    BY <2>3, <2>5, PorMensajes
  <2>7. PICK f : f = Luego(g, y)
    OBVIOUS
  <2>8. f \in [Conexiones -> Seq(AlDisco)] /\ EsJunta(f, g, y)
    BY <1>15, <2>6, <2>7, LuegoMensajes
  <2>9. Enviar(f, proceso) /\ cola' = z
    <3>1. CalcularCHS(q.act + 2, q.act) = q.act + 2
      BY <2>1 DEF CalcularCHS
    <3>. QED BY <1>2, <1>11, <1>13, <1>14, <1>16, <1>18, <1>19, <2>2, <2>4, <2>5, <2>7, <3>1
             DEF Continuar
  <2>10. \A e \in Conexiones : \A k \in 1..Len(f[e]) :
            f[e][k] = w \/ (e = ho /\ k = Len(f[e]) /\ f[e][k] = s)
    <3>. SUFFICES ASSUME NEW e \in Conexiones, NEW k \in 1..Len(f[e]), f[e][k] # w
                  PROVE  e = ho /\ k = Len(f[e]) /\ f[e][k] = s
      OBVIOUS
    <3>1. ~(k \in 1..Len(g[e]) /\ f[e][k] = g[e][k])
      BY <1>15
    <3>2. PICK l \in 1..Len(y[e]) : k = Len(g[e]) + l /\ f[e][k] = y[e][l]
      BY <2>8, <3>1 DEF EsJunta
    <3>3. e = ho /\ l = 1 /\ Len(y[e]) = 1 /\ f[e][k] = s
      BY <2>6, <3>2
    <3>. QED BY <2>8, <3>2, <3>3 DEF EsJunta
  <2>11. MandaUna(f, ho, s)
    BY <1>12, <2>10 DEF MandaUna
  <2>12. EsDeLaEntrada(s, "ida", cola'[0])
    BY <2>3, <2>9
  <2>13. UnaSola' /\ DeLaEntrada'
    BY <1>9, <1>10, <2>8, <2>9, <2>11, <2>12, EnviarNueva
  <2>14. PutsBien'
    <3>. SUFFICES ASSUME NEW e \in Conexiones, NEW k \in 1..Len(aDisco'[e])
                  PROVE  PutBien(aDisco'[e][k])
      BY DEF PutsBien
    <3>1. \/ k \in 1..Len(aDisco[e]) /\ aDisco'[e][k] = aDisco[e][k]
          \/ \E l \in 1..Len(f[e]) : aDisco'[e][k] = f[e][l]
      BY <1>0, <2>8, <2>9, EnviarOrigen
    <3>2. PutBien(s)
      BY <2>3 DEF PutBien
    <3>. QED BY <1>12, <2>10, <3>1, <3>2 DEF InvSinc, PutsBien
  <2>. QED BY <1>0, <1>17, <2>9, <2>13, <2>14 DEF InvSinc, SectorPropio
<1>20. CASE ~HaySector(q.act + 1)
  <2>1. Enviar(g, proceso) /\ cola' = Correr([z EXCEPT ![0].id = NULO])
    BY <1>2, <1>11, <1>13, <1>14, <1>16, <1>18, <1>20 DEF Continuar
  <2>2. PICK y : y = [z EXCEPT ![0].id = NULO]
    OBVIOUS
  <2>3. DeConsola(y) /\ SinEmpezar(y)
    <3>1. \A i \in Pos : y[i].id # NULO => y[i] = z[i]
      BY <1>0, <1>17, <2>2 DEF EntradaCola
    <3>2. \A i \in Pos : i # 0 => y[i] = z[i]
      BY <1>17, <2>2
    <3>. QED BY <1>17, <3>1, <3>2 DEF DeConsola, SinEmpezar
  <2>4. DeConsola(cola') /\ SinEmpezar(cola')
    BY <2>1, <2>2, <2>3, CorrerSinc
  <2>5. ASSUME NEW e \in Conexiones, NEW k \in 1..Len(aDisco'[e])
        PROVE  (k \in 1..Len(aDisco[e]) /\ aDisco'[e][k] = aDisco[e][k]) \/ aDisco'[e][k] = w
    <3>1. \/ k \in 1..Len(aDisco[e]) /\ aDisco'[e][k] = aDisco[e][k]
          \/ \E l \in 1..Len(g[e]) : aDisco'[e][k] = g[e][l]
      BY <1>0, <1>15, <2>1, EnviarOrigen
    <3>. QED BY <1>15, <3>1
  <2>6. NingunaPorVia("ida")'
    <3>. SUFFICES ASSUME NEW e \in Conexiones, NEW k \in Nat, SincEn(e, "ida", k)'
                  PROVE  FALSE
      BY DEF NingunaPorVia
    <3>1. k \in 1..Len(aDisco'[e]) /\ De(aDisco'[e][k], "consola")
      BY DEF SincEn, Trae, Canal
    <3>2. k \in 1..Len(aDisco[e]) /\ aDisco'[e][k] = aDisco[e][k]
      BY <1>12, <2>5, <3>1
    <3>3. SincEn(e, "ida", k)
      BY <3>1, <3>2 DEF SincEn, Trae, Canal
    <3>. QED BY <1>9, <3>3 DEF NingunaPorVia
  <2>7. SinSinc'
    BY <1>10, <2>6 DEF NingunaPorVia, SinSinc, Sentidos
  <2>8. UnaSola' /\ DeLaEntrada'
    BY <2>7 DEF SinSinc, UnaSola, DeLaEntrada
  <2>9. PutsBien'
    BY <1>12, <2>5 DEF InvSinc, PutsBien
  <2>. QED BY <1>0, <2>4, <2>8, <2>9 DEF InvSinc, SectorPropio
<1>. QED BY <1>19, <1>20

LEMMA SincPaso ==
    InvTipos /\ ColaContigua /\ InvSinc /\ [Next]_vars => InvSinc'
<1>. SUFFICES ASSUME InvTipos, ColaContigua, InvSinc, [Next]_vars
              PROVE  InvSinc'
  OBVIOUS
<1>1. CASE Callado
  BY <1>1, CalladoSinc
<1>2. CASE \E par \in Pares : VskGet(par) \/ VskPut(par)
  BY <1>2, VskSinc
<1>3. CASE \E d \in Discos : ConsolaAgregar(d)
  BY <1>3, AgregarSinc
<1>4. CASE Cierre
  BY <1>4, CierreSinc
<1>5. CASE \E c \in Conexiones : DiscoAtiende(c) \/ RespuestaSincronizacion(c)
  BY <1>5, DiscoSinc, RespuestaSinc
<1>. QED BY <1>1, <1>2, <1>3, <1>4, <1>5 DEF Next, Respuesta, Consola, Vsk, Callado

LEMMA SincInicial == SinReinicio /\ Init => InvSinc
<1>. SUFFICES ASSUME SinReinicio, Init
              PROVE  InvSinc
  OBVIOUS
<1>1. \A c \in Conexiones : aDisco[c] = <<>> /\ deDisco[c] = <<>>
  BY DEF Init
<1>2. SinSinc /\ PutsBien
  BY <1>1 DEF SinSinc, SincEn, Trae, Canal, PutsBien
<1>3. SectorPropio
  BY DEF Init, SectorPropio
<1>4. DeConsola(cola) /\ SinEmpezar(cola)
  BY DEF Init, ColaInicial, DeConsola, SinEmpezar, SinReinicio
<1>5. UnaSola /\ DeLaEntrada
  BY <1>2, SinSincBasta
<1>. QED BY <1>2, <1>3, <1>4, <1>5 DEF InvSinc

LEMMA SpecSinc == SinReinicio => (Spec => [](InvTipos /\ ColaContigua /\ InvSinc))
<1>. SUFFICES ASSUME SinReinicio
              PROVE  Spec => [](InvTipos /\ ColaContigua /\ InvSinc)
  OBVIOUS
<1>1. Init => ColaContigua
  BY DEF Init, ColaInicial, ColaContigua
<1>2. Init => InvSinc
  BY SincInicial
<1>. QED BY <1>1, <1>2, SpecTipos, ColaPaso, SincPaso, PTL DEF Spec

\* There is one request or answer of synchronisation under way at most, for the
\* sectors entry 0 of the queue says, however the reads and writes of the VSK,
\* the commands of the operator and the disks that go away interleave with it.
THEOREM UnaSincronizacion == SinReinicio => (Spec => []SincronizacionEnCurso)
<1>1. InvSinc => SincronizacionEnCurso
  <2>. SUFFICES ASSUME InvSinc
                PROVE  SincronizacionEnCurso
    OBVIOUS
  <2>1. \A x \in PedidosSinc : \E c \in Conexiones, v \in Sentidos, k \in Nat :
            x = <<c, v, k>> /\ SincEn(c, v, k) /\ Mensaje(x) = Canal(c, v)[k]
    <3>. SUFFICES ASSUME NEW x \in PedidosSinc
                  PROVE  \E c \in Conexiones, v \in Sentidos, k \in Nat :
                            x = <<c, v, k>> /\ SincEn(c, v, k) /\ Mensaje(x) = Canal(c, v)[k]
      OBVIOUS
    <3>1. PICK c \in Conexiones, v \in Sentidos, k \in Nat :
              k \in 1..Len(Canal(c, v)) /\ x = <<c, v, k>>
      BY DEF PedidosSinc, EnViaje
    <3>2. Mensaje(x) = Canal(c, v)[k] /\ EsSinc(Mensaje(x))
      BY <3>1 DEF PedidosSinc, Mensaje
    <3>3. SincEn(c, v, k) /\ k \in Nat
      BY <3>1, <3>2 DEF EsSinc, SincEn, Trae, De
    <3>. QED BY <3>1, <3>2, <3>3
  <2>2. \A x, y \in PedidosSinc : x = y
    BY <2>1 DEF InvSinc, UnaSola
  <2>3. ASSUME NEW x \in PedidosSinc
        PROVE  /\ Mensaje(x).id = cola[0].id
               /\ IF x[2] = "ida"
                  THEN Mensaje(x).s1 = cola[0].act - 1 /\ Mensaje(x).s2 = cola[0].act
                  ELSE /\ Mensaje(x).d1.sec = cola[0].act - 1
                       /\ Mensaje(x).d2.sec = cola[0].act
    <3>1. PICK c \in Conexiones, v \in Sentidos, k \in Nat :
              x = <<c, v, k>> /\ SincEn(c, v, k) /\ Mensaje(x) = Canal(c, v)[k]
      BY <2>1
    <3>2. x[2] = v /\ EsDeLaEntrada(Mensaje(x), v, cola[0])
      BY <3>1 DEF InvSinc, DeLaEntrada
    <3>. QED BY <3>2 DEF EsDeLaEntrada, Sentidos
  <2>. QED BY <2>2, <2>3 DEF SincronizacionEnCurso
<1>2. InvTipos /\ ColaContigua /\ InvSinc => SincronizacionEnCurso
  BY <1>1
<1>. QED BY <1>2, SpecSinc, PTL

\* No sector of any disk ever holds what was written for another, though the
\* copy of a disk writes to the sectors it counts, and not to those the answer
\* says.
THEOREM CadaSectorLoSuyo == SinReinicio => (Spec => []SectorPropio)
<1>1. InvTipos /\ ColaContigua /\ InvSinc => SectorPropio
  BY DEF InvSinc
<1>. QED BY <1>1, SpecSinc, PTL

=============================================================================

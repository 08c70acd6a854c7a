-------------------------------- MODULE Disco --------------------------------
(***************************************************************************)
(* The DISCO process (Linux/Disco): a select loop that serves the array    *)
(* (or the VSK), its own console and its cache, over a directory (LDAP)    *)
(* that holds the sectors; the cache process (Disco/Cache) over memcached; *)
(* and the console thread, which is a client of the loop through a socket. *)
(*                                                                         *)
(* Each action of the loop is the attention of one message, from recibirH  *)
(* to the break of its case.  LDAP and the cache are asked synchronously,  *)
(* so that a handler is a function from the state it finds to the set of   *)
(* states it may leave (Estado), one per outcome of what it asks.          *)
(***************************************************************************)
EXTENDS Recorrido, Sequences, FiniteSets

CONSTANTS
    HayCache,           \* the cvCache of config.txt
    TLectura,           \* tiempoLectoEscrituraSector
    TCache,             \* iTiempoAccesoACache
    Ancho,              \* how many values an unsigned int has
    Demoras,            \* how long an access to the cache takes
    Fallas,             \* which operations of LDAP may fail
    Pares, Sueltos,     \* what the array asks for: pairs, single sectors
    DeConsola,          \* the lists of sectors the operator asks for
    Pasadas,            \* passes of the loop, orders of the console, to a turn (5)
    MaxPedidos, MaxComandos, MaxCaidas, MaxCierres, MaxDesalojos

TodaFalla == {"iniciar", "leer", "grabar primero", "grabar ultimo"}

ASSUME DiscoAssumption ==
    /\ HayCache \in BOOLEAN
    /\ {TLectura, TCache, Ancho} \subseteq Nat /\ TCache < Ancho
    /\ Pasadas \in Nat \ {0}
    /\ Demoras \subseteq Nat /\ Demoras # {}
    /\ Fallas \subseteq TodaFalla
    /\ Pares \subseteq (0..Total) \X (0..Total)   \* Total: one the disk does not have
    /\ Sueltos \subseteq 0..Total
    /\ DeConsola \subseteq Seq(Ids) \ {<<>>}
    /\ {MaxPedidos, MaxComandos, MaxCaidas, MaxCierres, MaxDesalojos} \subseteq Nat

VARIABLES
    proceso,            \* "apagado", "atendiendo" or "colgado"
    ldap,               \* the directory: the content of each sector
    sesion,             \* ldap_sesion: "viva", or "perdida" after an unbind
    memc,               \* memcached: the content of each sector it has
    iCache,             \* the socket of the cache: "cero", "cache" or "rota"
    cache,              \* the cache process: "no", "naciendo", "viva", "muerta"
    cab,                \* stEstadisticas.uiPosCabezal
    giro,               \* iContadorIncrementoCabezal
    est,                \* the counters and times of stEstadisticas
    ultima,             \* the descriptor in cabecera
    entrada,            \* what was sent to the loop on each connection
    salida,             \* what the loop sent on each connection
    conexion,           \* "abierta", "cerrada" by the other end, or "rota"
    con,                \* the console thread
    nPedidos, nComandos, nCaidas, nCierres, nDesalojos, \* counters of the environment
    visto               \* history: the last write of each sector a read returned

directorio == <<ldap, sesion>>
canales == <<entrada, salida, conexion>>
entorno == <<nPedidos, nComandos, nCaidas, nCierres, nDesalojos>>
vars == <<proceso, ldap, sesion, memc, iCache, cache, cab, giro, est, ultima,
          entrada, salida, conexion, con, entorno, visto>>

-----------------------------------------------------------------------------
(* Contents and messages *)

\* The n-th write to sector s; an empty sector; bytes nobody wrote; no entry.
Escrito(s, n) == <<s, n>>
Vacio  == <<-1, 0>>
Basura == <<-2, 0>>
NoHay  == <<-3, 0>>
Escritos == (Ids \union {Total}) \X (1..MaxPedidos)
Contenidos == Escritos \union {Vacio, Basura}

Clientes == {"array", "consola", "cache"}

TiposGet == {"GET2", "GET1", "DEFINITIVO"}
TiposPut == {"PUT2", "PUT1", "ESCRIBIR"}
Tipos == TiposGet \union TiposPut \union {"DEPASO", "CHS", "HSCACHE", "OTRO"}

Mensaje(t, s, d) == [t |-> t, s |-> s, d |-> d]
Rta(t, d) == [t |-> t, d |-> d]

Atendiendo == proceso = "atendiendo"

-----------------------------------------------------------------------------
(* What a handler works on *)

Est0 == [buscados |-> 0, busquedas |-> 0, peor |-> 0, hit |-> 0, miss |-> 0,
         tCache |-> TCache]

\* The part of the state a handler may change, the buffers of the sectors it
\* reads (d), whether LDAP took what it wrote (ok), what it sends (rta) and how
\* it ends (fin).
Estado == [ldap |-> ldap, sesion |-> sesion, memc |-> memc, iCache |-> iCache,
           cab |-> cab, est |-> est, d |-> <<>>, ok |-> TRUE, rta |-> <<>>,
           fin |-> "sigue"]

\* A handler goes on only while the process lives and is in no endless loop.
Luego(E, S(_)) == UNION {IF e.fin = "sigue" THEN S(e) ELSE {e} : e \in E}

\* What is done for the first sector of a request and then for the second.
PorSector(e, s, S(_, _)) ==
    IF Len(s) = 1 THEN S(e, s[1])
                  ELSE Luego(S(e, s[1]), LAMBDA x : S(x, s[2]))

-----------------------------------------------------------------------------
(* The directory and the cache *)

\* ldapGetSector: zeros when the sector is not found or the search fails, and
\* then the session is closed; a closed one is freed memory.
LdapGetSector(e, s) ==
    IF e.sesion = "viva"
      THEN {[e EXCEPT !.d = Append(@, IF s \in Ids /\ e.ldap[s] # NoHay
                                        THEN e.ldap[s] ELSE Vacio)]}
           \union {[e EXCEPT !.d = Append(@, Vacio), !.sesion = "perdida"] :
                       f \in Fallas \intersect {"leer"}}
      ELSE {[e EXCEPT !.d = Append(@, Vacio)], [e EXCEPT !.fin = "muere"]}

\* A mutant: the write refreshes the cache before it knows if it was refused.
LdapModificarYCachear(e, s, v, falla) ==
    LET cacheado == IF s \in Ids THEN [e EXCEPT !.memc[s] = v] ELSE e
        rechazado == [cacheado EXCEPT !.ok = FALSE]
    IN {IF e.sesion = "viva" /\ s \in Ids
          THEN [cacheado EXCEPT !.ldap[s] = v, !.ok = TRUE] ELSE rechazado}
       \union {rechazado : f \in Fallas \intersect {falla}}

\* ldapModificarSector: there must be an entry for the sector.
LdapModificarSector(e, s, v, falla) ==
    LET rechazado == [e EXCEPT !.ok = FALSE]
    IN IF e.sesion = "viva"
         THEN {IF s \in Ids /\ e.ldap[s] # NoHay
                 THEN [e EXCEPT !.ldap[s] = v, !.ok = TRUE] ELSE rechazado}
              \union {rechazado : f \in Fallas \intersect {falla}}
         ELSE {rechazado, [e EXCEPT !.fin = "muere"]}

\* peticionCache: when the cache is not there the header of the request is
\* taken for the answer, which is no miss, and the buffer is not filled.
Acierta(e, s) == e.iCache # "cache" \/ e.memc[s] # NoHay
PeticionCache(e, s) ==
    CASE e.iCache = "cero" -> {[e EXCEPT !.d = Append(@, Basura)]}
      [] e.iCache = "rota" -> {[e EXCEPT !.d = Append(@, Basura)], [e EXCEPT !.fin = "muere"]}
      [] e.memc[s] # NoHay -> {[e EXCEPT !.d = Append(@, e.memc[s])]}
      [] OTHER -> {e}

\* A mutant: always the buffer of the first sector.
PonerPrimeroEnCache(e, s) == {[e EXCEPT !.memc[s] = e.d[1]]}

PonerEnCache(e, s) == {[e EXCEPT !.memc[s] = e.d[Len(e.d)]]}

\* uiTiempoAccesoACache += start - end, in unsigned arithmetic.
Demorar(e) == {[e EXCEPT !.est.tCache = (@ - ms) % Ancho] : ms \in Demoras}

-----------------------------------------------------------------------------
(* The walk of the head and its statistics *)

\* A mutant: past the last sector of a cylinder the head goes to the next one.
MoverSinVuelta(e, s) ==
    IF s \in Ids THEN [e EXCEPT !.cab = s + 1] ELSE [e EXCEPT !.fin = "colgado"]

\* The head ends past the sector; a sector the disk does not have is looked for
\* for ever.
Mover(e, s) ==
    IF s \in Ids THEN [e EXCEPT !.cab = ImDisco(Rotado(Donde(s)))]
                 ELSE [e EXCEPT !.fin = "colgado"]

Tiempo(e, s) == ((Cruzados(Ubicar(e.cab), s) + 1) * TLectura + e.est.tCache) % Ancho
\* A mutant: the count of the sectors crossed is not reset between two sectors.
ContarSinReset(e, s) ==
    IF s \notin Ids THEN e
    ELSE [e EXCEPT !.est.buscados = @ + 1,
                   !.est.busquedas = (@ + Tiempo(e, s)) % Ancho,
                   !.est.peor = @ + Tiempo(e, s)]

Contar(e, s) ==
    IF s \notin Ids THEN e
    ELSE [e EXCEPT !.est.buscados = @ + 1,
                   !.est.busquedas = (@ + Tiempo(e, s)) % Ancho,
                   !.est.peor = IF @ < Tiempo(e, s) THEN Tiempo(e, s) ELSE @]

GenerarEstadisticasGet(e, s) == {Mover(Contar(e, s), s)}
GenerarEstadisticasPut(e, s) == {Mover(e, s)}

-----------------------------------------------------------------------------
(* The handlers: primitivas.c *)

\* A sector asked for with a cache: the hit counts and moves nothing.
LeerConCache(e, s) ==
    Luego(PeticionCache(e, s), LAMBDA e1 :
        IF Acierta(e, s)
          THEN {[e1 EXCEPT !.est.hit = @ + 1]}
          ELSE Luego(LdapGetSector([e1 EXCEPT !.est.miss = @ + 1], s), LAMBDA e2 :
                   PonerEnCache(e2, s)))

ServirConCache(e, s) ==
    Luego(LeerConCache(e, s), LAMBDA e1 :
        Luego(Demorar(e1), LAMBDA e2 :
            IF Acierta(e, s) THEN {e2} ELSE GenerarEstadisticasGet(e2, s)))

ServirSinCache(e, s) ==
    Luego(PorSector(e, s, LdapGetSector), LAMBDA e1 :
        PorSector(e1, s, GenerarEstadisticasGet))

Contestar(E, t) == Luego(E, LAMBDA e : {[e EXCEPT !.rta = <<Rta(t, e.d)>>]})

\* getSectores for the array: one sector or two.
GetSectores(e, m) ==
    Contestar(IF HayCache THEN PorSector(e, m.s, ServirConCache)
                          ELSE ServirSinCache(e, m.s), "GET")

\* getSectores for the console: the sector it came for ...
ObtenerDefinitivo(e, m) ==
    Contestar(IF HayCache THEN LeerConCache(e, m.s[1])
                          ELSE LdapGetSector(e, m.s[1]), "GET")

\* A mutant: the sector on the way is answered only when the cache has it.
ObtenerDePasoMudo(e, m) == IF HayCache THEN ObtenerDefinitivo(e, m) ELSE {e}

\* ... and each one it crosses, of which only the number is answered.
ObtenerDePaso(e, m) ==
    LET mirado == IF ~HayCache THEN {e}
                 ELSE Luego(PeticionCache(e, m.s[1]), LAMBDA e1 :
                        {IF Acierta(e, m.s[1]) THEN [e1 EXCEPT !.est.hit = @ + 1]
                                               ELSE [e1 EXCEPT !.est.miss = @ + 1]})
    IN Contestar({[x EXCEPT !.d = <<>>] : x \in mirado}, "DEPASO")

\* putSectores: the answer is the result of the last modification; it is sent
\* before the head moves.
GrabarSectores(e, m) ==
    IF Len(m.s) = 1
      THEN LdapModificarSector(e, m.s[1], m.d[1], "grabar ultimo")
      ELSE Luego(LdapModificarSector(e, m.s[1], m.d[1], "grabar primero"), LAMBDA x :
               LdapModificarSector(x, m.s[2], m.d[2], "grabar ultimo"))

\* A mutant: the answer does not look at the result.
PutSectoresSinMirar(e, m) ==
    Luego(GrabarSectores(e, m), LAMBDA x :
        PorSector([x EXCEPT !.rta = <<Rta("PUT_OK", <<>>)>>], m.s, GenerarEstadisticasPut))

PutSectores(e, m) ==
    Luego(GrabarSectores(e, m), LAMBDA x :
        IF x.ok THEN PorSector([x EXCEPT !.rta = <<Rta("PUT_OK", <<>>)>>], m.s,
                               GenerarEstadisticasPut)
                ELSE {[x EXCEPT !.rta = <<Rta("PUT_FAIL", <<>>)>>]})

\* The same for the console, which gets no answer.
EscribirSector(e, m) ==
    Luego(GrabarSectores(e, m), LAMBDA x : GenerarEstadisticasPut(x, m.s[1]))

GetCHS(e) == {[e EXCEPT !.rta = <<Rta("CHS", <<>>)>>]}

HandshakeCache(e, c) ==
    {[e EXCEPT !.iCache = IF c = "cache" /\ cache = "viva" THEN "cache" ELSE "rota"]}

\* The switch of the loop; close() of a descriptor that stays in masterFds
\* makes the next select() fail.
Manejar(c, m) ==
    CASE m.t \in {"GET2", "GET1"} -> GetSectores(Estado, m)
      [] m.t = "DEFINITIVO" -> ObtenerDefinitivo(Estado, m)
      [] m.t = "DEPASO" -> ObtenerDePaso(Estado, m)
      [] m.t \in {"PUT2", "PUT1"} -> PutSectores(Estado, m)
      [] m.t = "ESCRIBIR" -> EscribirSector(Estado, m)
      [] m.t = "CHS" -> GetCHS(Estado)
      [] m.t = "HSCACHE" -> HandshakeCache(Estado, c)
      [] OTHER -> {[Estado EXCEPT !.fin = "muere"]}

-----------------------------------------------------------------------------
(* The console thread *)

\* Where it is in its loop, the head as it believes it to be (its own copy of
\* stEstadisticas), the sectors left of its order and the walk in course.
Con0 == [paso |-> "lee", orden |-> "ninguna", p |-> Ubicar(0), cab |-> 0,
         giro |-> 0, resto |-> <<>>, dato |-> Vacio, leidos |-> 0, desde |-> Ubicar(0)]

\* The tail of its loop: every Pasadas orders the disk turns one sector.
FinDeOrden(k) ==
    LET libre == [k EXCEPT !.paso = "lee", !.orden = "ninguna", !.resto = <<>>,
                           !.dato = Vacio, !.leidos = 0, !.desde = Ubicar(0)]
    IN IF k.giro < Pasadas - 1
         THEN [libre EXCEPT !.giro = @ + 1]
         ELSE [libre EXCEPT !.p = Rotado(@), !.cab = ImDisco(Rotado(k.p)), !.giro = 0]

\* The sector was read or written: the head ends past it.
Pasado(k) == [k EXCEPT !.p = Rotado(@), !.cab = ImDisco(Rotado(k.p))]

Envia(c, m) == entrada' = [entrada EXCEPT ![c] = Append(@, m)]
Toma(c) == salida[c] # <<>> /\ salida' = [salida EXCEPT ![c] = Tail(@)]

loopIgual == <<proceso, ldap, sesion, memc, iCache, cache, cab, giro, est, ultima, conexion>>

Orden(k) ==
    /\ Atendiendo
    /\ con.paso = "lee"
    /\ nComandos < MaxComandos
    /\ nComandos' = nComandos + 1
    /\ con' = k
    /\ UNCHANGED <<loopIgual, entrada, salida, nCaidas, nCierres, nDesalojos, visto>>

OrdenObtener(l) ==
    /\ Orden([con EXCEPT !.paso = "camina", !.orden = "obtener", !.resto = l, !.desde = con.p])
    /\ UNCHANGED nPedidos

OrdenEscribir(s) ==
    LET p == UbicarEscribiendo(con.cab)
    IN /\ nPedidos < MaxPedidos
       /\ nPedidos' = nPedidos + 1
       /\ Orden([con EXCEPT !.paso = "camina", !.orden = "escribir", !.resto = <<s>>,
                            !.dato = Escrito(s, nPedidos + 1), !.p = p, !.desde = p])

\* posicionCabezal, ayuda and what it does not know.
OrdenOtra == Orden(FinDeOrden(con)) /\ UNCHANGED nPedidos

\* The head is not at the sector: the one under it is asked for ...
ConsolaPaso ==
    /\ Atendiendo
    /\ con.paso = "camina"
    /\ ImDisco(con.p) # Head(con.resto)
    /\ Envia("consola", Mensaje("DEPASO", <<ImDisco(con.p)>>, <<>>))
    /\ con' = [con EXCEPT !.paso = "espera"]
    /\ UNCHANGED <<loopIgual, salida, entorno, visto>>

\* ... and after its answer the head goes on.
ConsolaAvanza ==
    /\ Atendiendo
    /\ con.paso = "espera"
    /\ Toma("consola")
    /\ con' = [con EXCEPT !.paso = "camina", !.leidos = @ + 1,
                          !.p = Paso(@, Head(con.resto))]
    /\ UNCHANGED <<loopIgual, entrada, entorno, visto>>

Llega(orden) ==
    /\ Atendiendo
    /\ con.paso = "camina"
    /\ con.orden = orden
    /\ ImDisco(con.p) = Head(con.resto)

ConsolaPide ==
    /\ Llega("obtener")
    /\ Envia("consola", Mensaje("DEFINITIVO", <<Head(con.resto)>>, <<>>))
    /\ con' = [con EXCEPT !.paso = "espera sector"]
    /\ UNCHANGED <<loopIgual, salida, entorno, visto>>

\* A mutant: iCantSectoresLeidos is not reset for the next sector.
ConsolaObtieneSinReset ==
    /\ Atendiendo
    /\ con.paso = "espera sector"
    /\ Toma("consola")
    /\ LET k == [Pasado(con) EXCEPT !.resto = Tail(@)]
       IN con' = IF k.resto = <<>> THEN FinDeOrden(k)
                 ELSE [k EXCEPT !.paso = "camina", !.desde = k.p]
    /\ UNCHANGED <<loopIgual, entrada, entorno, visto>>

ConsolaObtiene ==
    /\ Atendiendo
    /\ con.paso = "espera sector"
    /\ Toma("consola")
    /\ LET k == [Pasado(con) EXCEPT !.resto = Tail(@), !.leidos = 0]
       IN con' = IF k.resto = <<>> THEN FinDeOrden(k)
                 ELSE [k EXCEPT !.paso = "camina", !.desde = k.p]
    /\ UNCHANGED <<loopIgual, entrada, entorno, visto>>

ConsolaEscribe ==
    /\ Llega("escribir")
    /\ Envia("consola", Mensaje("ESCRIBIR", con.resto, <<con.dato>>))
    /\ con' = FinDeOrden(Pasado(con))
    /\ UNCHANGED <<loopIgual, salida, entorno, visto>>

Consola ==
    \/ ConsolaPaso \/ ConsolaAvanza \/ ConsolaPide \/ ConsolaObtiene \/ ConsolaEscribe

-----------------------------------------------------------------------------
(* The loop *)

\* The process ends: LDAP and memcached keep what they have.
Apagar ==
    /\ proceso' = "apagado"
    /\ entrada' = [c \in Clientes |-> <<>>]
    /\ salida' = [c \in Clientes |-> <<>>]
    /\ conexion' = [c \in Clientes |-> "abierta"]
    /\ cab' = 0 /\ giro' = 0 /\ est' = Est0 /\ ultima' = "indefinida"
    /\ iCache' = "cero" /\ cache' = "no" /\ sesion' = "perdida"
    /\ con' = Con0

\* What a handler left.  The first answer on a connection that the other end
\* closed may be lost; a later one raises SIGPIPE.
Visto(c, m, e) ==
    [s \in Ids |->
        LET leidos == {k \in DOMAIN m.s : /\ conexion[c] = "abierta" /\ e.rta # <<>>
                                          /\ m.t \in TiposGet /\ m.s[k] = s
                                          /\ e.d[k] # Basura}
        IN IF leidos = {} THEN visto[s] ELSE e.d[CHOOSE k \in leidos : TRUE][2]]

Dejar(c, m, e, entrada1, ultima1) ==
    /\ ldap' = e.ldap
    /\ memc' = e.memc
    /\ \/ /\ e.fin # "muere"
          /\ conexion[c] = "rota" => e.rta = <<>>
          /\ proceso' = IF e.fin = "colgado" THEN "colgado" ELSE proceso
          /\ sesion' = e.sesion /\ iCache' = e.iCache /\ cab' = e.cab /\ est' = e.est
          /\ IF conexion[c] = "abierta"
               THEN salida' = [salida EXCEPT ![c] = @ \o e.rta] /\ UNCHANGED conexion
               ELSE /\ conexion' = [conexion EXCEPT ![c] = IF e.rta = <<>> THEN @ ELSE "rota"]
                    /\ UNCHANGED salida
          /\ entrada' = entrada1 /\ ultima' = ultima1
          /\ UNCHANGED <<con, giro, cache>>
       \/ /\ e.fin = "muere" \/ (conexion[c] # "abierta" /\ e.rta # <<>>)
          /\ Apagar
    /\ visto' = Visto(c, m, e)
    /\ UNCHANGED entorno

Atender(c, tipos) ==
    /\ Atendiendo
    /\ entrada[c] # <<>>
    /\ Head(entrada[c]).t \in tipos
    /\ \E e \in Manejar(c, Head(entrada[c])) :
         Dejar(c, Head(entrada[c]), e, [entrada EXCEPT ![c] = Tail(@)], Head(entrada[c]).t)

AtenderGet(c) == Atender(c, {"GET2", "GET1"})
AtenderConsola(c) == Atender(c, {"DEPASO", "DEFINITIVO", "ESCRIBIR"})
\* A mutant: a case of the switch is missing.
AtenderPutDoble(c) == Atender(c, {"PUT2"})

AtenderPut(c) == Atender(c, {"PUT2", "PUT1"})
AtenderCHS(c) == Atender(c, {"CHS"})
AtenderCache(c) == Atender(c, {"HSCACHE"})

\* recibirH fails on a connection whose other end closed; nobody looks at what
\* it returns, and the descriptor of the last message is attended again with
\* whatever the buffers hold.
Indefinidos(t) ==
    CASE t \in {"PUT2"} -> {Mensaje(t, s, <<Basura, Basura>>) : s \in Pares}
      [] t \in {"PUT1", "ESCRIBIR"} -> {Mensaje(t, <<s>>, <<Basura>>) : s \in Sueltos}
      [] t \in {"GET2"} -> {Mensaje(t, s, <<>>) : s \in Pares}
      [] t \in {"GET1", "DEFINITIVO", "DEPASO"} -> {Mensaje(t, <<s>>, <<>>) : s \in Sueltos}
      [] OTHER -> {Mensaje(t, <<>>, <<>>)}

AtenderCierre(c) ==
    /\ Atendiendo
    /\ conexion[c] # "abierta"
    /\ entrada[c] = <<>>
    /\ \E t \in Tipos :
         /\ ultima \in {t, "indefinida"}
         /\ \E m \in Indefinidos(t) : \E e \in Manejar(c, m) : Dejar(c, m, e, entrada, ultima)

\* Every Pasadas passes of the loop the disk turns one sector.
FinDePasada ==
    /\ Atendiendo
    /\ giro' = (giro + 1) % Pasadas
    /\ cab' = IF giro = Pasadas - 1 THEN ImDisco(Rotado(Ubicar(cab))) ELSE cab
    /\ UNCHANGED <<proceso, ldap, sesion, memc, iCache, cache, est, ultima,
                   entrada, salida, conexion, con, entorno, visto>>

Bucle ==
    \/ \E c \in Clientes :
         \/ AtenderGet(c) \/ AtenderConsola(c) \/ AtenderPut(c)
         \/ AtenderCHS(c) \/ AtenderCache(c) \/ AtenderCierre(c)
    \/ FinDePasada

-----------------------------------------------------------------------------
(* The environment *)

\* main up to its loop: the sectors that LDAP has stay as they are.
Arrancar ==
    /\ proceso = "apagado"
    /\ proceso' = "atendiendo"
    /\ \/ /\ sesion' = "viva"
          /\ ldap' = [s \in Ids |-> IF ldap[s] = NoHay THEN Vacio ELSE ldap[s]]
       \/ /\ "iniciar" \in Fallas
          /\ sesion' = "perdida"
          /\ UNCHANGED ldap
    /\ cache' = IF HayCache THEN "naciendo" ELSE "no"
    /\ UNCHANGED <<memc, iCache, cab, giro, est, ultima, canales, con, entorno, visto>>

\* The operator (SIGINT) or an error ends the process.
Caer ==
    /\ proceso # "apagado"
    /\ nCaidas < MaxCaidas
    /\ nCaidas' = nCaidas + 1
    /\ Apagar
    /\ UNCHANGED <<ldap, memc, nPedidos, nComandos, nCierres, nDesalojos, visto>>

\* The same between the two modifications of a write.
CaerGrabando(c) ==
    /\ Atendiendo
    /\ nCaidas < MaxCaidas
    /\ nCaidas' = nCaidas + 1
    /\ entrada[c] # <<>>
    /\ Head(entrada[c]).t = "PUT2"
    /\ \E e \in LdapModificarSector(Estado, Head(entrada[c]).s[1], Head(entrada[c]).d[1],
                                    "grabar primero") : ldap' = e.ldap
    /\ Apagar
    /\ UNCHANGED <<memc, nPedidos, nComandos, nCierres, nDesalojos, visto>>

Pide(m) ==
    /\ Atendiendo
    /\ conexion["array"] = "abierta"
    /\ nPedidos < MaxPedidos
    /\ nPedidos' = nPedidos + 1
    /\ Envia("array", m)
    /\ UNCHANGED <<loopIgual, salida, con, nComandos, nCaidas, nCierres, nDesalojos, visto>>

PideGet == \/ \E s \in Pares : Pide(Mensaje("GET2", s, <<>>))
           \/ \E s \in Sueltos : Pide(Mensaje("GET1", <<s>>, <<>>))
PidePut ==
    LET n == nPedidos + 1
    IN \/ \E s \in Pares : Pide(Mensaje("PUT2", s, <<Escrito(s[1], n), Escrito(s[2], n)>>))
       \/ \E s \in Sueltos : Pide(Mensaje("PUT1", <<s>>, <<Escrito(s, n)>>))
PideCHS == Pide(Mensaje("CHS", <<>>, <<>>))

ArrayRecibe ==
    /\ Toma("array")
    /\ UNCHANGED <<loopIgual, entrada, con, entorno, visto>>

Cerrar(c) == conexion' = [conexion EXCEPT ![c] = "cerrada"]

ArrayCierra ==
    /\ Atendiendo
    /\ conexion["array"] = "abierta"
    /\ nCierres < MaxCierres
    /\ nCierres' = nCierres + 1
    /\ Cerrar("array")
    /\ salida' = [salida EXCEPT !["array"] = <<>>]
    /\ UNCHANGED <<proceso, ldap, sesion, memc, iCache, cache, cab, giro, est, ultima,
                   entrada, con, nPedidos, nComandos, nCaidas, nDesalojos, visto>>

\* The cache process connects and announces itself, some time after the fork.
CacheConecta ==
    /\ Atendiendo
    /\ cache = "naciendo"
    /\ cache' = "viva"
    /\ Envia("cache", Mensaje("HSCACHE", <<>>, <<>>))
    /\ UNCHANGED <<proceso, ldap, sesion, memc, iCache, cab, giro, est, ultima, salida,
                   conexion, con, entorno, visto>>

\* It ends when memcached refuses a sector.
CacheMuere ==
    /\ cache = "viva"
    /\ nCierres < MaxCierres
    /\ nCierres' = nCierres + 1
    /\ cache' = "muerta"
    /\ iCache' = IF iCache = "cache" THEN "rota" ELSE iCache
    /\ Cerrar("cache")
    /\ UNCHANGED <<proceso, ldap, sesion, memc, cab, giro, est, ultima, entrada, salida,
                   con, nPedidos, nComandos, nCaidas, nDesalojos, visto>>

\* memcached forgets a sector.
Desaloja(s) ==
    /\ memc[s] # NoHay
    /\ nDesalojos < MaxDesalojos
    /\ nDesalojos' = nDesalojos + 1
    /\ memc' = [memc EXCEPT ![s] = NoHay]
    /\ UNCHANGED <<proceso, ldap, sesion, iCache, cache, cab, giro, est, ultima, canales,
                   con, nPedidos, nComandos, nCaidas, nCierres, visto>>

Operador ==
    \/ \E l \in DeConsola :
         \/ OrdenObtener(l)
         \/ Len(l) = 1 /\ OrdenEscribir(l[1])
    \/ OrdenOtra

Entorno ==
    \/ Arrancar \/ Caer \/ \E c \in Clientes : CaerGrabando(c)
    \/ PideGet \/ PidePut \/ PideCHS \/ ArrayRecibe \/ ArrayCierra
    \/ CacheConecta \/ CacheMuere \/ \E s \in Ids \union {Total} : Desaloja(s)

-----------------------------------------------------------------------------
Init ==
    /\ proceso = "apagado"
    /\ ldap = [s \in Ids |-> NoHay]
    /\ sesion = "perdida"
    /\ memc = [s \in Ids \union {Total} |-> NoHay]
    /\ iCache = "cero" /\ cache = "no"
    /\ cab = 0 /\ giro = 0 /\ est = Est0 /\ ultima = "indefinida"
    /\ entrada = [c \in Clientes |-> <<>>]
    /\ salida = [c \in Clientes |-> <<>>]
    /\ conexion = [c \in Clientes |-> "abierta"]
    /\ con = Con0
    /\ nPedidos = 0 /\ nComandos = 0 /\ nCaidas = 0 /\ nCierres = 0 /\ nDesalojos = 0
    /\ visto = [s \in Ids |-> 0]

Next == Bucle \/ Consola \/ Operador \/ Entorno

\* A pass of the loop attends every connection that has something to read; the
\* console thread runs on its own.  The array reads what it is sent.
Fairness ==
    /\ \A c \in Clientes :
         /\ WF_vars(AtenderGet(c) \/ AtenderConsola(c) \/ AtenderPut(c)
                    \/ AtenderCHS(c) \/ AtenderCache(c))
    /\ WF_vars(Consola)

Spec == Init /\ [][Next]_vars
SpecJusta == Spec /\ Fairness

-----------------------------------------------------------------------------
(* Properties *)

\* Every variable has its type; the head is always on a sector of the disk.
TypeOK ==
    /\ proceso \in {"apagado", "atendiendo", "colgado"}
    /\ ldap \in [Ids -> Contenidos \union {NoHay}]
    /\ sesion \in {"viva", "perdida"}
    /\ memc \in [Ids \union {Total} -> Contenidos \union {NoHay}]
    /\ iCache \in {"cero", "cache", "rota"}
    /\ cache \in {"no", "naciendo", "viva", "muerta"}
    /\ cab \in Ids /\ giro \in 0..Pasadas - 1
    /\ est.tCache \in 0..Ancho - 1 /\ est.busquedas \in 0..Ancho - 1
    /\ conexion \in [Clientes -> {"abierta", "cerrada", "rota"}]
    /\ con.p \in (0..Cilindros - 1) \X (0..Sectores) /\ con.cab \in Ids

\* generarEstadisticasGet: whatever the head crossed for the sectors before, the
\* worst search is the walk to one sector, a step to each of the other cylinders
\* and then at most the rest of a turn, and the reading of it.
PeorTiempoAcotado == est.peor <= (Cilindros + Sectores - 1) * TLectura + TCache

\* The two codings of the walk agree: for each sector of an order the console
\* asks the loop for as many sectors on the way as the walk of
\* calculosYEstadisticas.c crosses from where its head was.
CaminosIguales ==
    con.paso = "espera sector" => con.leidos = Cruzados(con.desde, Head(con.resto))

\* The content of a sector is never found at another, in the directory or in
\* the cache, through pairs of which one is in the cache and one is not.
DelSector(s, v) == v \in {Vacio, Basura, NoHay} \/ v[1] = s
ContenidoDelSector ==
    /\ \A s \in Ids : DelSector(s, ldap[s])
    /\ \A s \in Ids \union {Total} : DelSector(s, memc[s])

\* With the array as the only writer, and while no search of the directory fails,
\* reads go forward: the cache, which writes do not refresh and a restart does
\* not empty, may return an old content, but never one older than a content that
\* was already returned, by an eviction, a refused write, or to the console.
LecturasMonotonas == [][\A s \in Ids : visto[s] <= visto'[s]]_vars

\* What the array asks is attended while the process lives and is not lost in
\* the search of a sector the disk does not have.
SeResponde == (entrada["array"] # <<>>) ~> (entrada["array"] = <<>> \/ ~Atendiendo)

\* The console thread, which blocks on the loop at each sector it crosses, and
\* from a column past the end after escribirSector, ends each of its orders.
ConsolaTermina == (con.paso # "lee") ~> (con.paso = "lee" \/ ~Atendiendo)

-----------------------------------------------------------------------------
(* What it implements *)

TipoAbstracto(m) ==
    CASE m.t \in TiposGet -> "LEE"
      [] m.t \in {"PUT2", "PUT1"} -> "GRABA"
      [] m.t = "ESCRIBIR" -> "GRABA SIN AVISO"
      [] OTHER -> "OTRO"
RtaAbstracta(r) ==
    CASE r.t = "GET" -> "DATOS"
      [] r.t = "PUT_OK" -> "OK"
      [] r.t = "PUT_FAIL" -> "FALLA"
      [] OTHER -> "OTRA"
PedidoAbstracto(m) ==
    [t |-> TipoAbstracto(m), s |-> IF TipoAbstracto(m) = "OTRO" THEN <<>> ELSE m.s, d |-> m.d]

A == INSTANCE Almacen WITH
       contenido <- [s \in Ids |-> IF ldap[s] = NoHay THEN Vacio ELSE ldap[s]],
       entrada <- [c \in Clientes |->
                     [k \in DOMAIN entrada[c] |-> PedidoAbstracto(entrada[c][k])]],
       salida <- [c \in Clientes |->
                    [k \in DOMAIN salida[c] |->
                       [t |-> RtaAbstracta(salida[c][k]), d |-> salida[c][k].d]]]

\* Without a cache, and if the first write of a pair does not fail, the disk is a
\* store of sectors: each request is attended whole between two others, OK means
\* that every sector is in the directory, and a stop loses nothing that was there.
EsAlmacen == A!Spec
=============================================================================

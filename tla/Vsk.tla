--------------------------------- MODULE Vsk ---------------------------------
(***************************************************************************)
(* The VSK process (Linux/Vsk) with what it talks to: the SFS, one device  *)
(* (DA) and the clients of its system calls.                               *)
(*                                                                         *)
(* The VSK is one loop over select.  A system call is a machine of steps:  *)
(* the first one is taken when the request of the client arrives, each of  *)
(* the others when an answer of the SFS or of the DA does.  Between two    *)
(* steps the loop attends anybody else; what joins the steps are two       *)
(* linked lists, the descriptors (L_FD) and the open files (L_OFT), and a  *)
(* few variables of main that outlive an iteration (Aux_Conexiones, the    *)
(* DescriptorID of the last header).                                       *)
(*                                                                         *)
(* A handler is a function from a state (EstadoVsk) to the set of states   *)
(* it may leave.                                                           *)
(***************************************************************************)
EXTENDS Sfs, SequencesExt

CONSTANTS
    Sockets,            \* sockets of clients: descriptors of the VSK
    Modos,              \* what clients ask: "W", "R", "D" (delete), "L" (list)
    Ids,                \* DescriptorID of a call: the one of the "open", or a "new" one
    HayCache, MaxCache, \* the configuration: the cache of sectors and its size
    Comandos,           \* commands of the console
    MaxSesiones, MaxBloques, MaxCortes, MaxReinicios, MaxComandos

ASSUME VskAssumption ==
    /\ Modos \subseteq {"W", "R", "D", "L"}
    /\ Ids \subseteq {"open", "new"} /\ Ids # {}
    /\ HayCache \in BOOLEAN
    /\ Comandos \subseteq {"montar", "desmontar", "formatear", "GET", "PUT", "CHS"}
    /\ {MaxCache, MaxSesiones, MaxBloques, MaxCortes, MaxReinicios, MaxComandos} \subseteq Nat

VARIABLES
    vsk,                \* "atendiendo"; blocked in the console's format ("espera CHS",
                        \* "espera formato") or for ever ("buscando", "bloqueada"); reading
                        \* payloads as headers ("desfasada"); "muerta"
    fds,                \* L_FD, from its head
    oft, cab,           \* nodes of the OFT, freed ones too, and L_OFT: a node, or 0
    aux,                \* Aux_Conexiones: "nulo", "SFS", "DA", or "suelto" (a freed node)
    con,                \* connection with the SFS: "si", "rota" (its node stays), "no"
    montado,            \* cMontado of the DA
    ultId,              \* the DescriptorID of the last header received
    basura,             \* iPaso of the last FD that was freed
    da, disco,          \* the DA attends or not, and what it holds
    aDa, deDa,          \* requests to the DA, and its answers
    cache, cant,        \* the entries of the cache in LDAP; iCantidadActual, -1 without session
    cl, ped,            \* per socket: the client, and its request not yet read
    escrito,            \* history, per file: what the last session that wrote it left
    solapado, ajena,    \* history: two sessions at a time; an answer that was another's
    cuenta              \* bounds: sessions, cuts, restarts and commands so far

varsVsk == <<vsk, fds, oft, cab, aux, con, montado, ultId, basura, da, disco, aDa, deDa,
             cache, cant, cl, ped, escrito, solapado, ajena, cuenta>>
vars == <<varsSfs, culpas, varsVsk>>

-----------------------------------------------------------------------------
(* Data *)

Vacio == <<0, 0, 0>>                            \* what a sector has before it is written
Mitades(id, n) == <<<<id, n, 1>>, <<id, n, 2>>>> \* the n-th block of a session
Incierto == <<"incierto">>

Fuera == [est |-> "fuera", id |-> 0, modo |-> Nada, a |-> Nada, n |-> 0, leido |-> <<>>]
Esperando == {"abriendo", "leyendo", "escribiendo", "cerrando", "listando"}

Llamada(t, id, s) == [t |-> t, id |-> id, s |-> s]
NoLlamada == Llamada(Nada, 0, <<>>)
DePedido(t, id, s, v) == [t |-> t, id |-> id, s |-> s, v |-> v]

\* Answers that carry a payload: who does not read it reads it as a header.
ConPayload == {"DOS", "INFO", "LISTADO", "GET", "GET1", "CHS"}

\* What a session that ended left in a file, sector by sector.
Contenido(w) == FlattenSeq([n \in 1..w[2] |-> Mitades(w[1], n)])

-----------------------------------------------------------------------------
(* What a handler works on *)

EstadoVsk == [vsk |-> vsk, fds |-> fds, oft |-> oft, cab |-> cab, aux |-> aux, con |-> con,
              montado |-> montado, basura |-> basura, da |-> da, aSfs |-> aSfs, aDa |-> aDa,
              cache |-> cache, cant |-> cant, cl |-> cl, ped |-> ped, escrito |-> escrito,
              ajena |-> ajena, culpas |-> culpas]

Fin(e, como) == [e EXCEPT !.vsk = como]
Desfasa(e) == [Fin(e, "desfasada") EXCEPT !.culpas = @ \union {"descartada"}]
Luego(es, F(_)) == UNION {IF e.vsk = "atendiendo" THEN F(e) ELSE {e} : e \in es}
PuedeMorir(e, acceso) == IF acceso \in Mueren THEN {Fin(e, "muerta")} ELSE {}

\* A request to the SFS.  A closed socket gives an error nobody looks at, a peer
\* that ended a signal.
PideSfs(e, t, modo, id, a, s) ==
    IF e.con = "si" /\ sfs = "atendiendo"
      THEN {[e EXCEPT !.aSfs = Append(@, Pedido(t, modo, id, a, s))]}
    ELSE IF e.con = "si" THEN {e} \union PuedeMorir(e, "sigpipe")
    ELSE IF e.con = "rota" THEN {e}
    ELSE {Fin(e, "muerta")}

\* buscarConexionPorDA and a request to the DA: one that stopped attending has
\* its connection or has it no more.
PideDa(e, t, id, s, v) ==
    IF e.da = "atendiendo" THEN {[e EXCEPT !.aDa = Append(@, DePedido(t, id, s, v))]}
    ELSE {e, Fin(e, "muerta")}

-----------------------------------------------------------------------------
(* L_FD *)

PrimeroDe(K) == IF K = {} THEN 0 ELSE CHOOSE k \in K : \A j \in K : k <= j

FdPorSocket(e, c) == PrimeroDe({k \in DOMAIN e.fds : e.fds[k].sock = c})

\* A mutant: the search of a DescriptorID compares nothing.
FdPrimero(e, id) == PrimeroDe(DOMAIN e.fds)

FdPorId(e, id) == PrimeroDe({k \in DOMAIN e.fds : e.fds[k].id = id})

\* cargarInfoFD and meterFd: iPaso is not copied, so it is what the memory had.
MeterFd(e, id, c, sys, a) ==
    {[e EXCEPT !.fds = <<[id |-> id, sock |-> c, sys |-> sys, oft |-> 0, paso |-> p,
                          pos |-> 0, tot |-> 0, a |-> a, s |-> <<>>]>> \o @] :
        p \in {0, IF sys = "LIST" THEN e.basura ELSE 0}}

\* quitarFdPorSocket walks while the socket is the one to delete.  "ajeno": what it
\* deletes is the descriptor of a session that goes on.
EnSesion(e, k) == e.cl[e.fds[k].sock].est # "fuera" /\ e.cl[e.fds[k].sock].id = e.fds[k].id
QuitarFdPorSocket(e, c) ==
    LET k == PrimeroDe({j \in DOMAIN e.fds : e.fds[j].sock # c})
    IN IF k = 0 THEN e
       ELSE [e EXCEPT !.fds = RemoveAt(@, k),
                      !.culpas = IF EnSesion(e, k) THEN @ \union {"ajeno"} ELSE @,
                      !.basura = IF "L" \in Modos THEN e.fds[k].paso ELSE 0]

-----------------------------------------------------------------------------
(* L_OFT *)

\* crearfcbOFT, meterOft: a node of its own, or one that was freed before.
MeterOft(e, k, modo, sec) ==
    LET f == [a |-> e.fds[k].a, modo |-> modo, tam |-> 0, buf |-> <<Vacio, Vacio>>,
              sec |-> sec, sgte |-> e.cab, libre |-> FALSE]
    IN {[e EXCEPT !.oft = IF n > Len(@) THEN Append(@, f) ELSE [@ EXCEPT ![n] = f],
                  !.cab = n, !.fds[k].oft = n, !.fds[k].tot = Len(sec)] :
           n \in {Len(e.oft) + 1} \union {n \in DOMAIN e.oft : e.oft[n].libre}}

\* quitarOftPorNombreDescriptor: every node has the descriptor of the socket the
\* answers come from, the SFS's, so the one deleted is the first.  A first node
\* that is freed memory is freed again, or passed by.  "guarda": the caller
\* stores the new head.
QuitarOft(e, guarda) ==
    LET n == e.cab
        s == e.oft[n].sgte
    IN IF n = 0 THEN {e}
       ELSE IF ~e.oft[n].libre
         THEN {[e EXCEPT !.oft[n].libre = TRUE, !.cab = IF guarda THEN s ELSE n]}
       ELSE PuedeMorir(e, "oft") \union
            (IF s = 0 THEN {e}
             ELSE IF s = n THEN {Fin(e, "buscando")}
             ELSE {[e EXCEPT !.oft[s].libre = TRUE, !.oft[n].sgte = e.oft[s].sgte]})

\* verificarArchivoAbiertoPara: a first node that is not the one looked for is
\* made its own successor, and the search goes on for ever.
VerificarAbierto(e, a, modo) ==
    IF e.cab = 0 THEN {"pasa"}
    ELSE LET f == e.oft[e.cab]
             es == f.a = a /\ f.modo = modo
         IN (IF es THEN {"abierto"} ELSE {}) \union (IF es /\ ~f.libre THEN {} ELSE {"buscando"})

\* An access to the file of a FD, which may have been freed.
UsaArchivo(e, k) ==
    IF e.fds[k].oft = 0 THEN {Fin(e, "muerta")}
    ELSE {e} \union (IF e.oft[e.fds[k].oft].libre THEN PuedeMorir(e, "oft") ELSE {})

-----------------------------------------------------------------------------
(* The client of a FD *)

Espera(est) ==
    CASE est = "abriendo" -> {"OPEN_OK", "OPEN_FAILED"}
      [] est = "leyendo" -> {"READ_OK"}
      [] est = "escribiendo" -> {"WRITE_OK", "ERROR"}
      [] est = "cerrando" -> {"CLOSE_OK"}
      [] est = "listando" -> {"LIST_OK"}
      [] OTHER -> {}

Recibe(r, t, v) ==
    CASE t = "OPEN_OK" -> [r EXCEPT !.est = "abierto"]
      [] t = "OPEN_FAILED" -> [r EXCEPT !.est = "fallido"]
      [] t = "WRITE_OK" -> [r EXCEPT !.est = "abierto", !.n = @ + 1]
      [] t = "READ_OK" -> [r EXCEPT !.est = IF v = <<>> THEN "leido" ELSE "abierto",
                                    !.leido = @ \o v]
      [] t \in {"CLOSE_OK", "LIST_OK", "ERROR"} -> [r EXCEPT !.est = "terminado"]

\* A mutant: the answer to a write is not sent.
EntregaSinEscritura(e, k, t, v) ==
    IF t = "WRITE_OK" THEN {e} ELSE
    LET c == e.fds[k].sock
    IN {[e EXCEPT !.cl[c] = Recibe(@, t, v)]}

\* A header to the socket of a FD: its client may be gone, and the socket may be
\* another client's by now.
Entrega(e, k, t, v) ==
    LET c == e.fds[k].sock
        r == e.cl[c]
    IN CASE r.est = "fuera" -> {e}
         [] r.est = "cortado" -> {e} \union PuedeMorir(e, "sigpipe")
         [] r.id = e.fds[k].id /\ t \in Espera(r.est) ->
                {[e EXCEPT !.cl[c] = Recibe(r, t, v),
                           !.escrito = IF t # "CLOSE_OK" \/ r.a = Nada \/ r.modo = "R" THEN @
                                       ELSE [@ EXCEPT ![r.a] = IF r.modo = "W" THEN <<r.id, r.n>>
                                                               ELSE Incierto]]}
         [] OTHER -> {[e EXCEPT !.cl[c].est = "confuso", !.ajena = TRUE]}

\* FD_CLR and close.
CierraSocket(e, c) == [e EXCEPT !.cl[c] = Fuera, !.ped[c] = NoLlamada]

\* The end of a call that ends the session.
Termina(e, k, t) ==
    LET c == e.fds[k].sock
    IN Luego(Entrega(e, k, t, <<>>), LAMBDA x : {QuitarFdPorSocket(CierraSocket(x, c), c)})

-----------------------------------------------------------------------------
(* The cache of sectors *)

\* ldapCargarCache: a bucket that is there is refused by LDAP.
CargarCache(e, s, v) ==
    [e EXCEPT !.cache = IF Len(@) > e.cant THEN @ ELSE Append(@, [s |-> s, v |-> v, ok |-> TRUE]),
              !.cant = @ + 1]

\* The victim keeps its name (its sector).  If no entry is valid there is no
\* victim, LDAP refuses the text that is used as its name and the session ends.
PisarVictima(e, v) ==
    LET validas == {n \in DOMAIN e.cache : e.cache[n].ok}
        x == [e EXCEPT !.culpas = @ \union {"victima"}]
    IN IF validas = {} THEN {[x EXCEPT !.cant = -1]} \union PuedeMorir(e, "cache")
       ELSE {[x EXCEPT !.cache[n].v = v] : n \in validas}

GuardarEnCache(e, s, v) ==
    IF e.cant = -1 THEN {e} \union PuedeMorir(e, "cache")
    ELSE IF e.cant < MaxCache THEN {CargarCache(e, s, v)}
    ELSE PisarVictima(e, v)

\* ldapBuscarCache: each entry of the sector that is valid gives its content, the
\* last one says if there was any.  A search that fails says there was.
EnCache(e, s) == {n \in DOMAIN e.cache : e.cache[n].s = s}
Acierta(e, s) ==
    \/ e.cant = -1
    \/ EnCache(e, s) # {} /\ \E n \in EnCache(e, s) :
                                e.cache[n].ok /\ \A j \in EnCache(e, s) : j <= n
BuscarCache(e, s, buf) ==
    LET validas == {n \in EnCache(e, s) : e.cache[n].ok}
    IN IF validas = {} \/ e.cant = -1 THEN buf
       ELSE e.cache[CHOOSE n \in validas : \A j \in validas : j <= n].v

\* A mutant: a write leaves the cache as it is.
NoInvalidar(e, ss) == {e}

\* ldapBuscarCacheParaInvalidar for each of the sectors of a write.
Invalidar(e, ss) ==
    LET q == [n \in DOMAIN e.cache |->
                [e.cache[n] EXCEPT !.ok = @ /\ e.cache[n].s \notin Conjunto(ss)]]
    IN IF ~HayCache THEN {e}
       ELSE IF e.cant = -1 THEN {e} \union PuedeMorir(e, "cache")
       ELSE {[e EXCEPT !.cache = q]}

-----------------------------------------------------------------------------
(* The system calls: k is the FD, m the header that arrived *)

\* A mutant: the list of sectors stays in the order of the answer.
ListaComoViene(s) == s

\* The sectors come as a stack and are stored from the last to the first.
CrearListaSectores(s) == AlReves(s)

\* sys_open when the request arrives.
AbrirPrimero(e, k, m) ==
    UNION {CASE r = "abierto" -> {e}
             [] r = "buscando" -> {Fin(e, "buscando")}
             [] r = "pasa" -> PideSfs(e, "EXISTE", m.s.modo, m.id, m.s.a, <<>>) :
           r \in VerificarAbierto(e, m.s.a, IF m.s.modo = "W" THEN "W" ELSE "R")}

\* sys_open when an answer arrives.
Abrir(e, k, m) ==
    LET pide(t) == PideSfs(e, t, m.modo, m.id, e.fds[k].a, <<>>)
        queda(modo, sec) == UNION {Entrega(x, k, "OPEN_OK", <<>>) : x \in MeterOft(e, k, modo, sec)}
    IN CASE m.t = "SI" /\ m.modo = "W" -> pide("ELIMINA")
         [] m.t \in {"NO", "ELIMINADO"} /\ m.modo = "W" -> pide("CREAR")
         [] m.t = "CREADO" -> queda("W", <<>>)
         [] m.t = "SI" /\ m.modo = "R" -> pide("INFO")
         [] m.t = "INFO" -> queda("R", CrearListaSectores(m.s))
         [] m.t = "SI" /\ m.modo = "D" -> queda("D", <<>>)
         [] m.t = "NO" /\ m.modo # "W" -> Entrega(e, k, "OPEN_FAILED", <<>>)
         [] OTHER -> {IF m.t \in ConPayload THEN Desfasa(e) ELSE e}

\* sys_close when the request arrives.  Without a file it sends nothing; a file
\* that was read is taken from the list, whose head the caller does not store.
CerrarPrimero(e, k, m) ==
    LET f == e.oft[e.fds[k].oft]
        x == [e EXCEPT !.fds[k].paso = 1]
        pide(modo, t, s) == PideSfs(x, t, modo, m.id, f.a, s)
    IN IF e.fds[k].oft = 0 THEN {x}
       ELSE Luego(UsaArchivo(e, k), LAMBDA y :
            CASE f.modo = "R" -> Luego(QuitarOft(y, FALSE), LAMBDA z : Termina(z, k, "CLOSE_OK"))
              [] f.modo = "W" -> pide("W", "TAMANIO", <<f.tam>>)
              [] f.modo = "D" -> pide("D", "ELIMINA", <<>>))

\* sys_close when an answer arrives, whichever it is: CLOSE_FILE_OK is sent twice.
Cerrar(e, k, m) ==
    IF e.fds[k].paso # 1 THEN {IF m.t \in ConPayload THEN Desfasa(e) ELSE e}
    ELSE Luego(UsaArchivo(e, k), LAMBDA x :
         Luego(QuitarOft(x, TRUE), LAMBDA y :
         Luego(Termina(y, k, "CLOSE_OK"), LAMBDA z :
         {IF m.t \in ConPayload THEN Desfasa(z) ELSE z})))

\* sys_write and sys_flush when the request arrives: the two sectors are asked
\* over the connection that the last other message looked for.
EscribirPrimero(e, k, m) ==
    LET n == e.fds[k].oft
        x == [e EXCEPT !.oft[n].buf = m.s, !.oft[n].tam = @ + 1, !.fds[k].paso = 2]
    IN Luego(UsaArchivo(e, k), LAMBDA y :
       CASE e.oft[n].modo # "W" -> {Desfasa(e)}
         [] e.aux = "SFS" -> PideSfs(x, "DOS", "-", m.id, Nada, <<>>)
         [] e.aux = "DA" -> PideDa(x, "DOS", m.id, <<>>, <<>>)
         [] e.aux = "suelto" -> {x} \union PideSfs(x, "DOS", "-", m.id, Nada, <<>>)
         [] OTHER -> {Fin(e, "muerta")})

\* sys_flush when the two sectors arrive, and sys_write when the DA wrote them.
Escribir(e, k, m) ==
    LET f == e.oft[e.fds[k].oft]
        x == [e EXCEPT !.fds[k].paso = 3]
    IN Luego(UsaArchivo(e, k), LAMBDA w :
       CASE e.fds[k].paso = 2 /\ m.t = "DOS" ->
                Luego(PideSfs(x, "AGREGAR", "-", m.id, f.a, m.s), LAMBDA y :
                Luego(Invalidar(y, m.s), LAMBDA z :
                PideDa(z, "PUT", m.id, m.s, f.buf)))
         [] e.fds[k].paso = 3 -> Luego(Entrega(e, k, "WRITE_OK", <<>>), LAMBDA y :
                                 {IF m.t \in ConPayload THEN Desfasa(y) ELSE y})
         [] OTHER -> {Desfasa(e)})

\* A mutant: the position advances by pairs.
AvanzaDePares(e, k, cuantos) == [e EXCEPT !.fds[k].pos = @ + 2]

Avanza(e, k, cuantos) == [e EXCEPT !.fds[k].pos = @ + cuantos]

\* sys_read when the request arrives.  Of two sectors of which one is in the
\* cache none is asked.  The last one of an odd number is looked for in the cache
\* in a session and with a sector that were not set.
LeerPrimero(e, k, m) ==
    LET n == e.fds[k].oft
        f == e.oft[n]
        p == e.fds[k].pos
        quedan == e.fds[k].tot - p
        dos == <<f.sec[p + 1], f.sec[p + 2]>>
        aciertos == {i \in 1..2 : HayCache /\ Acierta(e, dos[i])}
        x == [e EXCEPT !.oft[n].buf = IF HayCache THEN [i \in 1..2 |-> BuscarCache(e, dos[i], @[i])]
                                      ELSE @]
        pide(y, t, s) == PideDa([y EXCEPT !.fds[k].paso = 1, !.fds[k].s = s], t, m.id, s, <<>>)
    IN Luego(UsaArchivo(e, k), LAMBDA w :
       CASE f.modo # "R" -> {e}
         [] quedan >= 2 /\ aciertos = {} -> pide(Avanza(x, k, 2), "GET", dos)
         [] quedan >= 2 /\ aciertos = {1, 2} -> Entrega(Avanza(x, k, 2), k, "READ_OK", x.oft[n].buf)
         [] quedan >= 2 /\ Cardinality(aciertos) = 1 -> {x}
         [] quedan = 1 /\ HayCache /\ e.cant = -1 -> {e}
         [] quedan = 1 -> pide(Avanza(e, k, 1), "GET1", <<f.sec[p + 1]>>)
                          \union (IF HayCache THEN {} ELSE PuedeMorir(e, "cache"))
         [] OTHER -> Entrega([e EXCEPT !.fds[k].paso = 2], k, "READ_OK", <<>>))

\* sys_read when the answer of the DA arrives: 1024 bytes are read, whatever was
\* asked; what was read goes to the cache under the sectors of the FD, which has no
\* second one (iSector2 is -1) when one was asked.
Leer(e, k, m) ==
    LET n == e.fds[k].oft
        s == e.fds[k].s
        x == [e EXCEPT !.oft[n].buf = m.v, !.fds[k].paso = 0]
        guarda(y, i) == IF HayCache /\ i \in DOMAIN s THEN GuardarEnCache(y, s[i], m.v[i]) ELSE {y}
    IN Luego(UsaArchivo(e, k), LAMBDA w :
       CASE e.fds[k].paso = 1 /\ m.t = "GET" ->
                Luego(guarda(x, 1), LAMBDA y :
                Luego(guarda(y, 2), LAMBDA z : Entrega(z, k, "READ_OK", m.v)))
         [] e.fds[k].paso = 1 -> {Fin(e, "bloqueada")}
         [] OTHER -> {Desfasa(e)})

\* sys_list: iPaso is what the memory of the node had.
ListarPrimero(e, k, m) ==
    CASE e.fds[k].paso = 0 -> PideSfs([e EXCEPT !.fds[k].paso = 1], "LISTAR", "-", m.id, Nada, <<>>)
      [] e.fds[k].paso = 1 -> {Fin(e, "bloqueada")}
      [] OTHER -> {Desfasa(e)}

Listar(e, k, m) ==
    IF e.fds[k].paso = 1 /\ m.t = "LISTADO" THEN Termina(e, k, "LIST_OK")
    ELSE {IF m.t \in ConPayload THEN Desfasa(e) ELSE e}

-----------------------------------------------------------------------------
(* The loop of main *)

\* buscarConexionPorTipo for the SFS, and the use of what it returns.
BuscaSfs(e) == IF e.con = "no" THEN Fin(e, "muerta") ELSE [e EXCEPT !.aux = "SFS"]

\* The cases SYS_OPEN and SYS_LIST put a FD in the list, the others look for the
\* one of the socket.
AtenderCliente(e, c, m) ==
    LET k == FdPorSocket(e, c)
        de(sys) == IF k = 0 THEN Fin(e, "muerta")
                   ELSE [e EXCEPT !.fds[k].sys = sys, !.fds[k].paso = 0]
    IN CASE m.t = "OPEN" -> Luego({BuscaSfs(x) : x \in MeterFd(e, m.id, c, "OPEN", m.s.a)},
                                  LAMBDA x : AbrirPrimero(x, 1, m))
         [] m.t = "LIST" -> Luego({BuscaSfs(x) : x \in MeterFd(e, m.id, c, "LIST", Nada)},
                                  LAMBDA x : ListarPrimero(x, 1, m))
         [] m.t = "CLOSE" -> Luego(Luego({de("CLOSE")}, LAMBDA x : {BuscaSfs(x)}),
                                   LAMBDA x : CerrarPrimero(x, k, m))
         [] m.t = "READ" -> Luego({de("READ")}, LAMBDA x : LeerPrimero(x, k, m))
         [] m.t = "WRITE" -> Luego({de("WRITE")}, LAMBDA x : EscribirPrimero(x, k, m))

\* An answer goes on with the call its FD was in.  Without a FD, what the console
\* could have asked is printed.
Respuesta(e, m) ==
    LET k == FdPorId(e, m.id)
    IN IF k = 0 THEN {IF m.t \in {"DOS", "INFO", "LISTADO"} THEN Desfasa(e) ELSE e}
       ELSE Luego({BuscaSfs(e)}, LAMBDA x :
            CASE x.fds[k].sys = "OPEN" -> Abrir(x, k, m)
              [] x.fds[k].sys = "CLOSE" -> Cerrar(x, k, m)
              [] x.fds[k].sys = "LIST" -> Listar(x, k, m)
              [] x.fds[k].sys = "READ" -> Leer(x, k, m)
              [] x.fds[k].sys = "WRITE" -> Escribir(x, k, m))

\* The case ERROR: the file is taken from the list and the client is closed; its
\* FD stays.
ErrorDelSfs(e, m) ==
    LET k == FdPorId(e, m.id)
    IN IF k = 0 THEN {e}
       ELSE Luego(IF e.fds[k].oft = 0 THEN {e}
                  ELSE Luego(UsaArchivo(e, k), LAMBDA x : QuitarOft(x, TRUE)), LAMBDA y :
            Luego(Entrega(y, k, "ERROR", <<>>), LAMBDA z : {CierraSocket(z, e.fds[k].sock)}))

\* What arrives from the SFS.  A header that announces what is not sent, and a
\* text without a header, leave the loop reading the wrong bytes; the answer to a
\* format is not among the cases, and its sender is closed.
AtenderSfs(e, m) ==
    CASE m.t \in {"ERROR SOLO", "TEXTO"} -> {Desfasa(e)}
      [] m.t = "FORMATEADO" -> {[e EXCEPT !.con = "rota"]}
      [] m.t = "ERROR" -> ErrorDelSfs(e, m)
      [] OTHER -> Respuesta(e, m)

-----------------------------------------------------------------------------
(* Actions *)

Aplica(e) ==
    /\ vsk' = e.vsk /\ fds' = e.fds /\ oft' = e.oft /\ cab' = e.cab /\ aux' = e.aux
    /\ con' = e.con /\ montado' = e.montado /\ basura' = e.basura /\ da' = e.da
    /\ aSfs' = e.aSfs /\ aDa' = e.aDa /\ cache' = e.cache /\ cant' = e.cant
    /\ cl' = e.cl /\ ped' = e.ped /\ escrito' = e.escrito /\ ajena' = e.ajena
    /\ culpas' = e.culpas

\* The header that was received stays in main's "cabecera"; only the console uses
\* it, so the model forgets it when no command is left.
Cabecera(id) == ultId' = IF cuenta.o < MaxComandos THEN id ELSE 0

VskCliente(c) ==
    /\ vsk = "atendiendo" /\ ped[c].t # Nada
    /\ \E e \in AtenderCliente([EstadoVsk EXCEPT !.ped[c] = NoLlamada], c, ped[c]) : Aplica(e)
    /\ Cabecera(ped[c].id)
    /\ UNCHANGED <<sfs, formateado, libres, archivos, sesionSfs, ucBuf, nombreInfo, deSfs,
                   disco, deDa, solapado, cuenta>>

\* The process is lost while it attends the pair it was given.
CaeConPar(e, m) ==
    IF m.t = "DOS" /\ e.vsk \notin {"atendiendo", "desfasada"} THEN Culpa(e, "caida") ELSE e

VskSfs ==
    /\ vsk = "atendiendo" /\ con = "si" /\ deSfs # <<>>
    /\ deSfs' = Tail(deSfs)
    /\ \E e \in AtenderSfs(EstadoVsk, Head(deSfs)) : Aplica(CaeConPar(e, Head(deSfs)))
    /\ Cabecera(Head(deSfs).id)
    /\ UNCHANGED <<sfs, formateado, libres, archivos, sesionSfs, ucBuf, nombreInfo,
                   disco, deDa, solapado, cuenta>>

VskDa ==
    /\ vsk = "atendiendo" /\ deDa # <<>>
    /\ deDa' = Tail(deDa)
    /\ \E e \in Respuesta(EstadoVsk, Head(deDa)) : Aplica(e)
    /\ Cabecera(Head(deDa).id)
    /\ UNCHANGED <<sfs, formateado, libres, archivos, sesionSfs, ucBuf, nombreInfo, deSfs,
                   disco, solapado, cuenta>>

\* recibirH fails on the socket of a client: its FD and its file stay.
VskPierdeCliente(c) ==
    /\ vsk = "atendiendo" /\ cl[c].est = "cortado" /\ ped[c].t = Nada
    /\ Aplica(CierraSocket(EstadoVsk, c))
    /\ UNCHANGED <<sfs, formateado, libres, archivos, sesionSfs, ucBuf, nombreInfo, deSfs,
                   disco, deDa, ultId, solapado, cuenta>>

\* recibirH fails on the socket of the SFS, once what it sent was read.
VskPierdeSfs ==
    /\ vsk = "atendiendo" /\ con = "si" /\ sfs = "muerto" /\ deSfs = <<>>
    /\ Aplica([EstadoVsk EXCEPT !.con = "no", !.aux = IF @ = "SFS" THEN "suelto" ELSE @])
    /\ UNCHANGED <<sfs, formateado, libres, archivos, sesionSfs, ucBuf, nombreInfo, deSfs,
                   disco, deDa, ultId, solapado, cuenta>>

\* The commands of the console: the DA is found by name or by type, or was lost.
\* What they send carries the DescriptorID of the last header received.
Encuentra(e) == {[e EXCEPT !.aux = "DA"]}
                \union (IF e.da = "perdida" THEN {[e EXCEPT !.aux = "nulo"]} ELSE {})

PideConsola(e, t, s, v) ==
    IF e.aux = "nulo" THEN {e} ELSE
    {x \in PideDa(e, t, ultId, s, v) : x.vsk # "muerta"}

Comando(e, t) ==
    UNION {CASE t \in {"montar", "desmontar"} ->
                    {IF x.aux = "DA" THEN [x EXCEPT !.montado = (t = "montar")] ELSE x}
             [] t \in {"GET", "PUT"} ->
                    UNION {PideConsola(Culpa(x, "consola"), t, <<s, s>>, <<Vacio, Vacio>>) :
                           s \in Sectores}
             [] t = "CHS" -> PideConsola(Culpa(x, "consola"), t, <<>>, <<>>)
             [] t = "formatear" ->
                    IF x.aux = "nulo" \/ ~x.montado THEN {x}
                    ELSE {Fin(y, "espera CHS") : y \in PideConsola(x, "CHS", <<>>, <<>>)} :
           x \in Encuentra(e)}

Consola ==
    /\ vsk = "atendiendo" /\ cuenta.o < MaxComandos
    /\ \E t \in Comandos : \E e \in Comando(EstadoVsk, t) : Aplica(e)
    /\ cuenta' = [cuenta EXCEPT !.o = @ + 1]
    /\ ultId' = IF cuenta.o + 1 < MaxComandos \/ vsk' # "atendiendo" THEN ultId ELSE 0
    /\ UNCHANGED <<sfs, formateado, libres, archivos, sesionSfs, ucBuf, nombreInfo, deSfs,
                   disco, deDa, solapado>>

\* The format blocks in recibirH, and takes whatever comes first as the answer to
\* its requests.  What is no GETCHS gives a number of sectors that is not one.
FormatoChs ==
    /\ vsk = "espera CHS" /\ deDa # <<>>
    /\ LET m == Head(deDa)
           x == [EstadoVsk EXCEPT !.vsk = "atendiendo",
                     !.culpas = @ \union (IF m.t = "CHS" THEN {} ELSE {"descartada"})]
           n == IF m.t = "CHS" THEN NumSectores ELSE Otra
       IN /\ \E e \in Luego(Luego({BuscaSfs(x)}, LAMBDA y :
                                  PideSfs(y, "FORMATEAR", "-", m.id, Nada, <<n>>)),
                            LAMBDA z : {Fin(z, "espera formato")}) : Aplica(e)
          /\ ultId' = m.id
    /\ deDa' = Tail(deDa)
    /\ UNCHANGED <<sfs, formateado, libres, archivos, sesionSfs, ucBuf, nombreInfo, deSfs,
                   disco, solapado, cuenta>>

FormatoVuelta ==
    /\ vsk = "espera formato" /\ con = "si" /\ deSfs # <<>>
    /\ LET m == Head(deSfs)
           x == [EstadoVsk EXCEPT !.vsk = "atendiendo",
                     !.culpas = @ \union (IF m.t = "FORMATEADO" THEN {} ELSE {"descartada"})]
       IN /\ Aplica(IF m.t \in ConPayload \union {"ERROR", "ERROR SOLO", "TEXTO"} THEN Desfasa(x)
                    ELSE x)
          /\ Cabecera(m.id)
    /\ deSfs' = Tail(deSfs)
    /\ UNCHANGED <<sfs, formateado, libres, archivos, sesionSfs, ucBuf, nombreInfo,
                   disco, deDa, solapado, cuenta>>

\* The socket of the SFS was closed, here or there: recibirH returns at once.
FormatoSinSfs ==
    /\ vsk = "espera formato" /\ deSfs = <<>> /\ (con = "rota" \/ sfs = "muerto")
    /\ Aplica([EstadoVsk EXCEPT !.vsk = "atendiendo"])
    /\ UNCHANGED <<sfs, formateado, libres, archivos, sesionSfs, ucBuf, nombreInfo, deSfs,
                   disco, deDa, ultId, solapado, cuenta>>

-----------------------------------------------------------------------------
(* The SFS, the DA and who starts them *)

Sfs == SfsAtiende /\ UNCHANGED varsVsk

\* The loop of the SFS ends when its connection does.
SfsTermina ==
    /\ sfs = "atendiendo" /\ con # "si" /\ aSfs = <<>>
    /\ sfs' = "muerto"
    /\ UNCHANGED <<formateado, libres, archivos, sesionSfs, ucBuf, nombreInfo, aSfs, deSfs,
                   culpas, varsVsk>>

\* The DA attends its requests in order; one for a sector it does not have, or of
\* a type it does not know, is the last.
Da ==
    /\ da = "atendiendo" /\ aDa # <<>>
    /\ LET m == Head(aDa)
           responde(t, v) == deDa' = Append(deDa, [t |-> t, modo |-> "-", id |-> m.id, s |-> <<>>, v |-> v])
       IN CASE m.t \in {"GET", "GET1"} /\ Conjunto(m.s) \subseteq Sectores ->
                   /\ responde(m.t, [i \in DOMAIN m.s |-> disco[m.s[i]]])
                   /\ UNCHANGED <<disco, da>>
            [] m.t = "PUT" /\ Conjunto(m.s) \subseteq Sectores ->
                   /\ disco' = [s \in Sectores |-> IF s = m.s[2] THEN m.v[2]
                                                   ELSE IF s = m.s[1] THEN m.v[1] ELSE disco[s]]
                   /\ responde("PUT", <<>>)
                   /\ UNCHANGED da
            [] m.t = "CHS" -> responde("CHS", <<>>) /\ UNCHANGED <<disco, da>>
            [] OTHER -> da' = "perdida" /\ UNCHANGED <<disco, deDa>>
    /\ aDa' = IF da' = "perdida" THEN <<>> ELSE Tail(aDa)
    /\ UNCHANGED <<varsSfs, culpas, vsk, fds, oft, cab, aux, con, montado, ultId, basura,
                   cache, cant, cl, ped, escrito, solapado, ajena, cuenta>>

\* The operator starts the SFS again; its connection is another node of the list.
ReiniciaSfs ==
    /\ vsk = "atendiendo" /\ sfs = "muerto" /\ con # "si" /\ cuenta.r < MaxReinicios
    /\ SfsArranca
    /\ con' = "si"
    /\ aux' = IF aux = "SFS" THEN "suelto" ELSE aux
    /\ cuenta' = [cuenta EXCEPT !.r = @ + 1]
    /\ UNCHANGED <<culpas, vsk, fds, oft, cab, montado, ultId, basura, da, disco, aDa, deDa,
                   cache, cant, cl, ped, escrito, solapado, ajena>>

EnCurso == \/ \E c \in Sockets : cl[c].est # "fuera"
           \/ aSfs # <<>> \/ deSfs # <<>> \/ aDa # <<>> \/ deDa # <<>>

\* Or he starts all of it: LDAP and the DA keep what they had.
ReiniciaTodo ==
    /\ cuenta.r < MaxReinicios
    /\ SfsArranca
    /\ vsk' = "atendiendo" /\ fds' = <<>> /\ oft' = <<>> /\ cab' = 0 /\ aux' = "nulo"
    /\ con' = "si" /\ montado' = FALSE /\ ultId' = 0 /\ basura' = 0
    /\ da' = "atendiendo" /\ aDa' = <<>> /\ deDa' = <<>> /\ cant' = 0
    /\ cl' = [c \in Sockets |-> Fuera] /\ ped' = [c \in Sockets |-> NoLlamada]
    /\ culpas' = culpas \union (IF EnCurso THEN {"caida"} ELSE {})
    /\ cuenta' = [cuenta EXCEPT !.r = @ + 1]
    /\ UNCHANGED <<disco, cache, escrito, solapado, ajena>>

-----------------------------------------------------------------------------
(* The clients: each one waits for the answer to its call *)

Llama(c, r, m) ==
    /\ cl' = [cl EXCEPT ![c] = r]
    /\ ped' = [ped EXCEPT ![c] = m]

SinCliente == <<varsSfs, culpas, vsk, fds, oft, cab, aux, con, montado, ultId, basura, da,
                disco, aDa, deDa, cache, cant, ajena>>

Abre(c) ==
    /\ cl[c].est = "fuera" /\ cuenta.s < MaxSesiones
    /\ \E modo \in Modos, a \in Archivos \union {Nada} :
         LET id == cuenta.s + 1
         IN /\ modo = "L" <=> a = Nada
            /\ Llama(c, [Fuera EXCEPT !.est = IF modo = "L" THEN "listando" ELSE "abriendo",
                                     !.id = id, !.modo = modo, !.a = a],
                     Llamada(IF modo = "L" THEN "LIST" ELSE "OPEN", id, [modo |-> modo, a |-> a]))
            /\ escrito' = IF modo \in {"W", "D"} THEN [escrito EXCEPT ![a] = Incierto] ELSE escrito
    /\ cuenta' = [cuenta EXCEPT !.s = @ + 1]
    /\ solapado' = (solapado \/ EnCurso)
    /\ UNCHANGED SinCliente

\* The DescriptorID of a call of a session that is open: the DLL of the FTP server
\* draws a new one for each.
IdsDe(c) == {IF i = "open" THEN cl[c].id ELSE 0 : i \in Ids}

Sigue(c, est, t, s) ==
    /\ \E id \in IdsDe(c) : Llama(c, [cl[c] EXCEPT !.est = est], Llamada(t, id, s))
    /\ UNCHANGED <<SinCliente, escrito, solapado, cuenta>>

Lee(c) == cl[c].est = "abierto" /\ cl[c].modo = "R" /\ Sigue(c, "leyendo", "READ", <<>>)

Escribe(c) ==
    /\ cl[c].est = "abierto" /\ cl[c].modo = "W" /\ cl[c].n < MaxBloques
    /\ Sigue(c, "escribiendo", "WRITE", Mitades(cl[c].id, cl[c].n + 1))

\* A reader closes at the end of the file; one whose "open" failed closes too.
Cierra(c) ==
    \/ /\ cl[c].est = "leido" \/ (cl[c].est = "abierto" /\ cl[c].modo \in {"W", "D"})
       /\ Sigue(c, "cerrando", "CLOSE", <<>>)
    \/ /\ cl[c].est = "fallido"
       /\ Sigue(c, "cerrando nada", "CLOSE", <<>>)

\* A client ends without closing.
Corta(c) ==
    /\ cl[c].est \notin {"fuera", "cortado"} /\ cuenta.k < MaxCortes
    /\ cl' = [cl EXCEPT ![c].est = "cortado"]
    /\ cuenta' = [cuenta EXCEPT !.k = @ + 1]
    /\ UNCHANGED <<SinCliente, ped, escrito, solapado>>

-----------------------------------------------------------------------------

Init ==
    /\ InitSfs
    /\ culpas = {}
    /\ vsk = "atendiendo" /\ fds = <<>> /\ oft = <<>> /\ cab = 0 /\ aux = "nulo" /\ con = "si"
    /\ montado = FALSE /\ ultId = 0 /\ basura = 0
    /\ da = "atendiendo" /\ disco = [s \in Sectores |-> Vacio] /\ aDa = <<>> /\ deDa = <<>>
    /\ cache = <<>> /\ cant = 0
    /\ cl = [c \in Sockets |-> Fuera] /\ ped = [c \in Sockets |-> NoLlamada]
    /\ escrito = [a \in Archivos |-> Incierto] /\ solapado = FALSE /\ ajena = FALSE
    /\ cuenta = [s |-> 0, k |-> 0, r |-> 0, o |-> 0]

VskAtiende ==
    \/ \E c \in Sockets : VskCliente(c)
    \/ VskSfs
    \/ VskDa

Next ==
    \/ VskAtiende
    \/ \E c \in Sockets : VskPierdeCliente(c)
    \/ VskPierdeSfs
    \/ Consola \/ FormatoChs \/ FormatoVuelta \/ FormatoSinSfs
    \/ Sfs \/ SfsTermina \/ Da
    \/ ReiniciaSfs \/ ReiniciaTodo
    \/ \E c \in Sockets : Abre(c) \/ Lee(c) \/ Escribe(c) \/ Cierra(c) \/ Corta(c)

Spec == Init /\ [][Next]_vars

\* select reports every socket that has something to read, and the loop attends
\* each one it reports; the SFS and the DA attend what they receive.
Justicia ==
    /\ \A c \in Sockets : WF_vars(VskCliente(c))
    /\ WF_vars(VskSfs) /\ WF_vars(VskDa) /\ WF_vars(Sfs) /\ WF_vars(Da)

SpecJusta == Spec /\ Justicia

-----------------------------------------------------------------------------
(* Properties *)

\* The type invariant of the composition: what the two lists, the queues and the
\* tables of the SFS hold, and that every link of a list leads to a node.
TypeOK ==
    /\ vsk \in {"atendiendo", "espera CHS", "espera formato", "buscando", "bloqueada",
                "desfasada", "muerta"}
    /\ sfs \in {"atendiendo", "muerto"} /\ da \in {"atendiendo", "perdida"}
    /\ aux \in {"nulo", "SFS", "DA", "suelto"} /\ con \in {"si", "rota", "no"}
    /\ \A k \in DOMAIN fds : /\ fds[k].sock \in Sockets /\ fds[k].id \in 1..MaxSesiones
                            /\ fds[k].oft \in 0..Len(oft) /\ fds[k].paso \in 0..3
                            /\ fds[k].pos <= fds[k].tot
    /\ cab \in 0..Len(oft) /\ \A n \in DOMAIN oft : oft[n].sgte \in 0..Len(oft)
    /\ Conjunto(libres) \subseteq Sectores \union {Otra}
    /\ \A a \in Archivos : Conjunto(archivos[a].sec) \subseteq Sectores \union {Otra}
    /\ disco \in [Sectores -> Seq(0..MaxSesiones + MaxBloques + 2)]
    /\ cant \in -1..MaxCache /\ Len(cache) <= MaxCache

\* An answer goes to the session that asked, though what joins the two is a list of
\* descriptors that outlive their sessions: it reaches a stranger only after a
\* client was cut, which leaves its descriptor to the next one of that socket,
\* after the console spoke with a client's DescriptorID or a format took another
\* answer for its own, or after a close deleted the descriptor of a session that
\* goes on.
RespuestaPropia ==
    ajena => cuenta.k > 0 \/ culpas \intersect {"consola", "descartada", "ajeno"} # {}

\* What a session reads up to the end of a file is, sector by sector and in order,
\* what the last session that wrote it left, if no two sessions were open at a
\* time and nothing failed: the pairs go to the end of a list that the SFS sends
\* backwards and the VSK turns round, through sectors that were freed and given again.
LoLeidoEsLoEscrito ==
    \A c \in Sockets :
        cl[c].est = "leido" /\ ~solapado /\ culpas = {} /\ escrito[cl[c].a] # Incierto
            => cl[c].leido = Contenido(escrito[cl[c].a])

\* A valid entry of the cache has what the DA has in that sector, while sessions do
\* not overlap and no entry was a victim: the cache outlives the VSK, and its
\* sectors change owner.
CacheFiel ==
    ~solapado /\ culpas \intersect {"victima", "consola"} = {}
        => \A n \in DOMAIN cache : cache[n].ok => cache[n].v = disco[cache[n].s]

\* Every call of a client alone is answered, while every process attends: an "open"
\* if the list of open files is empty, a read, a write, a close of a file.
EnOrden == /\ vsk = "atendiendo" /\ con = "si" /\ sfs = "atendiendo" /\ da = "atendiendo"
           /\ culpas = {}
SeContesta ==
    \A c \in Sockets :
        cl[c].est \in Esperando /\ (cl[c].est = "abriendo" => cab = 0)
            ~> cl[c].est \notin Esperando \/ ~EnOrden

\* What the comment of the case SYS_READ (vsk.c:364-365) says: the session that reads
\* did a sys_open, "por lo que su fd sigue estando".
SuFdSigueEstando ==
    \A c \in Sockets :
        cl[c].est \in {"abierto", "leyendo", "leido", "escribiendo"}
            => \E k \in DOMAIN fds : fds[k].sock = c /\ fds[k].id = cl[c].id
=============================================================================

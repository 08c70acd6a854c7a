--------------------------------- MODULE Sfs ---------------------------------
(***************************************************************************)
(* The SFS process (Linux/Sfs): a loop over one connection, the VSK's, that *)
(* keeps in LDAP the files of a device (DA) and its list of free sectors.  *)
(* A request is attended whole before the next one is read; what tells the *)
(* answers of the clients apart is the DescriptorID, which is copied from  *)
(* the request.                                                            *)
(*                                                                         *)
(* A handler is a function from the state it finds to the set of states it *)
(* may leave (Estado): one per outcome of LDAP, and one per point where an *)
(* undefined access may end the process.                                   *)
(***************************************************************************)
EXTENDS Integers, Sequences, FiniteSets

CONSTANTS
    Archivos,           \* names of files
    NumSectores,        \* C * H * S of the DA
    Fallas,             \* operations of LDAP that may fail
    Mueren,             \* undefined accesses that end the process in this build
    Cortes,             \* handlers the operator may stop halfway
    Formateado0         \* the DA was formatted before

Sectores == 0..NumSectores - 1

TodaFalla == {"buscar", "libres", "quitar", "borrar", "crear", "tamanio", "agregar"}
TodaMuerte == {"nombreArchivo", "bfr", "sesion", "oft", "cache", "sigpipe"}

ASSUME SfsAssumption ==
    /\ NumSectores \in Nat \ {0}
    /\ Fallas \subseteq TodaFalla
    /\ Mueren \subseteq TodaMuerte
    /\ Cortes \subseteq {"eliminar", "dos"}
    /\ Formateado0 \in BOOLEAN

VARIABLES
    sfs,                \* "atendiendo" or "muerto"
    formateado,         \* LDAP has the entry of the DA
    libres,             \* its free sectors, in the order LDAP returns them
    archivos,           \* its files: sectors and size, or NoHay
    sesionSfs,          \* "viva", or "perdida" after an unbind
    ucBuf,              \* the two words at the start of main's ucBuf
    nombreInfo,         \* nombreArchivoinfo: the file of the last request that wrote it
    aSfs, deSfs,        \* requests sent to the SFS, answers it sent
    culpas              \* history: what happened that breaks the accounts of sectors

varsSfs == <<sfs, formateado, libres, archivos, sesionSfs, ucBuf, nombreInfo, aSfs, deSfs>>

-----------------------------------------------------------------------------
(* Data *)

Nada  == "nada"
Otra  == -1             \* a word that is no sector: text, or what the stack had
NoHay == [sec |-> <<>>, tam |-> -1]

\* A new file: "a" is its list of sectors and its size.
Nuevo == [sec |-> <<>>, tam |-> 0]

Pedido(t, modo, id, a, s) == [t |-> t, modo |-> modo, id |-> id, a |-> a, s |-> s]
Rta(t, m, s) == [t |-> t, modo |-> m.modo, id |-> m.id, s |-> s]

AlReves(s) == [k \in DOMAIN s |-> s[Len(s) + 1 - k]]
SinRepetir(s) == \A j, k \in DOMAIN s : s[j] = s[k] => j = k
Conjunto(s) == {s[k] : k \in DOMAIN s}

-----------------------------------------------------------------------------
(* What a handler works on *)

Estado == [formateado |-> formateado, libres |-> libres, archivos |-> archivos,
           sesion |-> sesionSfs, ucBuf |-> ucBuf, nombre |-> nombreInfo,
           lista |-> <<>>, rta |-> <<>>, culpas |-> culpas, fin |-> "sigue"]

Muere(e) == [e EXCEPT !.fin = "muere"]
Culpa(e, c) == [e EXCEPT !.culpas = @ \union {c}]
Responde(e, t, m, s) == [e EXCEPT !.rta = Append(@, Rta(t, m, s))]
Hay(e, a) == a \in Archivos /\ e.archivos[a] # NoHay

\* An operation of LDAP: it succeeds if the session lives and the directory
\* accepts it.  A session that was unbound is freed memory.
Ldap(e, op, acepta, bien, mal) ==
    UNION {IF e.sesion = "viva" /\ acepta THEN bien ELSE mal,
           IF op \in Fallas THEN mal ELSE {},
           IF e.sesion = "perdida" /\ "sesion" \in Mueren THEN {Muere(e)} ELSE {}}

\* ldap_unbind_s in the middle of the life of the process.
Desligar(e) == [Culpa(e, "sesion") EXCEPT !.sesion = "perdida"]

\* The access that a build may or may not survive.
Indefinido(e, acceso) == {e} \union (IF acceso \in Mueren THEN {Muere(e)} ELSE {})

\* The operator stops the process between two operations.
Corte(e, manejador) ==
    IF manejador \in Cortes THEN {Muere(Culpa(e, "corte"))} ELSE {}

-----------------------------------------------------------------------------
(* The handlers *)

\* ldapQuitarDosSectoresDA: the list of free sectors is replaced; LDAP refuses
\* a value that is twice, and then the session is closed.
QuitarDosSectoresDA(e, lista) ==
    Ldap(e, "quitar", e.formateado /\ SinRepetir(lista),
         {[e EXCEPT !.libres = lista]}, {Desligar(Culpa(e, "quitar"))})

\* exsteArchivo returns 1 for the file and 1 for an error.
ExisteArchivo(e, m) ==
    LET x == [e EXCEPT !.nombre = m.a]
    IN Ldap(x, "buscar", TRUE,
            {Responde(x, IF Hay(x, m.a) THEN "SI" ELSE "NO", m, <<>>)},
            {Responde(x, "SI", m, <<>>)})

\* cargarInfoArchivo: miatoi("a") is 0, and the list is built as a stack.
SectoresInfo(f) == IF f.sec = <<>> THEN <<0>> ELSE AlReves(f.sec)

\* The name of the request goes to a pointer that points nowhere; what is
\* looked for is the name that an earlier request left.  A file that is not
\* there is answered with a text without a header.
InfoArchivo(e, m) ==
    UNION {IF x.fin = "muere" THEN {x}
           ELSE Ldap(x, "buscar", Hay(x, x.nombre),
                     {Responde(x, "INFO", m, SectoresInfo(x.archivos[x.nombre]))},
                     {Responde(x, "TEXTO", m, <<>>)}) : x \in Indefinido(e, "nombreArchivo")}

\* ldapBuscarDAsectoresLibresDEL: if the search fails the list is empty.
SectoresLibresDEL(e) ==
    Ldap(e, "libres", TRUE, {[e EXCEPT !.lista = e.libres]},
         {[Culpa(e, "libres") EXCEPT !.lista = <<>>]})

\* cargarSectoresLiberados: the sectors of the file go before the free ones.
SectoresLiberados(e, a) ==
    (IF e.archivos[a].sec = <<>> THEN <<0>> ELSE e.archivos[a].sec) \o e.lista

\* A mutant: the sectors of the file are not freed.
EliminaArchivoSinLiberar(e, m) ==
    LET x == [e EXCEPT !.nombre = m.a]
    IN Ldap(x, "buscar", Hay(x, m.a),
            {Responde([x EXCEPT !.archivos[m.a] = NoHay], "ELIMINADO", m, <<>>)}, {Muere(x)})

\* The sectors are freed before the file is deleted; a file that is not found
\* is a null pointer.  The answer leaves before free(bfr), a pointer that is
\* not set or was freed.
EliminaArchivo(e, m) ==
    LET x == [e EXCEPT !.nombre = m.a]
        y0 == IF x.archivos[m.a].sec = <<>> THEN Culpa(x, "vacio") ELSE x
        liberado == UNION {IF y.fin = "muere" THEN {y}
                           ELSE QuitarDosSectoresDA(y, SectoresLiberados(y, m.a)) :
                             y \in SectoresLibresDEL(y0)}
        borrado(y) == Ldap(y, "borrar", TRUE,
                           {Responde([y EXCEPT !.archivos[m.a] = NoHay], "ELIMINADO", m, <<>>)},
                           {Responde(Culpa(y, "borrar"), "ERROR SOLO", m, <<>>)})
    IN Ldap(x, "buscar", Hay(x, m.a),
            UNION {IF y.fin = "muere" THEN {y} ELSE Corte(y, "eliminar") \union
                   UNION {IF z.fin = "muere" THEN {z} ELSE Indefinido(z, "bfr") :
                            z \in borrado(y)} : y \in liberado},
            {Muere(x)})

\* LDAP refuses a name that is there and a DA that is not, and then the session
\* is closed; the answer has the length of a text that is not sent.
CrearArchivo(e, m) ==
    Ldap(e, "crear", e.formateado /\ ~Hay(e, m.a),
         {Responde([e EXCEPT !.archivos[m.a] = Nuevo], "CREADO", m, <<>>)},
         {Responde(Desligar(e), "ERROR SOLO", m, <<>>)})

ActualizarTamanio(e, m) ==
    Ldap(e, "tamanio", Hay(e, m.a),
         {Responde([e EXCEPT !.archivos[m.a].tam = m.s[1]], "TAMANIO", m, <<>>)},
         {Responde(e, "ERROR SOLO", m, <<>>)})

\* A mutant: the two sectors stay in the list of free ones.
DarDosSectoresSinQuitar(e, m) ==
    LET w == <<e.libres[1], IF Len(e.libres) > 1 THEN e.libres[2] ELSE e.ucBuf[2]>>
    IN {Responde([e EXCEPT !.ucBuf = w], "DOS", m, w)}

\* The first two free sectors are sent and then taken from the list; if there
\* is one, the second word is what ucBuf had.
DarDosSectores(e, m) ==
    LET w == <<e.libres[1], IF Len(e.libres) > 1 THEN e.libres[2] ELSE e.ucBuf[2]>>
        x == Responde([e EXCEPT !.ucBuf = w], "DOS", m, w)
        y == IF Len(e.libres) = 1 THEN Culpa(x, "impar") ELSE x
    IN Corte(y, "dos") \union QuitarDosSectoresDA(y, SubSeq(e.libres, 3, Len(e.libres)))

\* A search that fails returns 1, which is not 0 sectors: the words of ucBuf are
\* sent and the list is replaced by an empty one.
DosSectoresLibres(e, m) ==
    Ldap(e, "libres", TRUE,
         IF e.formateado /\ e.libres # <<>> THEN DarDosSectores(e, m)
         ELSE {Responde([e EXCEPT !.ucBuf = <<Otra, Otra>>], "ERROR", m, <<>>)},
         QuitarDosSectoresDA(Responde(Culpa(e, "libres"), "DOS", m, e.ucBuf), <<>>))

\* ucBuf is used for the sectors, then for the text of the list: a short text
\* leaves the second word as it was.
AgregarSectores(e, m) ==
    LET junto == e.archivos[m.a].sec \o m.s
        corto == [e EXCEPT !.ucBuf = <<Otra, m.s[2]>>]
        agregado == [e EXCEPT !.archivos[m.a].sec = junto,
                              !.ucBuf = <<Otra, IF Len(junto) = 2 THEN m.s[2] ELSE Otra>>]
    IN Ldap(e, "buscar", Hay(e, m.a),
            Ldap(e, "agregar", TRUE, {agregado},
                 {Culpa([agregado EXCEPT !.archivos = e.archivos], "agregar")}),
            {Culpa(corto, "sin archivo")})

\* A search that fails gives an empty list.
ListarDirectorio(e, m) ==
    LET r == Responde(e, "LISTADO", m, <<>>) IN Ldap(e, "buscar", TRUE, {r}, {r})

\* ldapFormatearDA: an entry that is there is refused and the session is closed;
\* the answer is the same.  m.s is the product of three words of the DA.
Formatear(e, m) ==
    LET x == [e EXCEPT !.ucBuf = <<Otra, Otra>>]
        todos == [k \in 1..m.s[1] |-> k - 1]
        y == [x EXCEPT !.formateado = TRUE, !.libres = todos]
    IN IF m.s[1] = Otra THEN {Muere(x), Responde(Desligar(x), "FORMATEADO", m, <<>>)}
       ELSE Ldap(x, "crear", ~x.formateado, {Responde(y, "FORMATEADO", m, <<>>)},
                 {Responde(Desligar(x), "FORMATEADO", m, <<>>)})

\* The switch of the loop.
Atender(e, m) ==
    CASE m.t = "EXISTE" -> ExisteArchivo(e, m)
      [] m.t = "INFO" -> InfoArchivo(e, m)
      [] m.t = "ELIMINA" -> EliminaArchivo(e, m)
      [] m.t = "CREAR" -> CrearArchivo(e, m)
      [] m.t = "TAMANIO" -> ActualizarTamanio(e, m)
      [] m.t = "DOS" -> DosSectoresLibres(e, m)
      [] m.t = "AGREGAR" -> AgregarSectores(e, m)
      [] m.t = "LISTAR" -> ListarDirectorio(e, m)
      [] m.t = "FORMATEAR" -> Formatear(e, m)

-----------------------------------------------------------------------------
(* The process *)

InitSfs ==
    /\ sfs = "atendiendo"
    /\ formateado = Formateado0
    /\ libres = IF Formateado0 THEN [k \in 1..NumSectores |-> k - 1] ELSE <<>>
    /\ archivos = [a \in Archivos |-> NoHay]
    /\ sesionSfs = "viva"
    /\ ucBuf = <<Otra, Otra>>
    /\ nombreInfo = Nada
    /\ aSfs = <<>> /\ deSfs = <<>>

\* One request: what is sent before the process ends is sent.
SfsAtiende ==
    /\ sfs = "atendiendo"
    /\ aSfs # <<>>
    /\ \E e \in Atender(Estado, Head(aSfs)) :
         /\ formateado' = e.formateado /\ libres' = e.libres /\ archivos' = e.archivos
         /\ sesionSfs' = e.sesion /\ ucBuf' = e.ucBuf /\ nombreInfo' = e.nombre
         /\ deSfs' = deSfs \o e.rta
         /\ IF e.fin = "muere"
              THEN /\ sfs' = "muerto" /\ aSfs' = <<>>
                   /\ culpas' = e.culpas \union {"caida"}
              ELSE sfs' = sfs /\ aSfs' = Tail(aSfs) /\ culpas' = e.culpas

\* A new process: main up to its loop; LDAP keeps the directory.
SfsArranca ==
    /\ sfs' = "atendiendo" /\ sesionSfs' = "viva"
    /\ ucBuf' = <<Otra, Otra>> /\ nombreInfo' = Nada
    /\ aSfs' = <<>> /\ deSfs' = <<>>
    /\ UNCHANGED <<formateado, libres, archivos>>

-----------------------------------------------------------------------------
(* The accounts of the sectors *)

\* The places where a sector is: the list of free ones, the files, and the pairs
\* that travel between the answer that gave them and the request that adds them.
Libre(s) == {<<"libre", k>> : k \in {k \in DOMAIN libres : libres[k] = s}}

DeArchivo(s) ==
    UNION {{<<"archivo", a, k>> :
              k \in {k \in DOMAIN archivos[a].sec : archivos[a].sec[k] = s}} : a \in Archivos}

Dado(s) ==
    UNION {{<<"da", j, k>> : k \in {k \in DOMAIN deSfs[j].s : deSfs[j].s[k] = s}} :
             j \in {j \in DOMAIN deSfs : deSfs[j].t = "DOS"}}

PorAgregar(s) ==
    UNION {{<<"agrega", j, k>> : k \in {k \in DOMAIN aSfs[j].s : aSfs[j].s[k] = s}} :
             j \in {j \in DOMAIN aSfs : aSfs[j].t = "AGREGAR"}}

Lugares(s) == Libre(s) \union DeArchivo(s) \union Dado(s) \union PorAgregar(s)

\* Whatever clients open, write, delete and abandon at a time, and whatever LDAP
\* does not find, create or change in a file, a sector has one owner.  What breaks
\* it: LDAP fails to give or replace the list of free sectors or to delete a file,
\* the process is stopped within a handler, one sector was free when two were
\* asked for, or an empty file was deleted, which frees sector 0.
QuitanDuenio == {"vacio", "impar", "corte", "libres", "quitar", "borrar"}

UnDuenio ==
    culpas \intersect QuitanDuenio = {} => \A s \in Sectores : Cardinality(Lugares(s)) <= 1

\* And no sector is lost, if besides LDAP adds the pairs, no process ends with a
\* pair on its way, no file is deleted under a client that writes it and no answer
\* is thrown away.
NadaSePierde ==
    /\ formateado
    /\ culpas \intersect (QuitanDuenio \union {"agregar", "caida", "sin archivo", "descartada"}) = {}
    => \A s \in Sectores : Lugares(s) # {}
=============================================================================

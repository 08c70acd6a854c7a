------------------------------ MODULE FtpHilos ------------------------------
(***************************************************************************)
(* One session of the FTP server (Windows/FTPServer.c): hiloComando attends*)
(* the control connection of the client and hands the orders that need data*)
(* to hiloDatos through a local socket.  One binary semaphore, the same for*)
(* both threads and both directions, orders the replies 150 and 226 around *)
(* a transfer.  main creates a pair of threads with sockets and semaphore  *)
(* of its own for each client, so one session is modelled.                 *)
(*                                                                         *)
(* An order is known by its place n in hist, the history of what the client*)
(* sent, where what happens to it is written down.                         *)
(***************************************************************************)
EXTENDS Naturals, Sequences, FiniteSets

CONSTANTS
    Carpetas,       \* directories the client may change to
    Archivos,       \* names of files
    Ordenes,        \* kinds of order this client sends
    Paciente,       \* the client waits for the end of an order to send another
    FallaVsk,       \* the VSK may refuse to open a file or to list
    TamCabecera,    \* units of a header in the local socket
    LargoTexto,     \* units of a name or of a size in text
    Capacidad,      \* units the answers in the local socket may take
    MaxOrdenes      \* bound: orders of the session

Transferencias == {"LS", "RETR", "STOR"}
Fichas == {"RETR", "STOR"}
ConArchivo == {"SIZE", "RETR", "STOR", "DELE"}
Clases == Transferencias \union ConArchivo
             \union {"CD", "PASV", "PWD", "HELP", "SIMPLE"}

\* What a char array that holds a path may have besides a directory: nothing,
\* the root that PWD puts, the first name of a listing, the stack.
Vacio == "vacio"
Raiz == "raiz"
Listado == "listado"
SinValor == "sin valor"
Rutas == Carpetas \union {Vacio, Raiz, Listado, SinValor}

ASSUME SesionAssumption ==
    /\ Ordenes \subseteq Clases
    /\ Paciente \in BOOLEAN /\ FallaVsk \in BOOLEAN
    /\ LargoTexto \in Nat \ {0}
    /\ TamCabecera \in Nat \ {0} /\ TamCabecera <= Capacidad
    /\ Capacidad \in Nat /\ MaxOrdenes \in Nat
    /\ Carpetas \intersect {Vacio, Raiz, Listado, SinValor} = {}

VARIABLES
    hist,               \* the orders the client sent and what came of them
    entrada,            \* control connection: orders not received yet
    conectado,          \* the client has its control connection open
    abiertas,           \* orders the client opened a data connection for
    pendientes,         \* data connections not accepted yet, in order
    pcC, orden,         \* hiloComando: where it is and the order it attends
    directorioActual, largo,
    pcD, pedido,        \* hiloDatos: where it is and the order it attends
    listos, iBandera, socketClienteFTP,
    Directorio, directorioAux, listaArchivos,
    semaforo,           \* sem_mensajes
    aDatos,             \* local socket, orders
    aComando,           \* local socket, answers
    vsk,                \* files the VSK has: <<directory, name>>
    caido               \* the process ended on an access violation

cliente == <<hist, entrada, conectado, abiertas>>
comando == <<pcC, orden, directorioActual, largo>>
conexion == <<pendientes, listos, iBandera, socketClienteFTP>>
carpeta == <<Directorio, directorioAux, listaArchivos>>
canales == <<aDatos, aComando>>
vars == <<cliente, comando, pcD, pedido, conexion, carpeta, semaforo,
          canales, vsk, caido>>

-----------------------------------------------------------------------------
\* What history says of an order: its answers, the connection that served it,
\* the directory current when it was attended and the one used, what was done.
Nueva(c, a) == [cmd |-> c, arg |-> a, resp |-> {}, con |-> 0, base |-> SinValor,
                ruta |-> SinValor, hecho |-> FALSE]

Responder(n, codigos) == [hist EXCEPT ![n].resp = @ \union codigos]
Hecho(n) == [hist EXCEPT ![n].hecho = TRUE]
Cmd(n) == hist[n].cmd

\* The reply that tells the client that an order ended.
Final == [c \in Clases |->
            CASE c \in Fichas \union {"DELE"} -> "226"
              [] c = "SIZE" -> "213"
              [] c = "CD" -> "250"
              [] c = "PWD" -> "257"
              [] OTHER -> "200"]

Terminada(n) ==
    CASE Cmd(n) = "LS" -> hist[n].hecho
      [] Cmd(n) = "HELP" -> TRUE
      [] OTHER -> Final[Cmd(n)] \in hist[n].resp

Unidad == [inicio : BOOLEAN, largo : Nat]
Cuerpo(l) == [i \in 1..l |-> [inicio |-> FALSE, largo |-> 0]]
Cabecera(l) == <<[inicio |-> TRUE, largo |-> l]>> \o Cuerpo(TamCabecera - 1)

\* enviarAlgo blocks while what it sends does not fit; recibirAlgo, until all it
\* asked for has come.
EnviarAlgo(s) ==
    /\ Len(aComando) + Len(s) <= Capacidad
    /\ aComando' = aComando \o s

RecibirAlgo(l) ==
    /\ Len(aComando) >= l
    /\ aComando' = SubSeq(aComando, l + 1, Len(aComando))

\* A header read where none begins has any length: short, or one that never
\* comes whole.
LargosLeidos ==
    IF Head(aComando).inicio THEN {Head(aComando).largo}
    ELSE 0..TamCabecera \union {Capacidad + 1}

\* Variant: the semaphore is created with its signal already given.
SemaforoDado == 1

SemaforoInicial == 0

\* ReleaseSemaphore fails, and gives nothing, when the count is at its maximum.
Soltar == semaforo' = 1
Esperar == semaforo = 1 /\ semaforo' = 0

Init ==
    /\ hist = <<>> /\ entrada = <<>> /\ conectado = TRUE /\ abiertas = {}
    /\ pendientes = <<>> /\ listos = {} /\ iBandera = 0 /\ socketClienteFTP = 0
    /\ pcC = "select" /\ orden = 0 /\ directorioActual = Vacio /\ largo = 0
    /\ pcD = "select" /\ pedido = 0
    /\ Directorio = Vacio /\ directorioAux = SinValor /\ listaArchivos = {}
    /\ semaforo = SemaforoInicial
    /\ aDatos = <<>> /\ aComando = <<>>
    /\ vsk \in SUBSET (Carpetas \X Archivos)
    /\ caido = FALSE

-----------------------------------------------------------------------------
(* The client.                                                             *)

PuertoSabido == \E n \in DOMAIN hist : Cmd(n) = "PASV" /\ Terminada(n)

Libre == \A n \in DOMAIN hist : n = Len(hist) => Terminada(n)

Enviar(c, a) ==
    /\ conectado
    /\ Len(hist) < MaxOrdenes
    /\ Paciente => Libre /\ (c \in Transferencias => PuertoSabido)
    /\ Len(hist) + 1 \in abiertas => c \in Transferencias
    /\ hist' = Append(hist, Nueva(c, a))
    /\ entrada' = Append(entrada, Len(hist) + 1)
    /\ UNCHANGED <<conectado, abiertas, comando, pcD, pedido, conexion,
                   carpeta, semaforo, canales, vsk, caido>>

EnviarOrden ==
    \E c \in Ordenes :
        \E a \in CASE c = "CD" -> Carpetas
                   [] c \in ConArchivo -> Archivos
                   [] OTHER -> {SinValor} : Enviar(c, a)

\* The data connection of an order is opened before sending it or after.
ConectarDatos(n) ==
    /\ conectado /\ PuertoSabido
    /\ n \notin abiertas
    /\ \/ n \in DOMAIN hist /\ Cmd(n) \in Transferencias
       \/ /\ n = Len(hist) + 1 /\ n <= MaxOrdenes
          /\ Ordenes \intersect Transferencias # {}
          /\ Paciente => Libre
    /\ abiertas' = abiertas \union {n}
    /\ pendientes' = Append(pendientes, n)
    /\ UNCHANGED <<hist, entrada, conectado, comando, pcD, pedido, listos,
                   iBandera, socketClienteFTP, carpeta, semaforo, canales,
                   vsk, caido>>

Cortar ==
    /\ ~Paciente /\ conectado
    /\ conectado' = FALSE
    /\ UNCHANGED <<hist, entrada, abiertas, comando, pcD, pedido, conexion,
                   carpeta, semaforo, canales, vsk, caido>>

-----------------------------------------------------------------------------
(* hiloComando.                                                            *)

\* recv takes all that came; the parser looks at the first line only.
PrimeraOrden == Head(entrada)

Recibe(clases) ==
    /\ pcC = "select" /\ entrada # <<>>
    /\ Cmd(PrimeraOrden) \in clases
    /\ orden' = PrimeraOrden
    /\ entrada' = <<>>

AlHiloDatos == aDatos' = Append(aDatos, PrimeraOrden)

\* Orders with an immediate reply, or with none (HELP), and no other effect.
RecibeSimple ==
    /\ Recibe({"SIMPLE", "PASV", "HELP"})
    /\ hist' = Responder(PrimeraOrden,
                 IF Cmd(PrimeraOrden) = "HELP" THEN {} ELSE {"200"})
    /\ UNCHANGED <<conectado, abiertas, pcC, directorioActual, largo, pcD, pedido,
                   conexion, carpeta, semaforo, canales, vsk, caido>>

RecibePwd ==
    /\ Recibe({"PWD"})
    /\ directorioActual' =
         IF directorioActual = Vacio THEN Raiz ELSE directorioActual
    /\ hist' = Responder(PrimeraOrden, {"257"})
    /\ UNCHANGED <<conectado, abiertas, pcC, largo, pcD, pedido, conexion,
                   carpeta, semaforo, canales, vsk, caido>>

\* The order to hiloDatos carries directorioActual, kept here as its base.
RecibeLs ==
    /\ Recibe({"LS"}) /\ AlHiloDatos
    /\ hist' = [hist EXCEPT ![PrimeraOrden].base = directorioActual]
    /\ UNCHANGED <<conectado, abiertas, pcC, directorioActual, largo, pcD, pedido,
                   conexion, carpeta, semaforo, aComando, vsk, caido>>

\* The reply does not wait for hiloDatos, whose answer nobody reads.
RecibeCd ==
    /\ Recibe({"CD"}) /\ AlHiloDatos
    /\ directorioActual' = hist[PrimeraOrden].arg
    /\ hist' = Responder(PrimeraOrden, {"250"})
    /\ UNCHANGED <<conectado, abiertas, pcC, largo, pcD, pedido, conexion,
                   carpeta, semaforo, aComando, vsk, caido>>

EsperaDe == [c \in ConArchivo |->
               CASE c = "SIZE" -> "sizeRecv"
                 [] c = "DELE" -> "deleCabecera"
                 [] OTHER -> "espera150"]

\* SIZE, RETR, STOR and DELE: the order goes to hiloDatos and hiloComando
\* waits, on the socket or on the semaphore.
RecibeConArchivo ==
    /\ Recibe(ConArchivo) /\ AlHiloDatos
    /\ pcC' = EsperaDe[Cmd(PrimeraOrden)]
    /\ hist' = [hist EXCEPT ![PrimeraOrden].base = directorioActual]
    /\ UNCHANGED <<conectado, abiertas, directorioActual, largo, pcD, pedido,
                   conexion, carpeta, semaforo, aComando, vsk, caido>>

RecibeFin ==
    /\ pcC = "select" /\ entrada = <<>> /\ ~conectado
    /\ pcC' = "sin cliente"
    /\ UNCHANGED <<cliente, orden, directorioActual, largo, pcD, pedido, conexion,
                   carpeta, semaforo, canales, vsk, caido>>

\* SIZE: one recv of whatever there is, then a header, then its payload.
SizeRecv ==
    /\ pcC = "sizeRecv" /\ aComando # <<>>
    /\ aComando' = <<>>
    /\ pcC' = "sizeCabecera"
    /\ UNCHANGED <<cliente, orden, directorioActual, largo, pcD, pedido, conexion,
                   carpeta, semaforo, aDatos, vsk, caido>>

RecibirH(actual) ==
    /\ pcC = actual
    /\ RecibirAlgo(TamCabecera)
    /\ largo' \in LargosLeidos

SizeCabecera ==
    /\ RecibirH("sizeCabecera")
    /\ pcC' = "sizeCuerpo"
    /\ UNCHANGED <<cliente, orden, directorioActual, pcD, pedido, conexion,
                   carpeta, semaforo, aDatos, vsk, caido>>

SizeCuerpo ==
    /\ pcC = "sizeCuerpo" /\ RecibirAlgo(largo)
    /\ hist' = Responder(orden, {"213"})
    /\ pcC' = "select"
    /\ UNCHANGED <<entrada, conectado, abiertas, orden, directorioActual, largo,
                   pcD, pedido, conexion, carpeta, semaforo, aDatos, vsk, caido>>

\* Variant: DELE is confirmed without waiting for the answer.
DeleSinEsperar ==
    /\ pcC = "deleCabecera"
    /\ hist' = Responder(orden, {"226"})
    /\ pcC' = "select"
    /\ UNCHANGED <<entrada, conectado, abiertas, orden, directorioActual, largo,
                   pcD, pedido, conexion, carpeta, semaforo, canales, vsk, caido>>

DeleCabecera ==
    /\ RecibirH("deleCabecera")
    /\ hist' = Responder(orden, {"226"})
    /\ pcC' = "select"
    /\ UNCHANGED <<entrada, conectado, abiertas, orden, directorioActual, pcD,
                   pedido, conexion, carpeta, semaforo, aDatos, vsk, caido>>

\* RETR and STOR: wait, 150, release, wait, 226.
Espera150 ==
    /\ pcC = "espera150" /\ Esperar
    /\ hist' = Responder(orden, {"150"})
    /\ pcC' = "suelta"
    /\ UNCHANGED <<entrada, conectado, abiertas, orden, directorioActual, largo,
                   pcD, pedido, conexion, carpeta, canales, vsk, caido>>

SueltaComando ==
    /\ pcC = "suelta" /\ Soltar
    /\ pcC' = "espera226"
    /\ UNCHANGED <<cliente, orden, directorioActual, largo, pcD, pedido, conexion,
                   carpeta, canales, vsk, caido>>

\* Variants: the second wait is left out, or its signal is not taken.
Confirma226 ==
    /\ hist' = Responder(orden, {"226"})
    /\ pcC' = "select"
    /\ UNCHANGED <<entrada, conectado, abiertas, orden, directorioActual, largo, pcD,
                   pedido, conexion, carpeta, semaforo, canales, vsk, caido>>
Confirma226SinEsperar == pcC = "espera226" /\ Confirma226
Confirma226SinTomar == pcC = "espera226" /\ semaforo = 1 /\ Confirma226

Espera226 ==
    /\ pcC = "espera226" /\ Esperar
    /\ hist' = Responder(orden, {"226"})
    /\ pcC' = "select"
    /\ UNCHANGED <<entrada, conectado, abiertas, orden, directorioActual, largo,
                   pcD, pedido, conexion, carpeta, canales, vsk, caido>>

-----------------------------------------------------------------------------
(* hiloDatos.                                                              *)

\* select says what is ready; the connection is accepted before the order is
\* read, and what comes later waits for the next select.
HayListos ==
    {f \in {"conexion", "orden"} :
        IF f = "orden" THEN aDatos # <<>> ELSE pendientes # <<>>}

Select ==
    /\ pcD = "select" /\ listos = {} /\ HayListos # {}
    /\ listos' = HayListos
    /\ UNCHANGED <<cliente, comando, pcD, pedido, pendientes, iBandera,
                   socketClienteFTP, carpeta, semaforo, canales, vsk, caido>>

\* Variant: iBandera counts the connections.
AceptarContando ==
    /\ socketClienteFTP' = Head(pendientes)
    /\ pendientes' = Tail(pendientes)
    /\ iBandera' = iBandera + 1

Aceptar ==
    /\ socketClienteFTP' = Head(pendientes)
    /\ pendientes' = Tail(pendientes)
    /\ iBandera' = 1

AceptaPorSelect ==
    /\ pcD = "select" /\ "conexion" \in listos
    /\ Aceptar
    /\ listos' = listos \ {"conexion"}
    /\ UNCHANGED <<cliente, comando, pcD, pedido, carpeta, semaforo, canales,
                   vsk, caido>>

SigueA == [c \in Clases |-> IF c = "LS" THEN "lista" ELSE "suelta1"]

LeeOrden(clases) ==
    /\ pcD = "select" /\ listos = {"orden"}
    /\ Cmd(Head(aDatos)) \in clases
    /\ pedido' = Head(aDatos)
    /\ aDatos' = Tail(aDatos)
    /\ listos' = {}

\* Variant: the order is attended whether there is a connection or not.
LeeSinAceptar ==
    /\ LeeOrden(Transferencias)
    /\ pcD' = SigueA[Cmd(Head(aDatos))]
    /\ hist' = [hist EXCEPT ![Head(aDatos)].con =
                  IF iBandera = 0 THEN 0 ELSE socketClienteFTP]
    /\ UNCHANGED <<entrada, conectado, abiertas, comando, pendientes, iBandera,
                   socketClienteFTP, carpeta, semaforo, aComando, vsk, caido>>

\* LIST, RETR and STOR use the connection accepted before, or accept one.
LeeTransferencia ==
    /\ LeeOrden(Transferencias)
    /\ IF iBandera = 0
       THEN pcD' = "acepta" /\ hist' = hist
       ELSE /\ pcD' = SigueA[Cmd(Head(aDatos))]
            /\ hist' = [hist EXCEPT ![Head(aDatos)].con = socketClienteFTP]
    /\ UNCHANGED <<entrada, conectado, abiertas, comando, pendientes, iBandera,
                   socketClienteFTP, carpeta, semaforo, aComando, vsk, caido>>

AceptaConOrden ==
    /\ pcD = "acepta" /\ pendientes # <<>>
    /\ Aceptar
    /\ pcD' = SigueA[Cmd(pedido)]
    /\ hist' = [hist EXCEPT ![pedido].con = Head(pendientes)]
    /\ UNCHANGED <<entrada, conectado, abiertas, comando, pedido, listos,
                   carpeta, semaforo, canales, vsk, caido>>

\* What the VSK answers to sys_list on a path; the root lists directories.
Contenido(ruta) == {a \in Archivos : <<ruta, a>> \in vsk}

\* The listing is written over the path it was asked for and then cut at its
\* first separator; without an answer the path itself is taken for a listing,
\* and one with no separator is read past its end.
CrearLista(ruta) ==
    \/ /\ listaArchivos' = Contenido(ruta)
       /\ Directorio' = IF listaArchivos' = {} /\ ruta # Raiz THEN Vacio ELSE Listado
       /\ UNCHANGED caido
    \/ /\ FallaVsk
       /\ listaArchivos' = {}
       /\ Directorio' = ruta
       /\ caido' \in IF ruta \in {Vacio, Raiz} THEN {FALSE} ELSE BOOLEAN

Lista ==
    /\ pcD = "lista"
    /\ directorioAux' = hist[pedido].base
    /\ CrearLista(hist[pedido].base)
    /\ hist' = Hecho(pedido)
    /\ iBandera' = 0
    /\ pcD' = "select"
    /\ UNCHANGED <<entrada, conectado, abiertas, comando, pedido, pendientes,
                   listos, socketClienteFTP, semaforo, canales, vsk>>

\* buscaArchivo returns NULL for a name the last listing did not have, and the
\* length of its size is taken all the same.
BuscaArchivo(a) == a \in listaArchivos

LeeSize ==
    /\ LeeOrden({"SIZE"})
    /\ IF BuscaArchivo(hist[Head(aDatos)].arg)
       THEN /\ EnviarAlgo(Cabecera(LargoTexto))
            /\ pcD' = "sizeCuerpo"
            /\ UNCHANGED caido
       ELSE caido' = TRUE /\ UNCHANGED <<aComando, pcD>>
    /\ UNCHANGED <<cliente, comando, pendientes, iBandera, socketClienteFTP,
                   carpeta, semaforo, vsk>>

MandaTamanio ==
    /\ pcD = "sizeCuerpo" /\ EnviarAlgo(Cuerpo(LargoTexto))
    /\ hist' = Hecho(pedido)
    /\ pcD' = "select"
    /\ UNCHANGED <<entrada, conectado, abiertas, comando, pedido, conexion,
                   carpeta, semaforo, aDatos, vsk, caido>>

\* Variant: DELE is not answered.
LeeDeleSinRespuesta ==
    /\ LeeOrden({"DELE"})
    /\ hist' = Hecho(Head(aDatos))
    /\ UNCHANGED <<entrada, conectado, abiertas, comando, pcD, pendientes, iBandera,
                   socketClienteFTP, carpeta, semaforo, aComando, vsk, caido>>

\* DeleteFileA removes a file of this machine: the VSK is told nothing.
LeeDele ==
    /\ LeeOrden({"DELE"})
    /\ EnviarAlgo(Cabecera(LargoTexto))
    /\ hist' = [hist EXCEPT ![Head(aDatos)].ruta = Directorio,
                            ![Head(aDatos)].hecho = TRUE]
    /\ UNCHANGED <<entrada, conectado, abiertas, comando, pcD, pendientes,
                   iBandera, socketClienteFTP, carpeta, semaforo, vsk, caido>>

\* Variant: CD is answered and the directory kept.
LeeCdSinCopiar ==
    /\ LeeOrden({"CD"})
    /\ EnviarAlgo(Cabecera(LargoTexto))
    /\ hist' = Hecho(Head(aDatos))
    /\ UNCHANGED <<entrada, conectado, abiertas, comando, pcD, pendientes, iBandera,
                   socketClienteFTP, carpeta, semaforo, vsk, caido>>

LeeCd ==
    /\ LeeOrden({"CD"})
    /\ Directorio' = hist[Head(aDatos)].arg
    /\ EnviarAlgo(Cabecera(LargoTexto))
    /\ hist' = Hecho(Head(aDatos))
    /\ UNCHANGED <<entrada, conectado, abiertas, comando, pcD, pendientes,
                   iBandera, socketClienteFTP, directorioAux, listaArchivos,
                   semaforo, vsk, caido>>

SueltaPrimera ==
    /\ pcD = "suelta1" /\ Soltar
    /\ pcD' = "espera1"
    /\ UNCHANGED <<cliente, comando, pedido, conexion, carpeta, canales, vsk, caido>>

EsperaDatos ==
    /\ pcD = "espera1" /\ Esperar
    /\ pcD' = "transfiere"
    /\ UNCHANGED <<cliente, comando, pedido, conexion, carpeta, canales, vsk, caido>>

\* vsk_remoteOpenFile: the VSK opens a file, or refuses it.
AbrirArchivo(dir) ==
    IF FallaVsk \/ dir \notin Carpetas THEN BOOLEAN ELSE {TRUE}

\* envioArchivoDLL compares a size of its own, always 0, and the file it opens
\* is closed unread.
EnvioArchivo == UNCHANGED vsk

\* RETR: the name and the connection for hiloDeDescarga are written through an
\* uninitialised pointer: the process ends, or the transfer is of nothing.
Descarga ==
    /\ pcD = "transfiere" /\ Cmd(pedido) = "RETR"
    /\ caido' \in BOOLEAN
    /\ EnvioArchivo
    /\ hist' = [hist EXCEPT ![pedido].ruta = directorioAux, ![pedido].hecho = TRUE]
    /\ pcD' = "suelta2"
    /\ UNCHANGED <<entrada, conectado, abiertas, comando, pedido, conexion,
                   carpeta, semaforo, canales>>

\* subeArchivoDLL receives once, whether the file is longer or not, and its
\* failure is not looked at.
SubirArchivo(dir, abierto) ==
    /\ vsk' = vsk \union (IF abierto THEN {<<dir, hist[pedido].arg>>} ELSE {})
    /\ hist' = [hist EXCEPT ![pedido].ruta = dir, ![pedido].hecho = TRUE]

Sube ==
    /\ pcD = "transfiere" /\ Cmd(pedido) = "STOR"
    /\ \E abierto \in AbrirArchivo(Directorio) : SubirArchivo(Directorio, abierto)
    /\ pcD' = "suelta2"
    /\ UNCHANGED <<entrada, conectado, abiertas, comando, pedido, conexion,
                   carpeta, semaforo, canales, caido>>

\* Variant: the connection is still taken for an open one after the transfer.
SueltaSinCerrar ==
    /\ pcD = "suelta2" /\ Soltar
    /\ pcD' = "select"
    /\ UNCHANGED <<cliente, comando, pedido, conexion, carpeta, canales, vsk, caido>>

SueltaSegunda ==
    /\ pcD = "suelta2" /\ Soltar
    /\ iBandera' = 0
    /\ pcD' = "select"
    /\ UNCHANGED <<cliente, comando, pedido, pendientes, listos,
                   socketClienteFTP, carpeta, canales, vsk, caido>>

-----------------------------------------------------------------------------
Cliente == EnviarOrden \/ Cortar \/ \E n \in 1..MaxOrdenes : ConectarDatos(n)

HiloComando ==
    \/ RecibeSimple \/ RecibePwd \/ RecibeLs \/ RecibeCd \/ RecibeConArchivo
    \/ RecibeFin
    \/ SizeRecv \/ SizeCabecera \/ SizeCuerpo \/ DeleCabecera
    \/ Espera150 \/ SueltaComando \/ Espera226

HiloDatos ==
    \/ Select \/ AceptaPorSelect \/ LeeTransferencia \/ AceptaConOrden
    \/ Lista \/ LeeSize \/ MandaTamanio \/ LeeDele \/ LeeCd
    \/ SueltaPrimera \/ EsperaDatos \/ Descarga \/ Sube \/ SueltaSegunda

Next == ~caido /\ (Cliente \/ HiloComando \/ HiloDatos)

Spec == Init /\ [][Next]_vars

\* Windows runs both threads, and a client that sent the order of a transfer
\* opens its data connection.
FairSpec ==
    /\ Spec
    /\ WF_vars(~caido /\ HiloComando)
    /\ WF_vars(~caido /\ HiloDatos)
    /\ \A n \in 1..MaxOrdenes :
         WF_vars(~caido /\ n \in DOMAIN hist /\ ConectarDatos(n))
-----------------------------------------------------------------------------
Codigos == {"150", "200", "213", "226", "250", "257"}
Registro == [cmd : Clases, arg : Carpetas \union Archivos \union {SinValor},
             resp : SUBSET Codigos, con : 0..MaxOrdenes, base : Rutas, ruta : Rutas,
             hecho : BOOLEAN]

\* Types, and hist keeps to its orders: only what was sent is anywhere.
Pasos == {"select", "sizeRecv", "sizeCabecera", "sizeCuerpo", "deleCabecera",
          "espera150", "suelta", "espera226", "sin cliente", "acepta", "lista",
          "suelta1", "espera1", "transfiere", "suelta2"}

TypeOK ==
    /\ hist \in Seq(Registro)
    /\ entrada \in Seq(DOMAIN hist) /\ aDatos \in Seq(DOMAIN hist)
    /\ orden \in DOMAIN hist \union {0} /\ pedido \in DOMAIN hist \union {0}
    /\ abiertas \subseteq 1..MaxOrdenes /\ pendientes \in Seq(abiertas)
    /\ socketClienteFTP \in abiertas \union {0} /\ iBandera \in {0, 1}
    /\ pcC \in Pasos /\ pcD \in Pasos /\ semaforo \in {0, 1}
    /\ directorioActual \in Rutas /\ Directorio \in Rutas
    /\ directorioAux \in Rutas /\ listaArchivos \subseteq Archivos
    /\ aComando \in Seq(Unidad) /\ largo \in Nat
    /\ vsk \subseteq Rutas \X Archivos
    /\ listos \subseteq {"conexion", "orden"}
    /\ conectado \in BOOLEAN /\ caido \in BOOLEAN

EnTransferencia == {"suelta1", "espera1", "transfiere", "suelta2"}
EnAviso == {"espera150", "suelta", "espera226"}

\* No ReleaseSemaphore finds the count at its maximum of 1 (lines 134, 259,
\* 270, 429, 443, 457, 464): a signal given is never lost.
SinFichaPerdida ==
    pcC = "suelta" \/ pcD \in {"suelta1", "suelta2"} => semaforo = 0

\* While hiloDatos is in a transfer, hiloComando is announcing that same order
\* and not another; or it has confirmed it already, and hiloDatos waits for a
\* signal that nobody will give it before beginning.
Acompasados ==
    pcD \in EnTransferencia =>
        \/ pcC \in EnAviso /\ orden = pedido
        \/ pcD = "espera1" /\ semaforo = 0 /\ "226" \in hist[pedido].resp

\* 150 is sent when hiloDatos has a data connection for that order, also when
\* an earlier transfer left the threads out of step.
AvisoConConexion ==
    \A n \in DOMAIN hist : "150" \in hist[n].resp => hist[n].con # 0

\* With a client that ends one order before the next, every order is served on
\* the data connection that client opened for it, whether select accepts it
\* (line 368) or the order does (384, 425, 453).
ConexionPropia ==
    \A n \in DOMAIN hist : hist[n].con \in {0, n}

\* The last order of clases before n is a c.
UltimaAntes(n, clases, c) ==
    \E m \in 1..(n - 1) :
        Cmd(m) = c /\ \A k \in (m + 1)..(n - 1) : Cmd(k) \notin clases

\* The two copies of the current directory agree where hiloDatos got its own
\* last: a STOR after a CD and a RETR after an LS use the directory that
\* hiloComando had when it took the order.
RutaConocida ==
    \A n \in DOMAIN hist :
        hist[n].hecho =>
            /\ Cmd(n) = "STOR" /\ UltimaAntes(n, {"LS", "CD"}, "CD")
                   => hist[n].ruta = hist[n].base
            /\ Cmd(n) = "RETR" /\ UltimaAntes(n, {"LS", "CD", "PWD"}, "LS")
                   => hist[n].ruta = hist[n].base

\* While no CD left its answer unread in the local socket, DELE is confirmed
\* after hiloDatos attended it.
RespuestaDeSuOrden ==
    \A n \in DOMAIN hist :
        /\ Cmd(n) = "DELE" /\ "226" \in hist[n].resp
        /\ \A m \in 1..(n - 1) : Cmd(m) # "CD"
        => hist[n].hecho

\* A transfer confirmed before it was done is never done: the two waits of each
\* thread on one semaphore cannot begin it later, whatever comes next.
ConfirmadaNoEmpieza ==
    [][\A n \in DOMAIN hist :
         Cmd(n) \in Fichas /\ "226" \in hist[n].resp /\ ~hist[n].hecho
             => ~hist'[n].hecho]_vars

\* Every order is attended to its end while the client sends only those that wait
\* for no signal and are not read together with the next one: the unread answers
\* of CD fit.
DeUnTurno == {"SIMPLE", "PASV", "PWD", "LS", "CD", "DELE"}
PidioOtra == \E n \in DOMAIN hist : Cmd(n) \notin DeUnTurno
SeAtiende ==
    \A n \in 1..MaxOrdenes :
        n \in DOMAIN hist ~> PidioOtra \/ (n \in DOMAIN hist /\ Terminada(n))

-----------------------------------------------------------------------------
(* What the program says of itself and does not do.                        *)

\* "226 Transfer OK" (lines 261 and 272) comes after the transfer.
TransferenciaHecha ==
    \A n \in DOMAIN hist :
        Cmd(n) \in Fichas /\ "226" \in hist[n].resp => hist[n].hecho

=============================================================================

------------------------------ MODULE FtpProofs -----------------------------
(***************************************************************************)
(* Proofs about FtpHilos, for every set of directories, files and orders,  *)
(* any size of the local socket and any number of orders.                  *)
(***************************************************************************)
EXTENDS FtpHilos, SequenceTheorems, TLAPS

Argumentos ==
    \A n \in DOMAIN hist :
        /\ Cmd(n) = "CD" => hist[n].arg \in Carpetas
        /\ Cmd(n) \in ConArchivo => hist[n].arg \in Archivos

-----------------------------------------------------------------------------
(* What a step does to the history.                                        *)

LEMMA Registros ==
    ASSUME NEW n \in DOMAIN hist, hist \in Seq(Registro)
    PROVE  /\ hist[n] \in Registro
           /\ hist[n].resp \subseteq Codigos /\ hist[n].con \in 0..MaxOrdenes
           /\ hist[n].cmd \in Clases /\ hist[n].base \in Rutas
<1>1. hist[n] \in Registro
  BY LenProperties
<1>. QED BY <1>1 DEF Registro

\* One entry is rewritten and keeps its kind and argument.
Anota(n, r) ==
    /\ hist' = [hist EXCEPT ![n] = r]
    /\ r.cmd = hist[n].cmd /\ r.arg = hist[n].arg

\* What no step undoes.
Conserva ==
    /\ hist' \in Seq(Registro) /\ Argumentos'
    /\ Len(hist') >= Len(hist) /\ DOMAIN hist \subseteq DOMAIN hist'
    /\ \A m \in DOMAIN hist :
         /\ hist'[m].cmd = hist[m].cmd /\ hist'[m].arg = hist[m].arg
         /\ hist[m].resp \subseteq hist'[m].resp
         /\ hist[m].hecho => hist'[m].hecho

\* Only n is touched.
Solo(n) ==
    /\ DOMAIN hist' = DOMAIN hist /\ Len(hist') = Len(hist)
    /\ \A m \in DOMAIN hist : m # n => hist'[m] = hist[m]

LEMMA AnotaConserva ==
    ASSUME hist \in Seq(Registro), Argumentos, NEW n \in DOMAIN hist,
           NEW r \in Registro, Anota(n, r), hist[n].resp \subseteq r.resp,
           hist[n].hecho => r.hecho
    PROVE  Conserva /\ Solo(n) /\ hist'[n] = r
<1>1. hist' = [m \in DOMAIN hist |-> IF m = n THEN r ELSE hist[m]]
  BY LenProperties DEF Anota
<1>2. /\ hist' \in Seq(Registro) /\ DOMAIN hist' = DOMAIN hist
      /\ Len(hist') = Len(hist) /\ Len(hist) \in Nat
  BY ExceptSeq, LenProperties DEF Anota
<1>3. Argumentos'
  BY <1>1, <1>2 DEF Argumentos, Anota, Cmd
<1>4. Solo(n) /\ hist'[n] = r
  BY <1>1, <1>2 DEF Solo
<1>. QED BY <1>1, <1>2, <1>3, <1>4 DEF Conserva, Anota

LEMMA ResponderConserva ==
    ASSUME hist \in Seq(Registro), Argumentos, NEW n \in DOMAIN hist,
           NEW cs \in SUBSET Codigos, hist' = Responder(n, cs)
    PROVE  /\ Conserva /\ Solo(n)
           /\ hist'[n].resp = hist[n].resp \union cs
           /\ hist'[n].con = hist[n].con /\ hist'[n].hecho = hist[n].hecho
           /\ hist'[n].base = hist[n].base /\ hist'[n].ruta = hist[n].ruta
<1>. DEFINE r == [hist[n] EXCEPT !.resp = @ \union cs]
<1>1. /\ r \in Registro /\ r.cmd = hist[n].cmd /\ r.arg = hist[n].arg
      /\ r.resp = hist[n].resp \union cs
      /\ r.con = hist[n].con /\ r.hecho = hist[n].hecho
      /\ r.base = hist[n].base /\ r.ruta = hist[n].ruta
  BY Registros DEF Registro
<1>2. hist' = [hist EXCEPT ![n] = r]
  BY DEF Responder
<1>. HIDE DEF r
<1>3. Anota(n, r) /\ hist[n].resp \subseteq r.resp /\ (hist[n].hecho => r.hecho)
  BY <1>1, <1>2 DEF Anota
<1>4. Conserva /\ Solo(n) /\ hist'[n] = r
  BY <1>1, <1>3, AnotaConserva
<1>. QED BY <1>1, <1>4

LEMMA BaseConserva ==
    ASSUME hist \in Seq(Registro), Argumentos, NEW n \in DOMAIN hist, NEW b \in Rutas,
           hist' = [hist EXCEPT ![n].base = b]
    PROVE  /\ Conserva /\ Solo(n)
           /\ hist'[n].resp = hist[n].resp /\ hist'[n].con = hist[n].con
           /\ hist'[n].hecho = hist[n].hecho
           /\ hist'[n].base = b /\ hist'[n].ruta = hist[n].ruta
<1>. DEFINE r == [hist[n] EXCEPT !.base = b]
<1>1. /\ r \in Registro /\ r.cmd = hist[n].cmd /\ r.arg = hist[n].arg
      /\ r.resp = hist[n].resp /\ r.con = hist[n].con /\ r.hecho = hist[n].hecho
      /\ r.base = b /\ r.ruta = hist[n].ruta
  BY Registros DEF Registro
<1>2. hist' = [hist EXCEPT ![n] = r]
  OBVIOUS
<1>. HIDE DEF r
<1>3. Anota(n, r)
  BY <1>1, <1>2 DEF Anota
<1>4. Conserva /\ Solo(n) /\ hist'[n] = r
  BY <1>1, <1>3, AnotaConserva
<1>. QED BY <1>1, <1>4

LEMMA ConConserva ==
    ASSUME hist \in Seq(Registro), Argumentos, NEW n \in DOMAIN hist,
           NEW c \in 0..MaxOrdenes, hist' = [hist EXCEPT ![n].con = c]
    PROVE  /\ Conserva /\ Solo(n)
           /\ hist'[n].resp = hist[n].resp /\ hist'[n].con = c
           /\ hist'[n].hecho = hist[n].hecho
           /\ hist'[n].base = hist[n].base /\ hist'[n].ruta = hist[n].ruta
<1>. DEFINE r == [hist[n] EXCEPT !.con = c]
<1>1. /\ r \in Registro /\ r.cmd = hist[n].cmd /\ r.arg = hist[n].arg
      /\ r.resp = hist[n].resp /\ r.con = c /\ r.hecho = hist[n].hecho
      /\ r.base = hist[n].base /\ r.ruta = hist[n].ruta
  BY Registros DEF Registro
<1>2. hist' = [hist EXCEPT ![n] = r]
  OBVIOUS
<1>. HIDE DEF r
<1>3. Anota(n, r)
  BY <1>1, <1>2 DEF Anota
<1>4. Conserva /\ Solo(n) /\ hist'[n] = r
  BY <1>1, <1>3, AnotaConserva
<1>. QED BY <1>1, <1>4

LEMMA HechoConserva ==
    ASSUME hist \in Seq(Registro), Argumentos, NEW n \in DOMAIN hist,
           hist' = Hecho(n)
    PROVE  /\ Conserva /\ Solo(n)
           /\ hist'[n].resp = hist[n].resp /\ hist'[n].con = hist[n].con
           /\ hist'[n].base = hist[n].base /\ hist'[n].ruta = hist[n].ruta
<1>. DEFINE r == [hist[n] EXCEPT !.hecho = TRUE]
<1>1. /\ r \in Registro /\ r.cmd = hist[n].cmd /\ r.arg = hist[n].arg
      /\ r.resp = hist[n].resp /\ r.con = hist[n].con /\ r.hecho = TRUE
      /\ r.base = hist[n].base /\ r.ruta = hist[n].ruta
  BY Registros DEF Registro
<1>2. hist' = [hist EXCEPT ![n] = r]
  BY DEF Hecho
<1>. HIDE DEF r
<1>3. Anota(n, r)
  BY <1>1, <1>2 DEF Anota
<1>4. Conserva /\ Solo(n) /\ hist'[n] = r
  BY <1>1, <1>3, AnotaConserva
<1>. QED BY <1>1, <1>4

LEMMA RutaConserva ==
    ASSUME hist \in Seq(Registro), Argumentos, NEW n \in DOMAIN hist, NEW b \in Rutas,
           hist' = [hist EXCEPT ![n].ruta = b, ![n].hecho = TRUE]
    PROVE  /\ Conserva /\ Solo(n)
           /\ hist'[n].resp = hist[n].resp /\ hist'[n].con = hist[n].con
           /\ hist'[n].base = hist[n].base /\ hist'[n].ruta = b
<1>. DEFINE r == [hist[n] EXCEPT !.ruta = b, !.hecho = TRUE]
<1>1. /\ r \in Registro /\ r.cmd = hist[n].cmd /\ r.arg = hist[n].arg
      /\ r.resp = hist[n].resp /\ r.con = hist[n].con /\ r.hecho = TRUE
      /\ r.base = hist[n].base /\ r.ruta = b
  BY Registros DEF Registro
<1>2. hist' = [hist EXCEPT ![n] = r]
  OBVIOUS
<1>. HIDE DEF r
<1>3. Anota(n, r)
  BY <1>1, <1>2 DEF Anota
<1>4. Conserva /\ Solo(n) /\ hist'[n] = r
  BY <1>1, <1>3, AnotaConserva
<1>. QED BY <1>1, <1>4

\* A new order goes at the end, with nothing answered yet.
LEMMA NuevaConserva ==
    ASSUME hist \in Seq(Registro), Argumentos, NEW c \in Clases,
           NEW a \in Carpetas \union Archivos \union {SinValor},
           c = "CD" => a \in Carpetas, c \in ConArchivo => a \in Archivos,
           hist' = Append(hist, Nueva(c, a))
    PROVE  /\ Conserva /\ Len(hist') = Len(hist) + 1
           /\ Len(hist) + 1 \in DOMAIN hist' /\ Len(hist) \in Nat
           /\ DOMAIN hist' = DOMAIN hist \union {Len(hist) + 1}
           /\ \A m \in DOMAIN hist : hist'[m] = hist[m]
           /\ hist'[Len(hist) + 1].resp = {}
           /\ hist'[Len(hist) + 1].hecho = FALSE
<1>. DEFINE r == Nueva(c, a)
<1>1. /\ r \in Registro /\ r.cmd = c /\ r.arg = a /\ r.resp = {} /\ r.hecho = FALSE
  BY SesionAssumption DEF Nueva, Registro, Rutas
<1>2. hist' = Append(hist, r)
  OBVIOUS
<1>. HIDE DEF r
<1>3. /\ hist' \in Seq(Registro) /\ Len(hist') = Len(hist) + 1
      /\ DOMAIN hist' = 1..(Len(hist) + 1) /\ DOMAIN hist = 1..Len(hist)
      /\ \A n \in 1..Len(hist) : hist'[n] = hist[n]
      /\ hist'[Len(hist) + 1] = r /\ Len(hist) \in Nat
  BY <1>1, <1>2, AppendProperties, LenProperties
<1>4. Argumentos'
  <2>. SUFFICES ASSUME NEW n \in DOMAIN hist'
                PROVE  /\ hist'[n].cmd = "CD" => hist'[n].arg \in Carpetas
                       /\ hist'[n].cmd \in ConArchivo => hist'[n].arg \in Archivos
    BY DEF Argumentos, Cmd
  <2>1. CASE n \in DOMAIN hist
    BY <2>1, <1>3 DEF Argumentos, Cmd
  <2>2. CASE n = Len(hist) + 1
    BY <2>2, <1>1, <1>3
  <2>. QED BY <2>1, <2>2, <1>3
<1>. QED BY <1>1, <1>3, <1>4 DEF Conserva

-----------------------------------------------------------------------------
(* Types, in parts that the steps of the three actors change apart.        *)

TiposHist ==
    /\ hist \in Seq(Registro) /\ Argumentos
    /\ entrada \in Seq(DOMAIN hist) /\ aDatos \in Seq(DOMAIN hist)
    /\ orden \in DOMAIN hist \union {0} /\ pedido \in DOMAIN hist \union {0}

TiposConexion ==
    /\ abiertas \subseteq 1..MaxOrdenes /\ pendientes \in Seq(abiertas)
    /\ socketClienteFTP \in abiertas \union {0} /\ iBandera \in {0, 1}
    /\ listos \subseteq {"conexion", "orden"} /\ conectado \in BOOLEAN

TiposCarpeta ==
    /\ Directorio \in Rutas /\ directorioAux \in Rutas
    /\ listaArchivos \subseteq Archivos /\ vsk \subseteq Rutas \X Archivos

TiposComando == pcC \in Pasos /\ directorioActual \in Rutas /\ largo \in Nat

TiposHilos ==
    /\ pcD \in Pasos /\ semaforo \in {0, 1} /\ caido \in BOOLEAN
    /\ aComando \in Seq(Unidad)

\* A thread that is not waiting for something to do attends an order of the
\* kind that takes it where it is.
ComandoEnOrden ==
    /\ pcC \notin {"select", "sin cliente"} => orden \in DOMAIN hist
    /\ pcC \in EnAviso => Cmd(orden) \in Fichas

DatosEnOrden ==
    /\ pcD # "select" => pedido \in DOMAIN hist
    /\ pcD \in EnTransferencia => Cmd(pedido) \in Fichas
    /\ pcD = "lista" => Cmd(pedido) = "LS"
    /\ pcD = "acepta" => Cmd(pedido) \in Transferencias
    /\ pcD = "sizeCuerpo" => Cmd(pedido) = "SIZE"

\* What the last select found ready is still there.
ListosCiertos ==
    /\ "conexion" \in listos => pendientes # <<>>
    /\ "orden" \in listos => aDatos # <<>>
    /\ pcD # "select" => listos = {}

Tipos ==
    /\ TiposHist /\ TiposConexion /\ TiposCarpeta /\ TiposComando /\ TiposHilos
    /\ ComandoEnOrden /\ DatosEnOrden /\ ListosCiertos

LEMMA TiposTypeOK == Tipos => TypeOK
  BY DEF Tipos, TypeOK, TiposHist, TiposConexion, TiposCarpeta, TiposComando, TiposHilos

LEMMA TiposInit ==
    ASSUME Init
    PROVE  Tipos
<1>1. TiposHist /\ TiposConexion
  BY EmptySeq DEF Init, TiposHist, TiposConexion, Argumentos
<1>2. TiposCarpeta
  BY DEF Init, TiposCarpeta, Rutas
<1>3. TiposComando /\ TiposHilos
  BY EmptySeq DEF Init, TiposComando, TiposHilos, Pasos, SemaforoInicial, Rutas
<1>4. ComandoEnOrden /\ DatosEnOrden /\ ListosCiertos
  BY DEF Init, ComandoEnOrden, DatosEnOrden, ListosCiertos, EnAviso, EnTransferencia
<1>. QED BY <1>1, <1>2, <1>3, <1>4 DEF Tipos

\* What each actor leaves alone.
LEMMA ClienteAjeno ==
    ASSUME Cliente
    PROVE  /\ UNCHANGED <<comando, pcD, pedido, listos, iBandera, socketClienteFTP,
                          carpeta, semaforo, canales, vsk, caido>>
  BY DEF Cliente, EnviarOrden, Enviar, Cortar, ConectarDatos, conexion

LEMMA ComandoAjeno ==
    ASSUME HiloComando
    PROVE  UNCHANGED <<conectado, abiertas, pcD, pedido, conexion, carpeta, vsk, caido>>
  BY DEF HiloComando, RecibeSimple, RecibePwd, RecibeLs, RecibeCd, RecibeConArchivo,
         RecibeFin, SizeRecv, SizeCabecera, SizeCuerpo, DeleCabecera, Espera150,
         SueltaComando, Espera226, cliente

LEMMA DatosAjeno ==
    ASSUME HiloDatos
    PROVE  UNCHANGED <<entrada, conectado, abiertas, comando>>
  BY DEF HiloDatos, Select, AceptaPorSelect, LeeTransferencia, AceptaConOrden, Lista,
         LeeSize, MandaTamanio, LeeDele, LeeCd, SueltaPrimera, EsperaDatos, Descarga,
         Sube, SueltaSegunda, cliente

\* Parts that a step leaves alone, or follows the history with.
LEMMA HistSigue ==
    ASSUME TiposHist, Conserva,
           UNCHANGED <<entrada, aDatos, orden, pedido>>
    PROVE  TiposHist'
<1>1. entrada \in Seq(DOMAIN hist') /\ aDatos \in Seq(DOMAIN hist')
  BY SeqMonotonic DEF TiposHist, Conserva
<1>. QED BY <1>1 DEF TiposHist, Conserva

LEMMA ComandoSigue ==
    ASSUME TiposHist, ComandoEnOrden, Conserva, UNCHANGED <<pcC, orden>>
    PROVE  ComandoEnOrden'
<1>1. orden \in DOMAIN hist => hist'[orden].cmd = hist[orden].cmd /\ orden \in DOMAIN hist'
  BY DEF Conserva
<1>2. pcC \in EnAviso => orden \in DOMAIN hist
  BY DEF ComandoEnOrden, EnAviso
<1>. QED BY <1>1, <1>2 DEF ComandoEnOrden, Cmd

LEMMA DatosSigue ==
    ASSUME DatosEnOrden, Conserva, UNCHANGED <<pcD, pedido>>
    PROVE  DatosEnOrden'
<1>1. pedido \in DOMAIN hist
        => hist'[pedido].cmd = hist[pedido].cmd /\ pedido \in DOMAIN hist'
  BY DEF Conserva
<1>2. pcD # "select" => pedido \in DOMAIN hist
  BY DEF DatosEnOrden
<1>3. pcD # "select" => hist'[pedido].cmd = hist[pedido].cmd /\ pedido \in DOMAIN hist'
  BY <1>1, <1>2
<1>. QED BY <1>3 DEF DatosEnOrden, Cmd, EnTransferencia

LEMMA HistIgual ==
    ASSUME TiposHist, hist' = hist
    PROVE  Conserva
  BY LenProperties DEF TiposHist, Conserva, Argumentos, Cmd

LEMMA ConexionQuieta ==
    ASSUME TiposConexion, UNCHANGED <<conectado, abiertas, conexion>>
    PROVE  TiposConexion'
  BY DEF TiposConexion, conexion

LEMMA CarpetaQuieta ==
    ASSUME TiposCarpeta, UNCHANGED <<carpeta, vsk>>
    PROVE  TiposCarpeta'
  BY DEF TiposCarpeta, carpeta

LEMMA Primero ==
    ASSUME TiposHist, entrada # <<>>
    PROVE  PrimeraOrden \in DOMAIN hist
  BY HeadTailProperties DEF TiposHist, PrimeraOrden

LEMMA PrimerPedido ==
    ASSUME TiposHist, aDatos # <<>>
    PROVE  Head(aDatos) \in DOMAIN hist /\ Tail(aDatos) \in Seq(DOMAIN hist)
  BY HeadTailProperties DEF TiposHist

LEMMA Unidades ==
    /\ \A l \in Nat : Cabecera(l) \in Seq(Unidad)
    /\ \A l \in Nat : Cuerpo(l) \in Seq(Unidad)
<1>1. ASSUME NEW l \in Nat PROVE Cuerpo(l) \in Seq(Unidad)
  BY DEF Cuerpo, Unidad
<1>2. ASSUME NEW l \in Nat PROVE Cabecera(l) \in Seq(Unidad)
  <2>1. TamCabecera - 1 \in Nat
    BY SesionAssumption
  <2>2. [inicio |-> TRUE, largo |-> l] \in Unidad
    BY DEF Unidad
  <2>. QED BY <1>1, <2>1, <2>2, ConcatProperties DEF Cabecera
<1>. QED BY <1>1, <1>2

LEMMA EnviarTipo ==
    ASSUME aComando \in Seq(Unidad), NEW s \in Seq(Unidad), EnviarAlgo(s)
    PROVE  aComando' \in Seq(Unidad)
  BY ConcatProperties DEF EnviarAlgo

LEMMA RecibirTipo ==
    ASSUME aComando \in Seq(Unidad), NEW l \in Nat, RecibirAlgo(l)
    PROVE  aComando' \in Seq(Unidad)
<1>1. \A i \in (l + 1)..Len(aComando) : aComando[i] \in Unidad
  BY ElementOfSeq, LenProperties
<1>. QED BY <1>1, SubSeqProperties, LenProperties DEF RecibirAlgo

LEMMA LargosTipo ==
    ASSUME aComando \in Seq(Unidad), RecibirAlgo(TamCabecera)
    PROVE  LargosLeidos \subseteq Nat
<1>1. aComando # <<>>
  BY SesionAssumption, EmptySeq DEF RecibirAlgo
<1>2. Head(aComando) \in Unidad
  BY <1>1, HeadTailProperties
<1>. QED BY <1>2, SesionAssumption DEF LargosLeidos, Unidad

-----------------------------------------------------------------------------
LEMMA EnviarTipos ==
    ASSUME Tipos, NEW c \in Clases, NEW a \in Carpetas \union Archivos \union {SinValor},
           c = "CD" => a \in Carpetas, c \in ConArchivo => a \in Archivos,
           Enviar(c, a)
    PROVE  /\ TiposHist' /\ Conserva
           /\ Len(hist') = Len(hist) + 1 /\ Len(hist) \in Nat
           /\ DOMAIN hist' = DOMAIN hist \union {Len(hist) + 1}
           /\ \A m \in DOMAIN hist : hist'[m] = hist[m]
           /\ hist'[Len(hist) + 1].resp = {} /\ hist'[Len(hist) + 1].hecho = FALSE
           /\ entrada' = Append(entrada, Len(hist) + 1)
<1>1. /\ Conserva /\ Len(hist') = Len(hist) + 1 /\ Len(hist) \in Nat
      /\ Len(hist) + 1 \in DOMAIN hist'
      /\ DOMAIN hist' = DOMAIN hist \union {Len(hist) + 1}
      /\ \A m \in DOMAIN hist : hist'[m] = hist[m]
      /\ hist'[Len(hist) + 1].resp = {} /\ hist'[Len(hist) + 1].hecho = FALSE
  BY NuevaConserva DEF Enviar, Tipos, TiposHist
<1>2. entrada \in Seq(DOMAIN hist') /\ aDatos \in Seq(DOMAIN hist')
  BY <1>1, SeqMonotonic DEF Tipos, TiposHist, Conserva
<1>3. /\ entrada' = Append(entrada, Len(hist) + 1)
      /\ UNCHANGED <<aDatos, orden, pedido>>
  BY DEF Enviar, comando, canales
<1>4. entrada' \in Seq(DOMAIN hist')
  BY <1>1, <1>2, <1>3, AppendProperties
<1>5. TiposHist'
  BY <1>1, <1>2, <1>3, <1>4 DEF Tipos, TiposHist, Conserva
<1>. QED BY <1>1, <1>3, <1>5

LEMMA ElegirOrden ==
    ASSUME EnviarOrden
    PROVE  \E c \in Clases : \E a \in Carpetas \union Archivos \union {SinValor} :
             /\ c = "CD" => a \in Carpetas
             /\ c \in ConArchivo => a \in Archivos
             /\ Enviar(c, a)
<1>1. PICK c \in Ordenes : \E a \in CASE c = "CD" -> Carpetas
                   [] c \in ConArchivo -> Archivos
                   [] OTHER -> {SinValor} : Enviar(c, a)
  BY DEF EnviarOrden
<1>2. c \in Clases /\ ~(c = "CD" /\ c \in ConArchivo)
  BY SesionAssumption DEF ConArchivo
<1>. QED BY <1>1, <1>2

LEMMA ClienteTipos ==
    ASSUME Tipos, Cliente
    PROVE  Tipos' /\ Conserva
<1>1. TiposHist' /\ Conserva
  <2>1. CASE EnviarOrden
    BY <2>1, ElegirOrden, EnviarTipos
  <2>2. CASE hist' = hist /\ entrada' = entrada
    BY <2>2, HistIgual, HistSigue, ClienteAjeno DEF Tipos, comando, canales
  <2>. QED BY <2>1, <2>2 DEF Cliente, Cortar, ConectarDatos
<1>2. TiposConexion'
  <2>1. CASE Cortar \/ EnviarOrden
    BY <2>1 DEF Cortar, EnviarOrden, Enviar, Tipos, TiposConexion, conexion
  <2>2. ASSUME NEW n \in 1..MaxOrdenes, ConectarDatos(n) PROVE TiposConexion'
    <3>1. pendientes' \in Seq(abiertas')
      BY <2>2, SeqMonotonic, AppendProperties DEF ConectarDatos, Tipos, TiposConexion
    <3>. QED BY <2>2, <3>1 DEF ConectarDatos, Tipos, TiposConexion
  <2>. QED BY <2>1, <2>2 DEF Cliente
<1>3. TiposCarpeta' /\ TiposComando' /\ TiposHilos'
  BY ClienteAjeno DEF Tipos, TiposCarpeta, TiposComando, TiposHilos, carpeta, comando,
                      canales
<1>4. ComandoEnOrden' /\ DatosEnOrden'
  BY <1>1, ClienteAjeno, ComandoSigue, DatosSigue DEF Tipos, comando
<1>5. ListosCiertos'
  <2>1. pendientes # <<>> => pendientes' # <<>>
    BY AppendProperties DEF Tipos, TiposConexion, Cliente, Cortar, EnviarOrden, Enviar,
                            ConectarDatos, conexion
  <2>. QED BY <2>1, ClienteAjeno DEF Tipos, ListosCiertos, canales
<1>. QED BY <1>1, <1>2, <1>3, <1>4, <1>5 DEF Tipos

-----------------------------------------------------------------------------
LEMMA AppendNoVacia ==
    ASSUME NEW S, NEW s \in Seq(S), NEW x
    PROVE  Append(s, x) # <<>>
<1>1. Append(s, x) \in Seq(S \union {x}) /\ Len(Append(s, x)) = Len(s) + 1
  BY SeqMonotonic, AppendProperties
<1>. QED BY <1>1, EmptySeq, LenProperties

\* The steps of hiloComando that take an order: what they do to the history.
LEMMA RecibeHist ==
    ASSUME Tipos, RecibeSimple \/ RecibePwd \/ RecibeLs \/ RecibeCd \/ RecibeConArchivo
    PROVE  /\ PrimeraOrden \in DOMAIN hist /\ entrada # <<>>
           /\ orden' = PrimeraOrden /\ entrada' = <<>>
           /\ Conserva /\ Solo(PrimeraOrden)
           /\ hist'[PrimeraOrden].con = hist[PrimeraOrden].con
           /\ hist'[PrimeraOrden].hecho = hist[PrimeraOrden].hecho
           /\ "150" \in hist'[PrimeraOrden].resp => "150" \in hist[PrimeraOrden].resp
           /\ "226" \in hist'[PrimeraOrden].resp => "226" \in hist[PrimeraOrden].resp
<1>. DEFINE n == PrimeraOrden
<1>1. n \in DOMAIN hist /\ entrada # <<>> /\ orden' = n /\ entrada' = <<>>
  BY Primero DEF RecibeSimple, RecibePwd, RecibeLs, RecibeCd, RecibeConArchivo, Recibe,
                 Tipos
<1>2. CASE RecibeSimple
  <2>1. CASE hist' = Responder(n, {})
    BY <1>1, <2>1, ResponderConserva DEF Tipos, TiposHist, Codigos
  <2>2. CASE hist' = Responder(n, {"200"})
    BY <1>1, <2>2, ResponderConserva DEF Tipos, TiposHist, Codigos
  <2>. QED BY <1>1, <1>2, <2>1, <2>2 DEF RecibeSimple
<1>3. CASE RecibePwd \/ RecibeCd
  <2>1. PICK c \in {"257", "250"} : hist' = Responder(n, {c})
    BY <1>3 DEF RecibePwd, RecibeCd
  <2>2. {c} \in SUBSET Codigos /\ c # "150" /\ c # "226"
    BY <2>1 DEF Codigos
  <2>3. /\ Conserva /\ Solo(n) /\ hist'[n].resp = hist[n].resp \union {c}
        /\ hist'[n].con = hist[n].con /\ hist'[n].hecho = hist[n].hecho
    BY <1>1, <2>1, <2>2, ResponderConserva DEF Tipos, TiposHist
  <2>. QED BY <1>1, <2>2, <2>3
<1>4. CASE RecibeLs \/ RecibeConArchivo
  <2>1. hist' = [hist EXCEPT ![n].base = directorioActual]
    BY <1>4 DEF RecibeLs, RecibeConArchivo
  <2>2. directorioActual \in Rutas
    BY DEF Tipos, TiposComando
  <2>. QED BY <1>1, <2>1, <2>2, BaseConserva DEF Tipos, TiposHist
<1>. QED BY <1>1, <1>2, <1>3, <1>4

\* Those that go on with it: only what is answered to it may change.
LEMMA SigueHist ==
    ASSUME Tipos, NEW c \in Codigos, hist' = Responder(orden, {c}),
           pcC \notin {"select", "sin cliente"}
    PROVE  /\ orden \in DOMAIN hist /\ Conserva /\ Solo(orden)
           /\ hist'[orden].con = hist[orden].con
           /\ hist'[orden].hecho = hist[orden].hecho
           /\ hist'[orden].resp = hist[orden].resp \union {c}
<1>1. orden \in DOMAIN hist
  BY DEF Tipos, ComandoEnOrden
<1>2. {c} \in SUBSET Codigos /\ hist \in Seq(Registro) /\ Argumentos
  BY DEF Tipos, TiposHist
<1>. QED BY <1>1, <1>2, ResponderConserva

LEMMA RecibeTipos ==
    ASSUME Tipos, RecibeSimple \/ RecibePwd \/ RecibeLs \/ RecibeCd \/ RecibeConArchivo
    PROVE  TiposHist' /\ TiposComando' /\ ComandoEnOrden'
<1>1. /\ PrimeraOrden \in DOMAIN hist /\ orden' = PrimeraOrden /\ entrada' = <<>>
      /\ Conserva
  BY RecibeHist
<1>2. aDatos' = aDatos \/ AlHiloDatos
  BY DEF RecibeSimple, RecibePwd, RecibeLs, RecibeCd, RecibeConArchivo, canales
<1>3. aDatos \in Seq(DOMAIN hist') /\ PrimeraOrden \in DOMAIN hist'
  BY <1>1, SeqMonotonic DEF Conserva, Tipos, TiposHist
<1>4. aDatos' \in Seq(DOMAIN hist')
  BY <1>2, <1>3, AppendProperties DEF AlHiloDatos
<1>5. pedido' = pedido
  BY ComandoAjeno DEF HiloComando
<1>6. TiposHist'
  BY <1>1, <1>3, <1>4, <1>5, EmptySeq DEF Conserva, Tipos, TiposHist
<1>7. directorioActual' \in Rutas
  <2>1. CASE RecibeCd
    <3>1. Cmd(PrimeraOrden) = "CD" /\ directorioActual' = hist[PrimeraOrden].arg
      BY <2>1 DEF RecibeCd, Recibe
    <3>. QED BY <3>1, <1>1 DEF Tipos, TiposHist, Argumentos, Rutas
  <2>2. CASE RecibePwd
    BY <2>2 DEF RecibePwd, Tipos, TiposComando, Rutas
  <2>3. CASE directorioActual' = directorioActual
    BY <2>3 DEF Tipos, TiposComando
  <2>. QED BY <2>1, <2>2, <2>3 DEF RecibeSimple, RecibeLs, RecibeConArchivo
<1>8. largo' = largo
  BY DEF RecibeSimple, RecibePwd, RecibeLs, RecibeCd, RecibeConArchivo
<1>9. pcC' \in Pasos /\ ComandoEnOrden'
  <2>1. CASE RecibeConArchivo
    <3>1. /\ Cmd(PrimeraOrden) \in ConArchivo
          /\ pcC' = EsperaDe[Cmd(PrimeraOrden)]
      BY <2>1 DEF RecibeConArchivo, Recibe
    <3>2. /\ pcC' \in {"sizeRecv", "deleCabecera", "espera150"}
          /\ pcC' = "espera150" => Cmd(PrimeraOrden) \in Fichas
      BY <3>1 DEF EsperaDe, ConArchivo, Fichas
    <3>. QED BY <3>2, <1>1 DEF Pasos, ComandoEnOrden, EnAviso, Cmd, Conserva
  <2>2. CASE pcC' = "select"
    BY <2>2 DEF Pasos, ComandoEnOrden, EnAviso
  <2>. QED BY <2>1, <2>2 DEF RecibeSimple, RecibePwd, RecibeLs, RecibeCd, Recibe
<1>. QED BY <1>6, <1>7, <1>8, <1>9 DEF Tipos, TiposComando

LEMMA ComandoTipos ==
    ASSUME Tipos, HiloComando
    PROVE  Tipos' /\ Conserva
<1>. USE DEF Pasos, EnAviso
<1>1. TiposHist' /\ TiposComando' /\ ComandoEnOrden' /\ Conserva
  <2>1. CASE RecibeSimple \/ RecibePwd \/ RecibeLs \/ RecibeCd \/ RecibeConArchivo
    BY <2>1, RecibeTipos, RecibeHist
  <2>2. CASE RecibeFin \/ SizeRecv \/ SizeCabecera \/ SueltaComando
    <3>1. Conserva /\ TiposHist'
      BY <2>2, HistIgual, HistSigue
         DEF RecibeFin, SizeRecv, SizeCabecera, SueltaComando, Tipos, cliente, canales
    <3>2. largo' \in Nat
      BY <2>2, LargosTipo DEF RecibeFin, SizeRecv, SizeCabecera, SueltaComando, RecibirH,
                              Tipos, TiposComando, TiposHilos
    <3>3. pcC' \in Pasos /\ UNCHANGED <<orden, directorioActual>>
      BY <2>2 DEF RecibeFin, SizeRecv, SizeCabecera, SueltaComando
    <3>4. orden \in DOMAIN hist => hist'[orden] = hist[orden] /\ orden \in DOMAIN hist'
      BY <2>2 DEF RecibeFin, SizeRecv, SizeCabecera, SueltaComando, cliente
    <3>5. ComandoEnOrden'
      BY <2>2, <3>3, <3>4 DEF RecibeFin, SizeRecv, SizeCabecera, SueltaComando, RecibirH,
                              Tipos, ComandoEnOrden, Cmd
    <3>. QED BY <3>1, <3>2, <3>3, <3>5 DEF Tipos, TiposComando
  <2>3. CASE SizeCuerpo \/ DeleCabecera \/ Espera150 \/ Espera226
    <3>1. PICK c \in Codigos : hist' = Responder(orden, {c})
      BY <2>3 DEF SizeCuerpo, DeleCabecera, Espera150, Espera226, Codigos
    <3>2. pcC \notin {"select", "sin cliente"}
      BY <2>3 DEF SizeCuerpo, DeleCabecera, Espera150, Espera226, RecibirH
    <3>3. orden \in DOMAIN hist /\ Conserva
      BY <3>1, <3>2, SigueHist
    <3>4. TiposHist'
      BY <2>3, <3>3, HistSigue
         DEF SizeCuerpo, DeleCabecera, Espera150, Espera226, Tipos, canales
    <3>5. largo' \in Nat
      BY <2>3, LargosTipo DEF SizeCuerpo, DeleCabecera, Espera150, Espera226, RecibirH,
                              Tipos, TiposComando, TiposHilos
    <3>6. /\ UNCHANGED <<orden, directorioActual>>
          /\ pcC' = "select" \/ (pcC = "espera150" /\ pcC' = "suelta")
      BY <2>3 DEF SizeCuerpo, DeleCabecera, Espera150, Espera226
    <3>7. ComandoEnOrden'
      BY <3>3, <3>6 DEF ComandoEnOrden, Tipos, Cmd, Conserva
    <3>. QED BY <3>3, <3>4, <3>5, <3>6, <3>7 DEF Tipos, TiposComando
  <2>. QED BY <2>1, <2>2, <2>3 DEF HiloComando
<1>2. TiposConexion' /\ TiposCarpeta'
  BY ComandoAjeno, ConexionQuieta, CarpetaQuieta DEF Tipos
<1>3. TiposHilos'
  <2>1. pcD' = pcD /\ caido' = caido
    BY ComandoAjeno
  <2>2. semaforo' \in {0, 1}
    BY DEF HiloComando, RecibeSimple, RecibePwd, RecibeLs, RecibeCd, RecibeConArchivo,
           RecibeFin, SizeRecv, SizeCabecera, SizeCuerpo, DeleCabecera, Espera150,
           SueltaComando, Espera226, Soltar, Esperar, Tipos, TiposHilos
  <2>3. aComando' \in Seq(Unidad)
    <3>1. CASE SizeCabecera \/ DeleCabecera
      BY <3>1, RecibirTipo, SesionAssumption
         DEF SizeCabecera, DeleCabecera, RecibirH, Tipos, TiposHilos
    <3>2. CASE SizeCuerpo
      BY <3>2, RecibirTipo DEF SizeCuerpo, Tipos, TiposHilos, TiposComando
    <3>3. CASE SizeRecv
      BY <3>3, EmptySeq DEF SizeRecv
    <3>4. CASE aComando' = aComando
      BY <3>4 DEF Tipos, TiposHilos
    <3>. QED BY <3>1, <3>2, <3>3, <3>4
             DEF HiloComando, RecibeSimple, RecibePwd, RecibeLs, RecibeCd,
                 RecibeConArchivo, RecibeFin, Espera150, SueltaComando, Espera226, canales
  <2>. QED BY <2>1, <2>2, <2>3 DEF Tipos, TiposHilos
<1>4. DatosEnOrden'
  BY <1>1, ComandoAjeno, DatosSigue DEF Tipos
<1>5. ListosCiertos'
  <2>1. aDatos' = aDatos \/ AlHiloDatos
    BY DEF HiloComando, RecibeSimple, RecibePwd, RecibeLs, RecibeCd, RecibeConArchivo,
           RecibeFin, SizeRecv, SizeCabecera, SizeCuerpo, DeleCabecera, Espera150,
           SueltaComando, Espera226, canales
  <2>2. aDatos # <<>> => aDatos' # <<>>
    BY <2>1, AppendNoVacia DEF AlHiloDatos, Tipos, TiposHist
  <2>. QED BY <2>2, ComandoAjeno DEF Tipos, ListosCiertos, conexion
<1>. QED BY <1>1, <1>2, <1>3, <1>4, <1>5 DEF Tipos

-----------------------------------------------------------------------------
\* Reading an order: it is one that was sent.
LEMMA LeeOrdenHist ==
    ASSUME Tipos, NEW clases, LeeOrden(clases)
    PROVE  /\ aDatos # <<>> /\ Head(aDatos) \in DOMAIN hist
           /\ Cmd(Head(aDatos)) \in clases
           /\ pedido' = Head(aDatos) /\ aDatos' = Tail(aDatos) /\ listos' = {}
           /\ aDatos' \in Seq(DOMAIN hist) /\ pcD = "select"
<1>1. aDatos # <<>>
  BY DEF LeeOrden, Tipos, ListosCiertos
<1>. QED BY <1>1, PrimerPedido DEF LeeOrden, Tipos

LEMMA AceptarTipo ==
    ASSUME TiposConexion, pendientes # <<>>, Aceptar
    PROVE  /\ pendientes' \in Seq(abiertas) /\ iBandera' = 1
           /\ socketClienteFTP' \in abiertas /\ socketClienteFTP' = Head(pendientes)
           /\ socketClienteFTP' \in 1..MaxOrdenes
  BY HeadTailProperties DEF TiposConexion, Aceptar

\* hiloDatos answers nothing to the client; it marks a transfer done only in the
\* transfer, and gives an order the connection it has accepted.
NotaDatos ==
    /\ Conserva /\ Len(hist') = Len(hist) /\ DOMAIN hist' = DOMAIN hist
    /\ \A m \in DOMAIN hist :
         /\ hist'[m].resp = hist[m].resp
         /\ hist'[m].con = hist[m].con
              \/ (hist'[m].con = socketClienteFTP' /\ iBandera' = 1)
         /\ hist'[m].hecho => \/ hist[m].hecho \/ Cmd(m) \notin Fichas
                              \/ (pcD = "transfiere" /\ m = pedido)

LEMMA DatosHist ==
    ASSUME Tipos, HiloDatos
    PROVE  NotaDatos
<1>. USE DEF Cmd
<1>1. CASE hist' = hist
  BY <1>1, HistIgual DEF NotaDatos, Tipos
<1>2. CASE LeeTransferencia
  <2>. SUFFICES ASSUME hist' # hist PROVE NotaDatos
    BY <1>1
  <2>1. /\ Head(aDatos) \in DOMAIN hist /\ iBandera # 0
        /\ hist' = [hist EXCEPT ![Head(aDatos)].con = socketClienteFTP]
        /\ UNCHANGED <<socketClienteFTP, iBandera>>
    BY <1>2, LeeOrdenHist DEF LeeTransferencia
  <2>2. socketClienteFTP \in 0..MaxOrdenes /\ iBandera = 1
    BY <2>1, SesionAssumption DEF Tipos, TiposConexion
  <2>3. /\ Conserva /\ Solo(Head(aDatos))
        /\ hist'[Head(aDatos)].resp = hist[Head(aDatos)].resp
        /\ hist'[Head(aDatos)].con = socketClienteFTP
        /\ hist'[Head(aDatos)].hecho = hist[Head(aDatos)].hecho
    BY <2>1, <2>2, ConConserva DEF Tipos, TiposHist
  <2>. QED BY <2>1, <2>2, <2>3 DEF NotaDatos, Solo
<1>3. CASE AceptaConOrden
  <2>1. pedido \in DOMAIN hist /\ pendientes # <<>>
    BY <1>3 DEF AceptaConOrden, Tipos, DatosEnOrden
  <2>2. iBandera' = 1 /\ socketClienteFTP' \in 0..MaxOrdenes
    BY <1>3, <2>1, AceptarTipo, SesionAssumption DEF AceptaConOrden, Tipos
  <2>3. hist' = [hist EXCEPT ![pedido].con = socketClienteFTP']
    BY <1>3 DEF AceptaConOrden, Aceptar
  <2>4. /\ Conserva /\ Solo(pedido)
        /\ hist'[pedido].resp = hist[pedido].resp
        /\ hist'[pedido].con = socketClienteFTP'
        /\ hist'[pedido].hecho = hist[pedido].hecho
    BY <2>1, <2>2, <2>3, ConConserva DEF Tipos, TiposHist
  <2>. QED BY <2>2, <2>4 DEF NotaDatos, Solo
<1>4. CASE Lista \/ MandaTamanio
  <2>1. pedido \in DOMAIN hist /\ Cmd(pedido) \notin Fichas /\ hist' = Hecho(pedido)
    BY <1>4 DEF Lista, MandaTamanio, Tipos, DatosEnOrden, Fichas
  <2>2. /\ Conserva /\ Solo(pedido)
        /\ hist'[pedido].resp = hist[pedido].resp
        /\ hist'[pedido].con = hist[pedido].con
    BY <2>1, HechoConserva DEF Tipos, TiposHist
  <2>. QED BY <2>1, <2>2 DEF NotaDatos, Solo
<1>5. CASE LeeCd
  <2>1. /\ Head(aDatos) \in DOMAIN hist /\ Cmd(Head(aDatos)) \notin Fichas
        /\ hist' = Hecho(Head(aDatos))
    BY <1>5, LeeOrdenHist DEF LeeCd, Fichas
  <2>2. /\ Conserva /\ Solo(Head(aDatos))
        /\ hist'[Head(aDatos)].resp = hist[Head(aDatos)].resp
        /\ hist'[Head(aDatos)].con = hist[Head(aDatos)].con
    BY <2>1, HechoConserva DEF Tipos, TiposHist
  <2>. QED BY <2>1, <2>2 DEF NotaDatos, Solo
<1>6. CASE LeeDele
  <2>1. /\ Head(aDatos) \in DOMAIN hist /\ Cmd(Head(aDatos)) \notin Fichas
        /\ hist' = [hist EXCEPT ![Head(aDatos)].ruta = Directorio,
                                ![Head(aDatos)].hecho = TRUE]
    BY <1>6, LeeOrdenHist DEF LeeDele, Fichas
  <2>2. /\ Conserva /\ Solo(Head(aDatos))
        /\ hist'[Head(aDatos)].resp = hist[Head(aDatos)].resp
        /\ hist'[Head(aDatos)].con = hist[Head(aDatos)].con
    BY <2>1, RutaConserva DEF Tipos, TiposHist, TiposCarpeta
  <2>. QED BY <2>1, <2>2 DEF NotaDatos, Solo
<1>7. CASE Descarga \/ Sube
  <2>1. PICK b \in {directorioAux, Directorio} :
          hist' = [hist EXCEPT ![pedido].ruta = b, ![pedido].hecho = TRUE]
    BY <1>7 DEF Descarga, Sube, SubirArchivo
  <2>2. pedido \in DOMAIN hist /\ pcD = "transfiere"
    BY <1>7 DEF Descarga, Sube, Tipos, DatosEnOrden
  <2>3. /\ Conserva /\ Solo(pedido)
        /\ hist'[pedido].resp = hist[pedido].resp
        /\ hist'[pedido].con = hist[pedido].con
    BY <2>1, <2>2, RutaConserva DEF Tipos, TiposHist, TiposCarpeta
  <2>. QED BY <2>2, <2>3 DEF NotaDatos, Solo
<1>8. CASE Select \/ AceptaPorSelect \/ LeeSize \/ SueltaPrimera \/ EsperaDatos
           \/ SueltaSegunda
  BY <1>1, <1>8 DEF Select, AceptaPorSelect, LeeSize, SueltaPrimera, EsperaDatos,
                    SueltaSegunda, cliente
<1>. QED BY <1>2, <1>3, <1>4, <1>5, <1>6, <1>7, <1>8 DEF HiloDatos

Lecturas == LeeTransferencia \/ LeeSize \/ LeeDele \/ LeeCd

LEMMA LecturasHist ==
    ASSUME Tipos, Lecturas
    PROVE  /\ aDatos # <<>> /\ Head(aDatos) \in DOMAIN hist
           /\ pedido' = Head(aDatos) /\ aDatos' = Tail(aDatos) /\ listos' = {}
           /\ aDatos' \in Seq(DOMAIN hist) /\ pcD = "select"
           /\ UNCHANGED <<pendientes, iBandera, socketClienteFTP, semaforo>>
  BY LeeOrdenHist DEF Lecturas, LeeTransferencia, LeeSize, LeeDele, LeeCd

LEMMA NoLecturas ==
    ASSUME HiloDatos, ~Lecturas
    PROVE  UNCHANGED <<aDatos, pedido>>
  BY DEF HiloDatos, Lecturas, Select, AceptaPorSelect, AceptaConOrden, Lista,
         MandaTamanio, SueltaPrimera, EsperaDatos, Descarga, Sube, SueltaSegunda,
         canales

LEMMA DatosTipos ==
    ASSUME Tipos, HiloDatos
    PROVE  Tipos'
<1>. USE DEF Pasos
<1>1. NotaDatos /\ Conserva
  BY DatosHist DEF NotaDatos
<1>2. TiposHist'
  <2>1. CASE Lecturas
    <3>1. aDatos' \in Seq(DOMAIN hist') /\ pedido' \in DOMAIN hist'
      BY <1>1, <2>1, LecturasHist DEF NotaDatos
    <3>2. entrada' = entrada /\ orden' = orden
      BY DatosAjeno DEF comando
    <3>. QED BY <1>1, <3>1, <3>2 DEF NotaDatos, Conserva, Tipos, TiposHist
  <2>2. CASE ~Lecturas
    BY <1>1, <2>2, NoLecturas, DatosAjeno, HistSigue DEF Tipos, comando
  <2>. QED BY <2>1, <2>2
<1>3. TiposConexion' /\ ListosCiertos'
  <2>. USE DEF Tipos
  <2>1. CASE Lecturas
    BY <2>1, LecturasHist, DatosAjeno DEF TiposConexion, ListosCiertos
  <2>2. CASE Select
    BY <2>2 DEF Select, HayListos, TiposConexion, ListosCiertos, cliente, canales
  <2>3. CASE AceptaPorSelect
    <3>1. pendientes # <<>> /\ Aceptar
      BY <2>3 DEF AceptaPorSelect, ListosCiertos
    <3>2. /\ pendientes' \in Seq(abiertas) /\ iBandera' = 1
          /\ socketClienteFTP' \in abiertas
      BY <3>1, AceptarTipo
    <3>. QED BY <2>3, <3>2
             DEF AceptaPorSelect, TiposConexion, ListosCiertos, cliente, canales
  <2>4. CASE AceptaConOrden
    <3>1. /\ pendientes' \in Seq(abiertas) /\ iBandera' = 1
          /\ socketClienteFTP' \in abiertas
      BY <2>4, AceptarTipo DEF AceptaConOrden
    <3>. QED BY <2>4, <3>1 DEF AceptaConOrden, TiposConexion, ListosCiertos, canales
  <2>5. CASE MandaTamanio \/ SueltaPrimera \/ EsperaDatos \/ Descarga \/ Sube
    BY <2>5 DEF MandaTamanio, SueltaPrimera, EsperaDatos, Descarga, Sube,
                TiposConexion, ListosCiertos, conexion, cliente
  <2>6. CASE Lista \/ SueltaSegunda
    BY <2>6 DEF Lista, SueltaSegunda, TiposConexion, ListosCiertos, cliente
  <2>. QED BY <2>1, <2>2, <2>3, <2>4, <2>5, <2>6 DEF HiloDatos, Lecturas
<1>4. TiposCarpeta'
  <2>. USE DEF Tipos
  <2>1. CASE Lista
    <3>1. pedido \in DOMAIN hist /\ hist[pedido].base \in Rutas
      BY <2>1, Registros DEF Lista, DatosEnOrden, TiposHist
    <3>2. CrearLista(hist[pedido].base) /\ directorioAux' = hist[pedido].base /\ vsk' = vsk
      BY <2>1 DEF Lista
    <3>3. Directorio' \in Rutas /\ listaArchivos' \subseteq Archivos
      BY <3>1, <3>2 DEF CrearLista, Contenido, Rutas
    <3>. QED BY <3>1, <3>2, <3>3 DEF TiposCarpeta
  <2>2. CASE LeeCd
    <3>1. Head(aDatos) \in DOMAIN hist /\ Cmd(Head(aDatos)) = "CD"
      BY <2>2, LeeOrdenHist DEF LeeCd
    <3>2. Directorio' \in Rutas
      BY <2>2, <3>1 DEF LeeCd, TiposHist, Argumentos, Rutas
    <3>. QED BY <2>2, <3>2 DEF LeeCd, TiposCarpeta
  <2>3. CASE Sube
    <3>1. pedido \in DOMAIN hist /\ hist[pedido].arg \in Archivos
      BY <2>3 DEF Sube, DatosEnOrden, TiposHist, Argumentos, ConArchivo
    <3>2. vsk' \subseteq Rutas \X Archivos
      BY <2>3, <3>1 DEF Sube, SubirArchivo, TiposCarpeta
    <3>. QED BY <2>3, <3>2 DEF Sube, TiposCarpeta, carpeta
  <2>4. CASE UNCHANGED <<carpeta, vsk>>
    BY <2>4, CarpetaQuieta
  <2>. QED BY <2>1, <2>2, <2>3, <2>4
       DEF HiloDatos, Select, AceptaPorSelect, LeeTransferencia, AceptaConOrden, LeeSize,
           MandaTamanio, LeeDele, SueltaPrimera, EsperaDatos, Descarga, SueltaSegunda,
           EnvioArchivo
<1>5. TiposComando' /\ ComandoEnOrden'
  BY <1>1, DatosAjeno, ComandoSigue DEF Tipos, TiposComando, comando
<1>6. TiposHilos' /\ DatosEnOrden'
  <2>. USE DEF Tipos
  <2>1. aComando' \in Seq(Unidad)
    <3>1. ASSUME NEW s \in {Cabecera(LargoTexto), Cuerpo(LargoTexto)}, EnviarAlgo(s)
          PROVE  aComando' \in Seq(Unidad)
      BY <3>1, Unidades, EnviarTipo, SesionAssumption DEF TiposHilos
    <3>2. CASE LeeSize \/ MandaTamanio \/ LeeDele \/ LeeCd
      BY <3>1, <3>2 DEF LeeSize, MandaTamanio, LeeDele, LeeCd, TiposHilos
    <3>3. CASE aComando' = aComando
      BY <3>3 DEF TiposHilos
    <3>. QED BY <3>2, <3>3
         DEF HiloDatos, Select, AceptaPorSelect, LeeTransferencia, AceptaConOrden, Lista,
             SueltaPrimera, EsperaDatos, Descarga, Sube, SueltaSegunda, canales
  <2>2. semaforo' \in {0, 1} /\ caido' \in BOOLEAN
    <3>1. CASE LeeSize
      BY <3>1 DEF LeeSize, TiposHilos
    <3>2. CASE Lista
      BY <3>2 DEF Lista, CrearLista, TiposHilos
    <3>3. CASE Descarga
      BY <3>3 DEF Descarga, TiposHilos
    <3>. QED BY <3>1, <3>2, <3>3
         DEF HiloDatos, Select, AceptaPorSelect, LeeTransferencia, AceptaConOrden,
             MandaTamanio, LeeDele, LeeCd, SueltaPrimera, EsperaDatos, Sube,
             SueltaSegunda, Soltar, Esperar, TiposHilos
  <2>3. pcD' \in Pasos /\ DatosEnOrden'
    <3>1. CASE LeeTransferencia
      <4>1. /\ Head(aDatos) \in DOMAIN hist' /\ pedido' = Head(aDatos)
            /\ Cmd(Head(aDatos)) \in Transferencias
            /\ hist'[Head(aDatos)].cmd = hist[Head(aDatos)].cmd
        BY <1>1, <3>1, LeeOrdenHist DEF LeeTransferencia, NotaDatos, Conserva
      <4>2. pcD' \in {"acepta", SigueA[Cmd(Head(aDatos))]}
        BY <3>1 DEF LeeTransferencia
      <4>3. /\ SigueA[Cmd(Head(aDatos))] \in {"lista", "suelta1"}
            /\ SigueA[Cmd(Head(aDatos))] = "lista" => Cmd(Head(aDatos)) = "LS"
            /\ SigueA[Cmd(Head(aDatos))] = "suelta1" => Cmd(Head(aDatos)) \in Fichas
        BY <4>1 DEF SigueA, Clases, Transferencias, Fichas
      <4>. QED BY <4>1, <4>2, <4>3 DEF DatosEnOrden, EnTransferencia, Cmd
    <3>2. CASE LeeSize
      <4>1. /\ Head(aDatos) \in DOMAIN hist' /\ pedido' = Head(aDatos)
            /\ Cmd(Head(aDatos)) = "SIZE" /\ pcD = "select"
            /\ hist'[Head(aDatos)].cmd = hist[Head(aDatos)].cmd
        BY <1>1, <3>2, LeeOrdenHist DEF LeeSize, NotaDatos, Conserva
      <4>. QED BY <3>2, <4>1 DEF LeeSize, DatosEnOrden, EnTransferencia, Cmd
    <3>3. CASE AceptaConOrden
      <4>1. /\ pedido \in DOMAIN hist /\ Cmd(pedido) \in Transferencias
            /\ pedido' = pedido /\ pcD' = SigueA[Cmd(pedido)]
            /\ hist'[pedido].cmd = hist[pedido].cmd /\ pedido \in DOMAIN hist'
        BY <1>1, <3>3 DEF AceptaConOrden, DatosEnOrden, Conserva
      <4>2. /\ pcD' \in {"lista", "suelta1"}
            /\ pcD' = "lista" => Cmd(pedido) = "LS"
            /\ pcD' = "suelta1" => Cmd(pedido) \in Fichas
        BY <4>1 DEF SigueA, Clases, Transferencias, Fichas
      <4>. QED BY <4>1, <4>2 DEF DatosEnOrden, EnTransferencia, Cmd
    <3>4. CASE SueltaPrimera \/ EsperaDatos \/ Descarga \/ Sube
      <4>1. /\ pedido \in DOMAIN hist /\ Cmd(pedido) \in Fichas /\ pedido' = pedido
            /\ pcD' \in EnTransferencia
        BY <3>4 DEF SueltaPrimera, EsperaDatos, Descarga, Sube, DatosEnOrden,
                    EnTransferencia
      <4>2. hist'[pedido].cmd = hist[pedido].cmd /\ pedido \in DOMAIN hist'
        BY <1>1, <4>1 DEF Conserva
      <4>. QED BY <4>1, <4>2 DEF DatosEnOrden, EnTransferencia, Cmd
    <3>5. CASE pcD' = "select"
      BY <3>5 DEF DatosEnOrden, EnTransferencia
    <3>. QED BY <3>1, <3>2, <3>3, <3>4, <3>5
         DEF HiloDatos, Select, AceptaPorSelect, Lista, MandaTamanio, LeeDele, LeeCd,
             LeeOrden, SueltaSegunda
  <2>. QED BY <2>1, <2>2, <2>3 DEF TiposHilos
<1>. QED BY <1>2, <1>3, <1>4, <1>5, <1>6 DEF Tipos
-----------------------------------------------------------------------------
\* A step that changes nothing keeps everything.
LEMMA TiposQuietos ==
    ASSUME Tipos, UNCHANGED vars
    PROVE  Tipos'
<1>. USE DEF vars, cliente, comando, conexion, carpeta, canales
<1>1. Conserva
  BY HistIgual DEF Tipos
<1>2. TiposHist' /\ ComandoEnOrden' /\ DatosEnOrden'
  BY <1>1, HistSigue, ComandoSigue, DatosSigue DEF Tipos
<1>3. TiposConexion' /\ TiposCarpeta' /\ TiposComando' /\ TiposHilos' /\ ListosCiertos'
  BY DEF Tipos, TiposConexion, TiposCarpeta, TiposComando, TiposHilos, ListosCiertos
<1>. QED BY <1>2, <1>3 DEF Tipos

LEMMA TiposPaso ==
    ASSUME Tipos, [Next]_vars
    PROVE  Tipos'
  BY ClienteTipos, ComandoTipos, DatosTipos, TiposQuietos DEF Next

\* Every variable of a session keeps its type, whatever the client sends: no
\* thread waits, accepts or answers for an order that was not sent.
THEOREM TiposFtp == Spec => []TypeOK
<1>1. Init => Tipos
  BY TiposInit
<1>2. Tipos /\ [Next]_vars => Tipos'
  BY TiposPaso
<1>. QED BY <1>1, <1>2, TiposTypeOK, PTL DEF Spec

-----------------------------------------------------------------------------
(* The semaphore protocol: where the two threads may be, with the semaphore *)
(* and the orders on the way between them.                                  *)

SinFichas == \A i \in 1..Len(aDatos) : Cmd(aDatos[i]) \notin Fichas

\* The order that hiloComando announces is the last one on its way.
UltimaFicha ==
    /\ Len(aDatos) > 0 /\ aDatos[Len(aDatos)] = orden
    /\ \A i \in 1..(Len(aDatos) - 1) : Cmd(aDatos[i]) \notin Fichas

DatosLibre ==
    /\ pcD \notin EnTransferencia
    /\ ~(pcD = "acepta" /\ Cmd(pedido) \in Fichas)

\* No transfer.
Reposo == pcC \notin EnAviso /\ semaforo = 0 /\ DatosLibre /\ SinFichas

\* hiloComando confirmed with the signal it had given: hiloDatos has none to take.
Trabado ==
    /\ pcC \notin {"suelta", "espera226"} /\ semaforo = 0 /\ pcD = "espera1"
    /\ "226" \in hist[pedido].resp

Pedida == pcC = "espera150" /\ semaforo = 0 /\ DatosLibre /\ UltimaFicha

Aceptando ==
    /\ pcC = "espera150" /\ semaforo = 0 /\ pcD = "acepta"
    /\ pedido = orden /\ SinFichas

\* hiloComando waits for a signal that is given, or is about to give one.
Alterna ==
    \/ pcC = "espera150" /\ semaforo = 1
    \/ pcC = "suelta" /\ semaforo = 0
    \/ pcC = "espera226" /\ semaforo = 1

EnCurso ==
    /\ pcC \in EnAviso /\ hist[orden].con # 0 /\ SinFichas
    /\ \/ pedido = orden /\ pcD = "suelta1" /\ pcC = "espera150" /\ semaforo = 0
       \/ pedido = orden /\ pcD = "espera1" /\ Alterna
       \/ /\ pedido = orden /\ pcD \in {"transfiere", "suelta2"} /\ semaforo = 0
          /\ pcC \in {"espera150", "espera226"}
       \/ DatosLibre /\ Alterna

Ritmo == Reposo \/ Trabado \/ Pedida \/ Aceptando \/ EnCurso

\* What is written of an order at each point.
BanderaCierta == iBandera = 1 => socketClienteFTP # 0

EntradaNueva ==
    \A i \in 1..Len(entrada) : entrada[i] > orden /\ hist[entrada[i]].resp = {}

SinConfirmar == pcC \in EnAviso => "226" \notin hist[orden].resp

Marcas == BanderaCierta /\ AvisoConConexion /\ EntradaNueva /\ SinConfirmar

IInv == Tipos /\ Ritmo /\ Marcas

LEMMA IInvInit ==
    ASSUME Init
    PROVE  IInv
<1>1. Tipos
  BY TiposInit
<1>2. Reposo
  BY EmptySeq DEF Init, Reposo, EnAviso, DatosLibre, EnTransferencia, SinFichas,
                  SemaforoInicial
<1>3. Marcas
  BY EmptySeq DEF Init, Marcas, BanderaCierta, AvisoConConexion, EntradaNueva,
                  SinConfirmar, EnAviso
<1>. QED BY <1>1, <1>2, <1>3 DEF IInv, Ritmo

\* A connection given to an order stays.
ConQueda == \A m \in DOMAIN hist : hist[m].con # 0 => hist'[m].con # 0

\* The orders on their way keep their kind, and a queue that is left alone, read
\* or added to keeps its form.
LEMMA EnCamino ==
    ASSUME TiposHist, Conserva
    PROVE  /\ Len(aDatos) \in Nat
           /\ \A i \in 1..Len(aDatos) :
                /\ aDatos[i] \in DOMAIN hist
                /\ hist'[aDatos[i]].cmd = hist[aDatos[i]].cmd
  BY ElementOfSeq, LenProperties DEF TiposHist, Conserva

LEMMA ColaIgual ==
    ASSUME TiposHist, Conserva, aDatos' = aDatos
    PROVE  /\ SinFichas => SinFichas'
           /\ UltimaFicha /\ orden' = orden => UltimaFicha'
  BY EnCamino DEF SinFichas, UltimaFicha, Cmd

LEMMA ColaLeida ==
    ASSUME TiposHist, Conserva, aDatos # <<>>, aDatos' = Tail(aDatos)
    PROVE  /\ SinFichas => Cmd(Head(aDatos)) \notin Fichas /\ SinFichas'
           /\ UltimaFicha /\ orden' = orden =>
                \/ Head(aDatos) = orden /\ SinFichas'
                \/ Cmd(Head(aDatos)) \notin Fichas /\ UltimaFicha'
<1>1. /\ Len(aDatos) \in Nat /\ Len(aDatos) > 0 /\ Len(aDatos') = Len(aDatos) - 1
      /\ \A i \in 1..Len(aDatos') : aDatos'[i] = aDatos[i + 1]
      /\ Head(aDatos) = aDatos[1]
  BY HeadTailProperties, EmptySeq, LenProperties DEF TiposHist
<1>2. \A i \in 1..Len(aDatos) : hist'[aDatos[i]].cmd = hist[aDatos[i]].cmd
  BY EnCamino
<1>3. SinFichas => Cmd(Head(aDatos)) \notin Fichas /\ SinFichas'
  BY <1>1, <1>2 DEF SinFichas, Cmd
<1>4. ASSUME UltimaFicha, orden' = orden
      PROVE  \/ Head(aDatos) = orden /\ SinFichas'
             \/ Cmd(Head(aDatos)) \notin Fichas /\ UltimaFicha'
  <2>1. CASE Len(aDatos) = 1
    <3>1. Head(aDatos) = orden
      BY <1>1, <1>4, <2>1 DEF UltimaFicha
    <3>2. Len(aDatos') = 0
      BY <1>1, <2>1
    <3>3. ASSUME NEW i \in 1..Len(aDatos')
          PROVE  hist'[aDatos'[i]].cmd \notin Fichas
      <4>1. i \in Int /\ 1 <= i /\ i <= 0
        BY <3>2
      <4>. QED BY <4>1
    <3>. QED BY <3>1, <3>3 DEF SinFichas, Cmd
  <2>2. CASE Len(aDatos) > 1
    <3>1. Cmd(Head(aDatos)) \notin Fichas
      BY <1>1, <1>4, <2>2 DEF UltimaFicha
    <3>2. Len(aDatos') > 0 /\ aDatos'[Len(aDatos')] = orden'
      BY <1>1, <1>4, <2>2 DEF UltimaFicha
    <3>3. ASSUME NEW i \in 1..(Len(aDatos') - 1)
          PROVE  hist'[aDatos'[i]].cmd \notin Fichas
      <4>1. i + 1 \in 1..(Len(aDatos) - 1) /\ i + 1 \in 1..Len(aDatos)
            /\ aDatos'[i] = aDatos[i + 1]
        BY <1>1, <3>3
      <4>. QED BY <1>2, <1>4, <4>1 DEF UltimaFicha, Cmd
    <3>. QED BY <3>1, <3>2, <3>3 DEF UltimaFicha, Cmd
  <2>. QED BY <1>1, <2>1, <2>2
<1>. QED BY <1>3, <1>4

LEMMA ColaCrece ==
    ASSUME TiposHist, Conserva, NEW x \in DOMAIN hist, aDatos' = Append(aDatos, x)
    PROVE  /\ SinFichas /\ Cmd(x) \notin Fichas => SinFichas'
           /\ SinFichas /\ orden' = x => UltimaFicha'
<1>1. /\ Len(aDatos) \in Nat /\ Len(aDatos') = Len(aDatos) + 1
      /\ \A i \in 1..Len(aDatos) : aDatos'[i] = aDatos[i]
      /\ aDatos'[Len(aDatos) + 1] = x
  BY AppendProperties, LenProperties DEF TiposHist
<1>2. \A i \in 1..Len(aDatos) : hist'[aDatos[i]].cmd = hist[aDatos[i]].cmd
  BY EnCamino
<1>3. hist'[x].cmd = hist[x].cmd
  BY DEF Conserva
<1>. QED BY <1>1, <1>2, <1>3 DEF SinFichas, UltimaFicha, Cmd

LEMMA LibreIgual ==
    ASSUME Tipos, Conserva, UNCHANGED <<pcD, pedido>>
    PROVE  DatosLibre => DatosLibre'
<1>1. pcD # "select" => hist'[pedido].cmd = hist[pedido].cmd
  BY DEF Tipos, DatosEnOrden, Conserva
<1>. QED BY <1>1 DEF DatosLibre, Cmd

\* Steps that move neither thread nor the signals.
LEMMA RitmoSigue ==
    ASSUME Tipos, Ritmo, Conserva, ConQueda,
           UNCHANGED <<pcC, orden, pcD, pedido, aDatos, semaforo>>
    PROVE  Ritmo'
<1>1. /\ DatosLibre => DatosLibre'
      /\ SinFichas => SinFichas'
      /\ UltimaFicha => UltimaFicha'
  BY LibreIgual, ColaIgual DEF Tipos
<1>2. pcC \in EnAviso /\ hist[orden].con # 0 => hist'[orden].con # 0
  BY DEF Tipos, ComandoEnOrden, EnAviso, ConQueda
<1>3. pcD = "espera1" /\ "226" \in hist[pedido].resp => "226" \in hist'[pedido].resp
  BY DEF Tipos, DatosEnOrden, Conserva
<1>. QED BY <1>1, <1>2, <1>3
         DEF Ritmo, Reposo, Trabado, Pedida, Aceptando, EnCurso, Alterna

LEMMA RitmoCliente ==
    ASSUME Tipos, Ritmo, Cliente
    PROVE  Ritmo'
<1>1. ConQueda
  <2>1. CASE EnviarOrden
    BY <2>1, ElegirOrden, EnviarTipos DEF ConQueda
  <2>2. CASE hist' = hist
    BY <2>2 DEF ConQueda
  <2>. QED BY <2>1, <2>2 DEF Cliente, Cortar, ConectarDatos
<1>. QED BY <1>1, ClienteTipos, ClienteAjeno, RitmoSigue DEF comando, canales

\* What the steps that take an order send to hiloDatos.
LEMMA RecibeEnvia ==
    ASSUME Tipos, RecibeSimple \/ RecibePwd \/ RecibeLs \/ RecibeCd \/ RecibeConArchivo
    PROVE  /\ pcC = "select"
           /\ pcC' \in {"select", "sizeRecv", "deleCabecera", "espera150"}
           /\ UNCHANGED <<pcD, pedido, semaforo>>
           /\ pcC' = "espera150" => AlHiloDatos /\ orden' = PrimeraOrden
           /\ pcC' # "espera150" => \/ aDatos' = aDatos
                                    \/ AlHiloDatos /\ Cmd(PrimeraOrden) \notin Fichas
<1>1. CASE RecibeConArchivo
  <2>1. /\ Cmd(PrimeraOrden) \in ConArchivo /\ AlHiloDatos /\ pcC = "select"
        /\ pcC' = EsperaDe[Cmd(PrimeraOrden)] /\ orden' = PrimeraOrden
    BY <1>1 DEF RecibeConArchivo, Recibe
  <2>2. /\ pcC' \in {"sizeRecv", "deleCabecera", "espera150"}
        /\ pcC' # "espera150" => Cmd(PrimeraOrden) \notin Fichas
    BY <2>1 DEF EsperaDe, ConArchivo, Fichas
  <2>. QED BY <1>1, <2>1, <2>2 DEF RecibeConArchivo
<1>2. CASE RecibeLs \/ RecibeCd
  BY <1>2 DEF RecibeLs, RecibeCd, Recibe, Fichas
<1>3. CASE RecibeSimple \/ RecibePwd
  BY <1>3 DEF RecibeSimple, RecibePwd, Recibe, canales
<1>. QED BY <1>1, <1>2, <1>3

LEMMA RitmoComando ==
    ASSUME Tipos, Ritmo, HiloComando
    PROVE  Ritmo'
<1>. USE DEF EnAviso
<1>1. Conserva /\ Tipos' /\ UNCHANGED <<pcD, pedido>>
  BY ComandoTipos, ComandoAjeno
<1>2. /\ DatosLibre => DatosLibre'
      /\ aDatos' = aDatos => (SinFichas => SinFichas')
  BY <1>1, LibreIgual, ColaIgual DEF Tipos
<1>3. ASSUME Trabado, semaforo' = semaforo, pcC' \notin {"suelta", "espera226"}
      PROVE  Ritmo'
  <2>1. "226" \in hist'[pedido].resp
    BY <1>1, <1>3 DEF Trabado, Tipos, DatosEnOrden, Conserva
  <2>. QED BY <1>1, <1>3, <2>1 DEF Trabado, Ritmo
<1>4. CASE RecibeSimple \/ RecibePwd \/ RecibeLs \/ RecibeCd \/ RecibeConArchivo
  <2>1. /\ pcC = "select"
        /\ pcC' \in {"select", "sizeRecv", "deleCabecera", "espera150"}
        /\ semaforo' = semaforo
        /\ pcC' = "espera150" => AlHiloDatos /\ orden' = PrimeraOrden
        /\ pcC' # "espera150" => \/ aDatos' = aDatos
                                 \/ AlHiloDatos /\ Cmd(PrimeraOrden) \notin Fichas
    BY <1>4, RecibeEnvia
  <2>2. CASE Trabado
    BY <1>3, <2>1, <2>2
  <2>3. CASE Reposo
    <3>1. PrimeraOrden \in DOMAIN hist
      BY <1>4, RecibeHist
    <3>2. CASE pcC' = "espera150"
      <4>1. UltimaFicha'
        BY <1>1, <2>1, <2>3, <3>1, <3>2, ColaCrece DEF AlHiloDatos, Reposo, Tipos
      <4>. QED BY <1>2, <2>1, <2>3, <3>2, <4>1 DEF Reposo, Pedida, Ritmo
    <3>3. CASE pcC' # "espera150"
      <4>1. SinFichas'
        BY <1>1, <1>2, <2>1, <2>3, <3>1, <3>3, ColaCrece DEF AlHiloDatos, Reposo, Tipos
      <4>. QED BY <1>2, <2>1, <2>3, <3>3, <4>1 DEF Reposo, Ritmo
    <3>. QED BY <3>2, <3>3
  <2>. QED BY <2>1, <2>2, <2>3 DEF Ritmo, Pedida, Aceptando, EnCurso, Alterna
<1>5. CASE RecibeFin \/ SizeRecv \/ SizeCabecera \/ SizeCuerpo \/ DeleCabecera
  <2>1. /\ pcC \notin EnAviso /\ pcC' \notin EnAviso
        /\ semaforo' = semaforo /\ aDatos' = aDatos
    BY <1>5 DEF RecibeFin, SizeRecv, SizeCabecera, SizeCuerpo, DeleCabecera, RecibirH,
                canales
  <2>2. CASE Trabado
    BY <1>3, <2>1, <2>2
  <2>3. CASE Reposo
    BY <1>2, <2>1, <2>3 DEF Reposo, Ritmo
  <2>. QED BY <2>1, <2>2, <2>3 DEF Ritmo, Pedida, Aceptando, EnCurso
<1>6. CASE Espera150 \/ SueltaComando
  <2>1. /\ aDatos' = aDatos /\ orden' = orden
        /\ \/ pcC = "espera150" /\ semaforo = 1 /\ pcC' = "suelta" /\ semaforo' = 0
           \/ pcC = "suelta" /\ pcC' = "espera226" /\ semaforo' = 1
    BY <1>6 DEF Espera150, SueltaComando, Esperar, Soltar, canales
  <2>2. EnCurso
    BY <2>1 DEF Ritmo, Reposo, Trabado, Pedida, Aceptando
  <2>3. hist'[orden].con = hist[orden].con
    <3>1. CASE SueltaComando
      BY <3>1 DEF SueltaComando, cliente
    <3>2. CASE Espera150
      BY <3>2, SigueHist DEF Espera150, Codigos
    <3>. QED BY <1>6, <3>1, <3>2
  <2>. QED BY <1>1, <1>2, <2>1, <2>2, <2>3 DEF EnCurso, Alterna, Ritmo
<1>7. CASE Espera226
  <2>1. /\ aDatos' = aDatos /\ pcC = "espera226" /\ semaforo = 1 /\ pcC' = "select"
        /\ semaforo' = 0
    BY <1>7 DEF Espera226, Esperar, canales
  <2>2. EnCurso
    BY <2>1 DEF Ritmo, Reposo, Trabado, Pedida, Aceptando
  <2>3. "226" \in hist'[orden].resp
    BY <1>7, SigueHist DEF Espera226, Codigos
  <2>4. CASE DatosLibre
    BY <1>2, <2>1, <2>2, <2>4 DEF EnCurso, Reposo, Ritmo
  <2>5. CASE pedido = orden /\ pcD = "espera1"
    BY <1>1, <2>1, <2>3, <2>5 DEF Trabado, Ritmo
  <2>. QED BY <2>1, <2>2, <2>4, <2>5 DEF EnCurso
<1>. QED BY <1>4, <1>5, <1>6, <1>7 DEF HiloComando

LEMMA BanderaSigue ==
    ASSUME Tipos, BanderaCierta, HiloDatos
    PROVE  BanderaCierta'
<1>1. CASE AceptaPorSelect \/ AceptaConOrden
  <2>1. pendientes # <<>> /\ Aceptar
    BY <1>1 DEF AceptaPorSelect, AceptaConOrden, Tipos, ListosCiertos
  <2>2. socketClienteFTP' \in 1..MaxOrdenes
    BY <2>1, AceptarTipo DEF Tipos
  <2>. QED BY <2>2, SesionAssumption DEF BanderaCierta
<1>2. CASE iBandera' = 0
  BY <1>2 DEF BanderaCierta
<1>3. CASE UNCHANGED <<iBandera, socketClienteFTP>>
  BY <1>3 DEF BanderaCierta
<1>. QED BY <1>1, <1>2, <1>3
     DEF HiloDatos, Select, LeeTransferencia, Lista, LeeSize, MandaTamanio, LeeDele, LeeCd,
         SueltaPrimera, EsperaDatos, Descarga, Sube, SueltaSegunda, conexion

LEMMA RitmoDatos ==
    ASSUME Tipos, Ritmo, BanderaCierta, HiloDatos
    PROVE  Ritmo'
<1>1. /\ NotaDatos /\ Conserva /\ Tipos' /\ UNCHANGED <<pcC, orden>>
  BY DatosHist, DatosTipos, DatosAjeno DEF NotaDatos, comando
<1>2. BanderaCierta'
  BY BanderaSigue
<1>3. ConQueda
  BY <1>1, <1>2, SesionAssumption DEF NotaDatos, BanderaCierta, ConQueda
<1>4. /\ aDatos' = aDatos => (SinFichas => SinFichas') /\ (UltimaFicha => UltimaFicha')
      /\ pcC \in EnAviso /\ hist[orden].con # 0 => hist'[orden].con # 0
  BY <1>1, <1>3, ColaIgual DEF Tipos, ConQueda, ComandoEnOrden, EnAviso
\* hiloDatos does something else.
<1>5. ASSUME DatosLibre, DatosLibre', aDatos' = aDatos, semaforo' = semaforo
      PROVE  Ritmo'
  <2>1. Reposo \/ Pedida \/ (EnCurso /\ Alterna)
    BY <1>5 DEF Ritmo, Trabado, Aceptando, EnCurso, DatosLibre, EnTransferencia,
                Tipos, ComandoEnOrden, EnAviso
  <2>. QED BY <1>1, <1>4, <1>5, <2>1
           DEF Ritmo, Reposo, Pedida, EnCurso, Alterna
<1>6. CASE Select \/ AceptaPorSelect \/ Lista \/ MandaTamanio
  BY <1>5, <1>6
     DEF Select, AceptaPorSelect, Lista, MandaTamanio, DatosLibre, EnTransferencia,
         canales
\* hiloDatos takes an order that is not a transfer with the semaphore.
<1>7. ASSUME Lecturas, DatosLibre', Cmd(Head(aDatos)) \notin Fichas
      PROVE  Ritmo'
  <2>1. /\ DatosLibre /\ semaforo' = semaforo
        /\ aDatos # <<>> /\ aDatos' = Tail(aDatos)
    BY <1>7, LecturasHist DEF DatosLibre, EnTransferencia
  <2>2. Reposo \/ Pedida \/ (EnCurso /\ Alterna)
    BY <2>1 DEF Ritmo, Trabado, Aceptando, EnCurso, DatosLibre, EnTransferencia,
                Tipos, ComandoEnOrden, EnAviso
  <2>3. /\ SinFichas => SinFichas'
        /\ Pedida => UltimaFicha'
    BY <1>1, <1>7, <2>1, ColaLeida DEF Tipos, Pedida, ComandoEnOrden, EnAviso
  <2>. QED BY <1>1, <1>4, <1>7, <2>1, <2>2, <2>3
           DEF Ritmo, Reposo, Pedida, EnCurso, Alterna
<1>8. CASE LeeSize \/ LeeDele \/ LeeCd
  <2>1. Lecturas /\ Cmd(Head(aDatos)) \notin Fichas /\ pcD = "select"
    BY <1>8, LeeOrdenHist DEF Lecturas, LeeSize, LeeDele, LeeCd, Fichas
  <2>2. pcD' \in {"select", "sizeCuerpo"}
    BY <1>8, <2>1 DEF LeeSize, LeeDele, LeeCd
  <2>. QED BY <1>7, <2>1, <2>2 DEF DatosLibre, EnTransferencia
<1>9. CASE LeeTransferencia
  <2>1. /\ Lecturas /\ Cmd(Head(aDatos)) \in Transferencias /\ pedido' = Head(aDatos)
        /\ Head(aDatos) \in DOMAIN hist /\ pcD = "select" /\ aDatos # <<>>
        /\ aDatos' = Tail(aDatos) /\ semaforo' = semaforo
        /\ hist'[Head(aDatos)].cmd = hist[Head(aDatos)].cmd
    BY <1>1, <1>9, LeeOrdenHist, LecturasHist DEF Lecturas, LeeTransferencia, Conserva
  <2>2. CASE Cmd(Head(aDatos)) = "LS"
    <3>1. pcD' \in {"acepta", "lista"}
      BY <1>9, <2>2 DEF LeeTransferencia, SigueA, Clases, Transferencias
    <3>2. DatosLibre'
      BY <2>1, <2>2, <3>1 DEF DatosLibre, EnTransferencia, Cmd, Fichas
    <3>. QED BY <1>7, <2>1, <2>2, <3>2 DEF Fichas
  <2>3. CASE Cmd(Head(aDatos)) \in Fichas
    <3>1. ~SinFichas /\ (UltimaFicha => Head(aDatos) = orden /\ SinFichas')
      BY <1>1, <2>1, <2>3, ColaLeida DEF Tipos
    <3>2. Pedida
      BY <2>1, <3>1 DEF Ritmo, Reposo, Trabado, Aceptando, EnCurso
    <3>3. pedido' = orden' /\ SinFichas' /\ pcC' = "espera150" /\ semaforo' = 0
      BY <1>1, <2>1, <3>1, <3>2 DEF Pedida
    <3>4. CASE iBandera = 0
      <4>1. pcD' = "acepta"
        BY <1>9, <3>4 DEF LeeTransferencia
      <4>. QED BY <3>3, <4>1 DEF Aceptando, Ritmo
    <3>5. CASE iBandera # 0
      <4>1. pcD' = "suelta1"
        BY <1>9, <2>3, <3>5 DEF LeeTransferencia, SigueA, Clases, Transferencias, Fichas
      <4>2. socketClienteFTP # 0 /\ socketClienteFTP \in 0..MaxOrdenes
        BY <3>5, SesionAssumption DEF BanderaCierta, Tipos, TiposConexion
      <4>3. hist' = [hist EXCEPT ![orden].con = socketClienteFTP] /\ orden \in DOMAIN hist
        BY <1>9, <2>1, <3>1, <3>2, <3>5 DEF LeeTransferencia, Pedida
      <4>4. hist'[orden].con # 0
        BY <4>2, <4>3, ConConserva DEF Tipos, TiposHist
      <4>. QED BY <1>1, <3>3, <4>1, <4>4 DEF EnCurso, EnAviso, Ritmo
    <3>. QED BY <3>4, <3>5
  <2>. QED BY <2>1, <2>2, <2>3 DEF Transferencias, Fichas
<1>10. CASE AceptaConOrden
  <2>1. /\ pcD = "acepta" /\ pendientes # <<>> /\ Aceptar
        /\ UNCHANGED <<pedido, aDatos, semaforo>>
        /\ pcD' = SigueA[Cmd(pedido)] /\ pedido \in DOMAIN hist
        /\ Cmd(pedido) \in Transferencias
        /\ hist' = [hist EXCEPT ![pedido].con = Head(pendientes)]
    BY <1>10 DEF AceptaConOrden, canales, Tipos, DatosEnOrden
  <2>2. CASE Cmd(pedido) = "LS"
    <3>1. pcD' = "lista"
      BY <2>1, <2>2 DEF SigueA, Clases, Transferencias
    <3>. QED BY <1>5, <2>1, <2>2, <3>1 DEF DatosLibre, EnTransferencia, Fichas
  <2>3. CASE Cmd(pedido) \in Fichas
    <3>1. pcD' = "suelta1"
      BY <2>1, <2>3 DEF SigueA, Clases, Transferencias, Fichas
    <3>2. Aceptando
      BY <2>1, <2>3 DEF Ritmo, Reposo, Trabado, Pedida, EnCurso, DatosLibre
    <3>3. Head(pendientes) \in 1..MaxOrdenes
      BY <2>1, AceptarTipo DEF Tipos
    <3>4. Head(pendientes) \in 0..MaxOrdenes /\ Head(pendientes) # 0
      BY <3>3, SesionAssumption
    <3>5. hist'[pedido].con = Head(pendientes)
      BY <2>1, <3>4, ConConserva DEF Tipos, TiposHist
    <3>. QED BY <1>1, <1>4, <2>1, <3>1, <3>2, <3>4, <3>5
             DEF Aceptando, EnCurso, EnAviso, Ritmo
  <2>. QED BY <2>1, <2>2, <2>3 DEF Transferencias, Fichas
\* hiloDatos in a transfer.
<1>11. CASE SueltaPrimera \/ EsperaDatos \/ Descarga \/ Sube \/ SueltaSegunda
  <2>1. /\ UNCHANGED <<pedido, aDatos>>
        /\ \/ pcD = "suelta1" /\ pcD' = "espera1" /\ semaforo' = 1
           \/ pcD = "espera1" /\ pcD' = "transfiere" /\ semaforo = 1 /\ semaforo' = 0
           \/ pcD = "transfiere" /\ pcD' = "suelta2" /\ semaforo' = semaforo
           \/ pcD = "suelta2" /\ pcD' = "select" /\ semaforo' = 1
    BY <1>11 DEF SueltaPrimera, EsperaDatos, Descarga, Sube, SueltaSegunda, Soltar,
                 Esperar, canales
  <2>2. EnCurso /\ pedido = orden /\ pcC \in EnAviso
    BY <2>1 DEF Ritmo, Reposo, Trabado, Pedida, Aceptando, EnCurso, DatosLibre,
                EnTransferencia
  <2>3. SinFichas' /\ hist'[orden].con # 0
    BY <1>4, <2>1, <2>2 DEF EnCurso
  <2>4. pcD' = "select" => DatosLibre'
    BY DEF DatosLibre, EnTransferencia
  <2>. QED BY <1>1, <2>1, <2>2, <2>3, <2>4
           DEF EnCurso, Alterna, EnAviso, Ritmo, DatosLibre, EnTransferencia
<1>. QED BY <1>6, <1>8, <1>9, <1>10, <1>11 DEF HiloDatos

-----------------------------------------------------------------------------
(* What is written of an order: answers, connection and end.               *)

\* hiloComando neither gives a connection nor marks an order done, and answers
\* 150 with the signal only.
NotaComando ==
    /\ DOMAIN hist' = DOMAIN hist
    /\ \A m \in DOMAIN hist :
         /\ hist'[m].con = hist[m].con /\ hist'[m].hecho = hist[m].hecho
         /\ "150" \in hist'[m].resp =>
              "150" \in hist[m].resp \/ (m = orden /\ pcC = "espera150" /\ semaforo = 1)

\* It touches the order it takes, which was the next in entrada, or the one it
\* attends.
EntradaTomada ==
    /\ entrada # <<>> /\ entrada' = <<>> /\ orden' = Head(entrada)
    /\ "226" \in hist'[orden'].resp => "226" \in hist[orden'].resp

EntradaIgual ==
    /\ UNCHANGED <<entrada, orden>>
    /\ \A m \in DOMAIN hist : m # orden => hist'[m].resp = hist[m].resp
    /\ pcC' \in EnAviso =>
         /\ pcC \in EnAviso
         /\ "226" \in hist'[orden].resp => "226" \in hist[orden].resp

LEMMA ComandoHist ==
    ASSUME Tipos, HiloComando
    PROVE  NotaComando /\ (EntradaTomada \/ EntradaIgual)
<1>1. CASE RecibeSimple \/ RecibePwd \/ RecibeLs \/ RecibeCd \/ RecibeConArchivo
  BY <1>1, RecibeHist DEF NotaComando, EntradaTomada, Solo, PrimeraOrden
<1>2. CASE RecibeFin \/ SizeRecv \/ SizeCabecera \/ SueltaComando
  BY <1>2 DEF RecibeFin, SizeRecv, SizeCabecera, SueltaComando, RecibirH, cliente,
              NotaComando, EntradaIgual, EnAviso
<1>3. CASE SizeCuerpo \/ DeleCabecera \/ Espera226
  <2>1. PICK c \in Codigos : c # "150" /\ hist' = Responder(orden, {c})
    BY <1>3 DEF SizeCuerpo, DeleCabecera, Espera226, Codigos
  <2>2. /\ pcC \notin {"select", "sin cliente"} /\ pcC' = "select"
        /\ UNCHANGED <<entrada, orden>>
    BY <1>3 DEF SizeCuerpo, DeleCabecera, Espera226, RecibirH
  <2>3. /\ Solo(orden) /\ orden \in DOMAIN hist /\ hist'[orden].con = hist[orden].con
        /\ hist'[orden].hecho = hist[orden].hecho
        /\ hist'[orden].resp = hist[orden].resp \union {c}
    BY <2>1, <2>2, SigueHist
  <2>. QED BY <2>1, <2>2, <2>3 DEF NotaComando, EntradaIgual, Solo, EnAviso
<1>4. CASE Espera150
  <2>1. /\ "150" \in Codigos /\ hist' = Responder(orden, {"150"})
        /\ pcC = "espera150" /\ semaforo = 1
        /\ UNCHANGED <<entrada, orden>>
    BY <1>4 DEF Espera150, Esperar, Codigos
  <2>. QED BY <2>1, SigueHist DEF NotaComando, EntradaIgual, Solo, EnAviso
<1>. QED BY <1>1, <1>2, <1>3, <1>4 DEF HiloComando

LEMMA MarcasCliente ==
    ASSUME Tipos, Marcas, Cliente
    PROVE  Marcas'
<1>. USE DEF Marcas
<1>1. UNCHANGED <<pcC, orden, iBandera, socketClienteFTP>>
  BY ClienteAjeno DEF comando
<1>2. CASE hist' = hist /\ entrada' = entrada
  BY <1>1, <1>2 DEF BanderaCierta, AvisoConConexion, EntradaNueva, SinConfirmar
<1>3. CASE EnviarOrden
  <2>1. /\ Len(hist') = Len(hist) + 1 /\ Len(hist) \in Nat
        /\ DOMAIN hist' = DOMAIN hist \union {Len(hist) + 1}
        /\ \A m \in DOMAIN hist : hist'[m] = hist[m]
        /\ hist'[Len(hist) + 1].resp = {}
        /\ entrada' = Append(entrada, Len(hist) + 1)
    BY <1>3, ElegirOrden, EnviarTipos
  <2>2. /\ Len(entrada) \in Nat /\ Len(entrada') = Len(entrada) + 1
        /\ \A i \in 1..Len(entrada) :
             entrada'[i] = entrada[i] /\ entrada[i] \in DOMAIN hist
        /\ entrada'[Len(entrada) + 1] = Len(hist) + 1
    BY <2>1, AppendProperties, LenProperties, ElementOfSeq DEF Tipos, TiposHist
  <2>3. orden \in 0..Len(hist)
    BY <2>1, LenProperties DEF Tipos, TiposHist
  <2>4. EntradaNueva'
    <3>. SUFFICES ASSUME NEW i \in 1..Len(entrada')
                  PROVE  entrada'[i] > orden /\ hist'[entrada'[i]].resp = {}
      BY <1>1 DEF EntradaNueva
    <3>1. CASE i \in 1..Len(entrada)
      BY <2>1, <2>2, <3>1 DEF EntradaNueva
    <3>2. CASE i = Len(entrada) + 1
      BY <2>1, <2>2, <2>3, <3>2
    <3>. QED BY <2>2, <3>1, <3>2
  <2>5. AvisoConConexion'
    BY <2>1 DEF AvisoConConexion
  <2>6. SinConfirmar' /\ BanderaCierta'
    BY <1>1, <2>1 DEF SinConfirmar, BanderaCierta, Tipos, ComandoEnOrden, EnAviso
  <2>. QED BY <2>4, <2>5, <2>6
<1>. QED BY <1>2, <1>3 DEF Cliente, Cortar, ConectarDatos

LEMMA MarcasComando ==
    ASSUME Tipos, Ritmo, Marcas, HiloComando
    PROVE  Marcas'
<1>. USE DEF Marcas
<1>1. /\ NotaComando /\ (EntradaTomada \/ EntradaIgual)
      /\ UNCHANGED <<iBandera, socketClienteFTP>>
  BY ComandoHist, ComandoAjeno DEF conexion
<1>2. pcC = "espera150" /\ semaforo = 1 => hist[orden].con # 0
  BY DEF Ritmo, Reposo, Trabado, Pedida, Aceptando, EnCurso, EnAviso
<1>3. BanderaCierta' /\ AvisoConConexion'
  BY <1>1, <1>2 DEF BanderaCierta, AvisoConConexion, NotaComando
<1>4. CASE EntradaTomada
  <2>1. entrada' = <<>> /\ orden' = entrada[1] /\ 1 \in 1..Len(entrada)
    BY <1>4, HeadTailProperties, EmptySeq, LenProperties
       DEF EntradaTomada, Tipos, TiposHist
  <2>2. EntradaNueva'
    BY <2>1, EmptySeq DEF EntradaNueva
  <2>3. SinConfirmar'
    BY <1>4, <2>1 DEF EntradaTomada, EntradaNueva, SinConfirmar
  <2>. QED BY <1>3, <2>2, <2>3
<1>5. CASE EntradaIgual
  <2>1. \A i \in 1..Len(entrada) : entrada[i] \in DOMAIN hist /\ DOMAIN hist \subseteq Nat
    BY ElementOfSeq, LenProperties DEF Tipos, TiposHist
  <2>2. EntradaNueva'
    <3>. SUFFICES ASSUME NEW i \in 1..Len(entrada)
                  PROVE  entrada[i] > orden /\ hist'[entrada[i]].resp = {}
      BY <1>5 DEF EntradaIgual, EntradaNueva
    <3>1. /\ entrada[i] > orden /\ hist[entrada[i]].resp = {}
          /\ entrada[i] \in Nat /\ orden \in Nat
      BY <2>1, LenProperties DEF EntradaNueva, Tipos, TiposHist
    <3>2. entrada[i] # orden
      BY <3>1
    <3>. QED BY <1>5, <2>1, <3>1, <3>2 DEF EntradaIgual
  <2>3. SinConfirmar'
    BY <1>5 DEF EntradaIgual, SinConfirmar
  <2>. QED BY <1>3, <2>2, <2>3
<1>. QED BY <1>1, <1>4, <1>5

LEMMA MarcasDatos ==
    ASSUME Tipos, Marcas, HiloDatos
    PROVE  Marcas'
<1>. USE DEF Marcas
<1>1. /\ NotaDatos /\ UNCHANGED <<pcC, orden, entrada>>
  BY DatosHist, DatosAjeno DEF comando
<1>2. BanderaCierta'
  BY BanderaSigue
<1>3. AvisoConConexion'
  BY <1>1, <1>2 DEF NotaDatos, AvisoConConexion, BanderaCierta
<1>4. EntradaNueva'
  <2>1. \A i \in 1..Len(entrada) : entrada[i] \in DOMAIN hist
    BY ElementOfSeq DEF Tipos, TiposHist
  <2>. QED BY <1>1, <2>1 DEF NotaDatos, EntradaNueva
<1>5. SinConfirmar'
  BY <1>1 DEF NotaDatos, SinConfirmar, Tipos, ComandoEnOrden, EnAviso
<1>. QED BY <1>2, <1>3, <1>4, <1>5

LEMMA IInvPaso ==
    ASSUME IInv, [Next]_vars
    PROVE  IInv'
<1>. USE DEF IInv
<1>1. CASE Cliente
  BY <1>1, ClienteTipos, RitmoCliente, MarcasCliente
<1>2. CASE HiloComando
  BY <1>2, ComandoTipos, RitmoComando, MarcasComando
<1>3. CASE HiloDatos
  BY <1>3, DatosTipos, RitmoDatos, MarcasDatos DEF Marcas
<1>4. CASE UNCHANGED vars
  <2>1. Tipos' /\ Conserva
    BY <1>4, TiposQuietos, HistIgual DEF Tipos, vars, cliente
  <2>2. UNCHANGED <<hist, entrada, pcC, orden, pcD, pedido, aDatos, semaforo, iBandera,
                    socketClienteFTP>>
    BY <1>4 DEF vars, cliente, comando, conexion, canales
  <2>3. Ritmo'
    BY <2>1, <2>2, RitmoSigue DEF ConQueda
  <2>4. Marcas'
    BY <2>2 DEF Marcas, BanderaCierta, AvisoConConexion, EntradaNueva, SinConfirmar
  <2>. QED BY <2>1, <2>3, <2>4
<1>. QED BY <1>1, <1>2, <1>3, <1>4 DEF Next

LEMMA IInvSiempre == Spec => []IInv
<1>1. Init => IInv
  BY IInvInit
<1>2. IInv /\ [Next]_vars => IInv'
  BY IInvPaso
<1>. QED BY <1>1, <1>2, PTL DEF Spec

-----------------------------------------------------------------------------
\* No signal is lost: whenever a thread is about to release sem_mensajes (lines
\* 134, 259, 270, 429, 443, 457 and 464) its count is 0, even after a session
\* where the threads met out of step.
THEOREM FichaSegura == Spec => []SinFichaPerdida
<1>1. IInv => SinFichaPerdida
  BY DEF IInv, Ritmo, Reposo, Trabado, Pedida, Aceptando, EnCurso, Alterna, DatosLibre,
         EnTransferencia, EnAviso, SinFichaPerdida
<1>. QED BY <1>1, IInvSiempre, PTL

\* While hiloDatos is in a RETR or a STOR hiloComando announces that same order,
\* or has confirmed it and hiloDatos waits with no signal given.
THEOREM PasoJunto == Spec => []Acompasados
<1>1. IInv => Acompasados
  BY DEF IInv, Ritmo, Reposo, Trabado, Pedida, Aceptando, EnCurso, Alterna, DatosLibre,
         EnTransferencia, EnAviso, Acompasados
<1>. QED BY <1>1, IInvSiempre, PTL

\* 150 is answered only to an order that hiloDatos has a data connection for.
THEOREM AvisoSeguro == Spec => []AvisoConConexion
<1>1. IInv => AvisoConConexion
  BY DEF IInv, Marcas
<1>. QED BY <1>1, IInvSiempre, PTL

\* A RETR or a STOR that was answered 226 before it was done is not done later.
THEOREM SinComienzoTardio == Spec => ConfirmadaNoEmpieza
<1>1. ASSUME IInv, [Next]_vars, NEW n \in DOMAIN hist, Cmd(n) \in Fichas,
             "226" \in hist[n].resp, ~hist[n].hecho
      PROVE  ~hist'[n].hecho
  <2>. USE DEF IInv
  <2>1. CASE Cliente
    <3>1. CASE EnviarOrden
      BY <1>1, <3>1, ElegirOrden, EnviarTipos
    <3>2. CASE hist' = hist
      BY <1>1, <3>2
    <3>. QED BY <2>1, <3>1, <3>2 DEF Cliente, Cortar, ConectarDatos
  <2>2. CASE HiloComando
    BY <1>1, <2>2, ComandoHist DEF NotaComando
  <2>3. CASE HiloDatos
    <3>1. SUFFICES ASSUME pcD = "transfiere", n = pedido PROVE FALSE
      BY <1>1, <2>3, DatosHist DEF NotaDatos
    <3>2. pedido = orden /\ pcC \in EnAviso
      BY <1>1, <3>1 DEF Ritmo, Reposo, Trabado, Pedida, Aceptando, EnCurso, DatosLibre,
                        EnTransferencia
    <3>. QED BY <1>1, <3>1, <3>2 DEF Marcas, SinConfirmar
  <2>4. CASE UNCHANGED vars
    BY <1>1, <2>4 DEF vars, cliente
  <2>. QED BY <1>1, <2>1, <2>2, <2>3, <2>4 DEF Next
<1>2. IInv /\ [Next]_vars
        => [\A n \in DOMAIN hist :
              Cmd(n) \in Fichas /\ "226" \in hist[n].resp /\ ~hist[n].hecho
                  => ~hist'[n].hecho]_vars
  BY <1>1
<1>. QED BY <1>2, IInvSiempre, PTL DEF Spec, ConfirmadaNoEmpieza


-----------------------------------------------------------------------------
(* The order in which orders go through the session: hiloDatos attends them *)
(* as they were sent, and nothing is done of one that it did not read.      *)

ColaEnOrden ==
    /\ pedido <= orden
    /\ \A i \in 1..Len(aDatos) : pedido < aDatos[i] /\ aDatos[i] <= orden
    /\ \A i, j \in 1..Len(aDatos) : i < j => aDatos[i] < aDatos[j]

SinEmpezar ==
    /\ \A n \in DOMAIN hist : n > pedido => ~hist[n].hecho
    /\ \A n \in DOMAIN hist : n > orden => hist[n].resp = {}
    /\ pcD \in {"acepta", "lista"} /\ Cmd(pedido) = "LS" => ~hist[pedido].hecho

\* Each thread waits for what the order it attends calls for.
EnSize == {"sizeRecv", "sizeCabecera", "sizeCuerpo"}

EsperaLoSuyo ==
    /\ pcC = "deleCabecera" => Cmd(orden) = "DELE"
    /\ pcC \in EnSize => Cmd(orden) = "SIZE"
    /\ pcD = "lista" => hist[pedido].con # 0

Turnos == ColaEnOrden /\ SinEmpezar /\ EsperaLoSuyo

LEMMA TurnosInit ==
    ASSUME Init
    PROVE  Turnos
  BY EmptySeq DEF Init, Turnos, ColaEnOrden, SinEmpezar, EsperaLoSuyo, EnSize

\* Orders are places of the history.
LEMMA Lugar ==
    ASSUME Tipos
    PROVE  /\ DOMAIN hist = 1..Len(hist) /\ Len(hist) \in Nat /\ DOMAIN hist \subseteq Nat
           /\ orden \in 0..Len(hist) /\ pedido \in 0..Len(hist)
           /\ orden \in Nat /\ pedido \in Nat
           /\ Len(aDatos) \in Nat /\ DOMAIN aDatos = 1..Len(aDatos)
           /\ \A i \in 1..Len(aDatos) : aDatos[i] \in DOMAIN hist /\ aDatos[i] \in Nat
<1>1. DOMAIN hist = 1..Len(hist) /\ Len(hist) \in Nat
  BY LenProperties DEF Tipos, TiposHist
<1>2. Len(aDatos) \in Nat /\ DOMAIN aDatos = 1..Len(aDatos)
      /\ \A i \in 1..Len(aDatos) : aDatos[i] \in DOMAIN hist
  BY LenProperties, ElementOfSeq DEF Tipos, TiposHist
<1>. QED BY <1>1, <1>2 DEF Tipos, TiposHist

\* The order that hiloComando takes is newer than the ones it took.
LEMMA TomaNueva ==
    ASSUME Tipos, Marcas, entrada # <<>>
    PROVE  /\ PrimeraOrden \in DOMAIN hist /\ PrimeraOrden > orden
           /\ hist[PrimeraOrden].resp = {}
<1>1. 1 \in 1..Len(entrada) /\ PrimeraOrden = entrada[1]
  BY HeadTailProperties, EmptySeq, LenProperties DEF Tipos, TiposHist, PrimeraOrden
<1>. QED BY <1>1, Primero DEF Marcas, EntradaNueva, Tipos

\* A step of the client adds at most an order that nobody took.
LEMMA ClienteHist ==
    ASSUME Tipos, Cliente
    PROVE  /\ Conserva
           /\ \A m \in DOMAIN hist : hist'[m] = hist[m]
           /\ \A m \in DOMAIN hist' :
                m \in DOMAIN hist \/ (m = Len(hist) + 1 /\ ~hist'[m].hecho /\ hist'[m].resp = {})
<1>1. CASE EnviarOrden
  BY <1>1, ElegirOrden, EnviarTipos
<1>2. CASE hist' = hist
  BY <1>2, HistIgual DEF Tipos
<1>. QED BY <1>1, <1>2 DEF Cliente, Cortar, ConectarDatos

LEMMA TurnosCliente ==
    ASSUME Tipos, Turnos, Cliente
    PROVE  Turnos'
<1>1. /\ Conserva
      /\ \A m \in DOMAIN hist : hist'[m] = hist[m]
      /\ \A m \in DOMAIN hist' :
           m \in DOMAIN hist \/ (~hist'[m].hecho /\ hist'[m].resp = {})
  BY ClienteHist
<1>2. UNCHANGED <<pcC, orden, pcD, pedido, aDatos>>
  BY ClienteAjeno DEF comando, canales
<1>3. /\ pcC \notin {"select", "sin cliente"} => orden \in DOMAIN hist
      /\ pcD # "select" => pedido \in DOMAIN hist
  BY DEF Tipos, ComandoEnOrden, DatosEnOrden
<1>4. ColaEnOrden'
  BY <1>2 DEF Turnos, ColaEnOrden
<1>5. SinEmpezar'
  BY <1>1, <1>2, <1>3 DEF Turnos, SinEmpezar, Cmd
<1>6. EsperaLoSuyo'
  BY <1>1, <1>2, <1>3 DEF Turnos, EsperaLoSuyo, EnSize, Cmd
<1>. QED BY <1>4, <1>5, <1>6 DEF Turnos

\* The steps of hiloComando that take an order.
Toma == RecibeSimple \/ RecibePwd \/ RecibeLs \/ RecibeCd \/ RecibeConArchivo

LEMMA TomaEspera ==
    ASSUME Tipos, Toma
    PROVE  /\ pcC' = "deleCabecera" => Cmd(PrimeraOrden) = "DELE"
           /\ pcC' \in EnSize => Cmd(PrimeraOrden) = "SIZE"
<1>1. CASE RecibeConArchivo
  <2>1. Cmd(PrimeraOrden) \in ConArchivo /\ pcC' = EsperaDe[Cmd(PrimeraOrden)]
    BY <1>1 DEF RecibeConArchivo, Recibe
  <2>. QED BY <2>1 DEF EsperaDe, ConArchivo, EnSize
<1>2. CASE pcC' = "select"
  BY <1>2 DEF EnSize
<1>. QED BY <1>1, <1>2 DEF Toma, RecibeSimple, RecibePwd, RecibeLs, RecibeCd, Recibe

\* The other steps go on with the order they attend.
LEMMA ComandoSigueEn ==
    ASSUME Tipos, HiloComando, ~Toma
    PROVE  /\ UNCHANGED <<entrada, orden, aDatos, directorioActual>>
           /\ Conserva /\ DOMAIN hist' = DOMAIN hist
           /\ \A m \in DOMAIN hist :
                /\ m # orden => hist'[m] = hist[m]
                /\ hist'[m].con = hist[m].con /\ hist'[m].hecho = hist[m].hecho
           /\ pcC \in EnSize \/ pcC' \notin EnSize
           /\ pcC' # "deleCabecera"
<1>1. CASE RecibeFin \/ SizeRecv \/ SizeCabecera \/ SueltaComando
  BY <1>1, HistIgual
     DEF RecibeFin, SizeRecv, SizeCabecera, SueltaComando, RecibirH, cliente, canales,
         Tipos, EnSize
<1>2. CASE SizeCuerpo \/ DeleCabecera \/ Espera150 \/ Espera226
  <2>1. PICK c \in Codigos : hist' = Responder(orden, {c})
    BY <1>2 DEF SizeCuerpo, DeleCabecera, Espera150, Espera226, Codigos
  <2>2. /\ pcC \notin {"select", "sin cliente"} /\ pcC' \in {"select", "suelta"}
        /\ UNCHANGED <<entrada, orden, aDatos, directorioActual>>
    BY <1>2 DEF SizeCuerpo, DeleCabecera, Espera150, Espera226, RecibirH, canales
  <2>3. /\ Conserva /\ Solo(orden) /\ hist'[orden].con = hist[orden].con
        /\ hist'[orden].hecho = hist[orden].hecho
    BY <2>1, <2>2, SigueHist
  <2>. QED BY <2>2, <2>3 DEF Solo, EnSize
<1>. QED BY <1>1, <1>2 DEF HiloComando, Toma

LEMMA TurnosComando ==
    ASSUME Tipos, Marcas, Turnos, HiloComando
    PROVE  Turnos'
<1>. USE DEF Turnos
<1>0. UNCHANGED <<pcD, pedido>> /\ (pcD # "select" => pedido \in DOMAIN hist)
  BY ComandoAjeno DEF Tipos, DatosEnOrden
<1>1. CASE Toma
  <2>1. /\ PrimeraOrden \in DOMAIN hist /\ entrada # <<>> /\ orden' = PrimeraOrden
        /\ Conserva /\ Solo(PrimeraOrden)
        /\ hist'[PrimeraOrden].con = hist[PrimeraOrden].con
        /\ hist'[PrimeraOrden].hecho = hist[PrimeraOrden].hecho
    BY <1>1, RecibeHist DEF Toma
  <2>2. orden' > orden /\ orden \in Nat /\ orden' \in Nat /\ pedido \in Nat
    BY <2>1, TomaNueva, Lugar
  <2>3. ColaEnOrden'
    <3>1. CASE aDatos' = aDatos
      BY <1>0, <2>2, <3>1, Lugar DEF ColaEnOrden
    <3>2. CASE aDatos' = Append(aDatos, orden')
      <4>1. /\ Len(aDatos) \in Nat /\ Len(aDatos') = Len(aDatos) + 1
            /\ \A i \in 1..Len(aDatos) : aDatos'[i] = aDatos[i] /\ aDatos[i] \in Nat
            /\ aDatos'[Len(aDatos) + 1] = orden'
        BY <3>2, AppendProperties, Lugar DEF Tipos, TiposHist
      <4>. QED BY <1>0, <2>2, <4>1 DEF ColaEnOrden
    <3>. QED BY <1>1, <2>1, <3>1, <3>2, RecibeEnvia DEF Toma, AlHiloDatos
  <2>4. SinEmpezar'
    <3>1. \A m \in DOMAIN hist : hist'[m].hecho = hist[m].hecho /\ hist'[m].cmd = hist[m].cmd
      BY <2>1 DEF Solo, Conserva
    <3>2. \A m \in DOMAIN hist : m > orden' => hist'[m].resp = {}
      BY <2>1, <2>2, Lugar DEF Solo, SinEmpezar
    <3>. QED BY <1>0, <2>1, <3>1, <3>2 DEF SinEmpezar, Solo, Cmd
  <2>5. EsperaLoSuyo'
    <3>1. hist'[orden'].cmd = hist[orden'].cmd
      BY <2>1 DEF Conserva
    <3>2. pcD = "lista" => hist'[pedido].con = hist[pedido].con
      BY <1>0, <2>1 DEF Solo
    <3>. QED BY <1>0, <1>1, <2>1, <3>1, <3>2, TomaEspera DEF EsperaLoSuyo, Cmd
  <2>. QED BY <2>3, <2>4, <2>5
<1>2. CASE ~Toma
  <2>1. /\ UNCHANGED <<orden, aDatos>> /\ Conserva /\ DOMAIN hist' = DOMAIN hist
        /\ \A m \in DOMAIN hist :
             /\ m # orden => hist'[m] = hist[m]
             /\ hist'[m].con = hist[m].con /\ hist'[m].hecho = hist[m].hecho
             /\ hist'[m].cmd = hist[m].cmd
        /\ pcC \in EnSize \/ pcC' \notin EnSize
        /\ pcC' # "deleCabecera"
    BY <1>2, ComandoSigueEn DEF Conserva
  <2>2. ColaEnOrden'
    BY <1>0, <2>1 DEF ColaEnOrden
  <2>3. SinEmpezar'
    BY <1>0, <2>1, Lugar DEF SinEmpezar, Cmd
  <2>4. pcC \in EnSize => orden \in DOMAIN hist
    BY DEF Tipos, ComandoEnOrden, EnSize
  <2>5. EsperaLoSuyo'
    BY <1>0, <2>1, <2>4 DEF EsperaLoSuyo, Cmd
  <2>. QED BY <2>2, <2>3, <2>5
<1>. QED BY <1>1, <1>2

\* What a step of hiloDatos does: it reads an order, or goes on with the one it has.
LEMMA DatosHecho ==
    ASSUME Tipos, HiloDatos
    PROVE  /\ Conserva /\ DOMAIN hist' = DOMAIN hist
           /\ \A m \in DOMAIN hist : m # pedido' => hist'[m] = hist[m]
<1>1. CASE hist' = hist
  BY <1>1, HistIgual DEF Tipos
<1>2. CASE \E c \in 0..MaxOrdenes :
             hist' = [hist EXCEPT ![pedido'].con = c] /\ pedido' \in DOMAIN hist
  BY <1>2, ConConserva DEF Tipos, TiposHist, Solo
<1>3. CASE hist' = Hecho(pedido') /\ pedido' \in DOMAIN hist
  BY <1>3, HechoConserva DEF Tipos, TiposHist, Solo
<1>4. CASE \E b \in Rutas : /\ hist' = [hist EXCEPT ![pedido'].ruta = b, ![pedido'].hecho = TRUE]
                            /\ pedido' \in DOMAIN hist
  BY <1>4, RutaConserva DEF Tipos, TiposHist, Solo
<1>5. CASE LeeTransferencia
  <2>1. pedido' \in DOMAIN hist /\ pedido' = Head(aDatos)
    BY <1>5, LeeOrdenHist DEF LeeTransferencia
  <2>2. socketClienteFTP \in 0..MaxOrdenes
    BY SesionAssumption DEF Tipos, TiposConexion
  <2>3. hist' = hist \/ hist' = [hist EXCEPT ![pedido'].con = socketClienteFTP]
    BY <1>5, <2>1 DEF LeeTransferencia
  <2>. QED BY <1>1, <1>2, <2>1, <2>2, <2>3
<1>6. CASE AceptaConOrden
  <2>1. pedido' \in DOMAIN hist /\ pedido' = pedido /\ pendientes # <<>>
    BY <1>6 DEF AceptaConOrden, Tipos, DatosEnOrden
  <2>2. Head(pendientes) \in 0..MaxOrdenes
    BY <1>6, <2>1, AceptarTipo, SesionAssumption DEF AceptaConOrden, Tipos
  <2>3. hist' = [hist EXCEPT ![pedido'].con = Head(pendientes)]
    BY <1>6, <2>1 DEF AceptaConOrden
  <2>. QED BY <1>2, <2>1, <2>2, <2>3
<1>7. CASE Lista \/ MandaTamanio
  BY <1>3, <1>7 DEF Lista, MandaTamanio, Tipos, DatosEnOrden
<1>8. CASE LeeCd
  BY <1>3, <1>8, LeeOrdenHist DEF LeeCd
<1>9. CASE LeeDele
  <2>1. pedido' \in DOMAIN hist /\ pedido' = Head(aDatos)
    BY <1>9, LeeOrdenHist DEF LeeDele
  <2>2. hist' = [hist EXCEPT ![pedido'].ruta = Directorio, ![pedido'].hecho = TRUE]
    BY <1>9, <2>1 DEF LeeDele
  <2>. QED BY <1>4, <2>1, <2>2 DEF Tipos, TiposCarpeta
<1>10. CASE Descarga \/ Sube
  <2>1. pedido' \in DOMAIN hist /\ pedido' = pedido
    BY <1>10 DEF Descarga, Sube, Tipos, DatosEnOrden
  <2>2. \E b \in {directorioAux, Directorio} :
          hist' = [hist EXCEPT ![pedido'].ruta = b, ![pedido'].hecho = TRUE]
    BY <1>10, <2>1 DEF Descarga, Sube, SubirArchivo
  <2>. QED BY <1>4, <2>1, <2>2 DEF Tipos, TiposCarpeta
<1>11. CASE Select \/ AceptaPorSelect \/ LeeSize \/ SueltaPrimera \/ EsperaDatos
            \/ SueltaSegunda
  BY <1>1, <1>11 DEF Select, AceptaPorSelect, LeeSize, SueltaPrimera, EsperaDatos,
                     SueltaSegunda, cliente
<1>. QED BY <1>5, <1>6, <1>7, <1>8, <1>9, <1>10, <1>11 DEF HiloDatos

\* The order read is the oldest one on its way.
LEMMA LecturaEnOrden ==
    ASSUME Tipos, Turnos, Lecturas
    PROVE  /\ pedido' \in DOMAIN hist /\ pedido < pedido' /\ pedido' <= orden
           /\ Len(aDatos') = Len(aDatos) - 1 /\ Len(aDatos) > 0 /\ pedido' = aDatos[1]
           /\ \A i \in 1..Len(aDatos') : aDatos'[i] = aDatos[i + 1] /\ pedido' < aDatos'[i]
           /\ ~hist[pedido'].hecho
<1>1. /\ aDatos # <<>> /\ pedido' = Head(aDatos) /\ aDatos' = Tail(aDatos)
      /\ pedido' \in DOMAIN hist
  BY LecturasHist
<1>2. /\ Len(aDatos') = Len(aDatos) - 1 /\ Len(aDatos) > 0 /\ pedido' = aDatos[1]
      /\ \A i \in 1..Len(aDatos') : aDatos'[i] = aDatos[i + 1]
  BY <1>1, HeadTailProperties, EmptySeq, LenProperties DEF Tipos, TiposHist
<1>3. pedido < pedido' /\ pedido' <= orden
  BY <1>2, Lugar DEF Turnos, ColaEnOrden
<1>4. ASSUME NEW i \in 1..Len(aDatos') PROVE pedido' < aDatos'[i]
  <2>1. 1 \in 1..Len(aDatos) /\ i + 1 \in 1..Len(aDatos) /\ 1 < i + 1
    BY <1>2, Lugar
  <2>. QED BY <1>2, <2>1 DEF Turnos, ColaEnOrden
<1>. QED BY <1>1, <1>2, <1>3, <1>4 DEF Turnos, SinEmpezar

\* An order leaves "select" with the connection it will use, or with none yet.
LEMMA ListaConConexion ==
    ASSUME Tipos, BanderaCierta, HiloDatos
    PROVE  /\ pcD' = "lista" => pcD # "lista" /\ pedido' \in DOMAIN hist /\ hist'[pedido'].con # 0
           /\ pcD' \in {"acepta", "lista"} => Lecturas \/ pcD = "acepta"
<1>1. CASE LeeTransferencia
  <2>1. /\ Head(aDatos) \in DOMAIN hist /\ pedido' = Head(aDatos) /\ pcD = "select"
        /\ Cmd(Head(aDatos)) \in Transferencias
    BY <1>1, LeeOrdenHist DEF LeeTransferencia
  <2>2. CASE iBandera = 0
    BY <1>1, <2>1, <2>2 DEF LeeTransferencia, Lecturas
  <2>3. CASE iBandera # 0
    <3>1. socketClienteFTP # 0 /\ socketClienteFTP \in 0..MaxOrdenes
      BY <2>3, SesionAssumption DEF BanderaCierta, Tipos, TiposConexion
    <3>2. hist' = [hist EXCEPT ![Head(aDatos)].con = socketClienteFTP]
      BY <1>1, <2>3 DEF LeeTransferencia
    <3>. QED BY <1>1, <2>1, <3>1, <3>2, ConConserva DEF Tipos, TiposHist, Lecturas
  <2>. QED BY <2>2, <2>3
<1>2. CASE AceptaConOrden
  <2>1. /\ pedido \in DOMAIN hist /\ pendientes # <<>> /\ pcD = "acepta" /\ pedido' = pedido
        /\ hist' = [hist EXCEPT ![pedido].con = Head(pendientes)]
    BY <1>2 DEF AceptaConOrden, Tipos, DatosEnOrden
  <2>2. Head(pendientes) \in 0..MaxOrdenes /\ Head(pendientes) # 0
    BY <2>1, HeadTailProperties, SesionAssumption DEF Tipos, TiposConexion
  <2>. QED BY <2>1, <2>2, ConConserva DEF Tipos, TiposHist
<1>3. CASE pcD' \notin {"acepta", "lista"}
  BY <1>3
<1>. QED BY <1>1, <1>2, <1>3
     DEF HiloDatos, Select, AceptaPorSelect, Lista, LeeSize, MandaTamanio, LeeDele, LeeCd,
         LeeOrden, SueltaPrimera, EsperaDatos, Descarga, Sube, SueltaSegunda

LEMMA TurnosDatos ==
    ASSUME Tipos, Marcas, Turnos, HiloDatos
    PROVE  Turnos'
<1>1. /\ Conserva /\ DOMAIN hist' = DOMAIN hist
      /\ \A m \in DOMAIN hist : m # pedido' => hist'[m] = hist[m]
      /\ \A m \in DOMAIN hist : hist'[m].resp = hist[m].resp /\ hist'[m].cmd = hist[m].cmd
  BY DatosHecho, DatosHist DEF NotaDatos, Conserva
<1>2. UNCHANGED <<pcC, orden>>
  BY DatosAjeno DEF comando
<1>3. ColaEnOrden' /\ pedido <= pedido' /\ pedido' \in Nat
  <2>1. CASE Lecturas
    <3>1. /\ pedido' \in Nat /\ pedido \in Nat /\ pedido < pedido' /\ pedido' <= orden
          /\ Len(aDatos') = Len(aDatos) - 1 /\ Len(aDatos) \in Nat
          /\ \A i \in 1..Len(aDatos') : aDatos'[i] = aDatos[i + 1] /\ pedido' < aDatos'[i]
      BY <2>1, LecturaEnOrden, Lugar
    <3>2. ASSUME NEW i \in 1..Len(aDatos')
          PROVE  /\ i + 1 \in 1..Len(aDatos) /\ aDatos'[i] <= orden'
                 /\ \A j \in 1..Len(aDatos') : i < j => aDatos'[i] < aDatos'[j]
      <4>1. i + 1 \in 1..Len(aDatos) /\ aDatos'[i] = aDatos[i + 1]
        BY <3>1
      <4>2. ASSUME NEW j \in 1..Len(aDatos'), i < j PROVE aDatos'[i] < aDatos'[j]
        <5>1. j + 1 \in 1..Len(aDatos) /\ aDatos'[j] = aDatos[j + 1] /\ i + 1 < j + 1
          BY <3>1, <4>2
        <5>. QED BY <4>1, <5>1 DEF Turnos, ColaEnOrden
      <4>. QED BY <1>2, <4>1, <4>2 DEF Turnos, ColaEnOrden
    <3>. QED BY <1>2, <3>1, <3>2 DEF ColaEnOrden
  <2>2. CASE ~Lecturas
    BY <1>2, <2>2, NoLecturas, Lugar DEF Turnos, ColaEnOrden
  <2>. QED BY <2>1, <2>2
<1>4. SinEmpezar'
  <2>1. \A n \in DOMAIN hist' : n > pedido' => ~hist'[n].hecho
    BY <1>1, <1>3, Lugar DEF Turnos, SinEmpezar
  <2>2. ASSUME pcD' \in {"acepta", "lista"}, Cmd(pedido)' = "LS"
        PROVE  ~hist'[pedido'].hecho
    <3>1. CASE Lecturas
      <4>1. pedido' \in DOMAIN hist /\ ~hist[pedido'].hecho
        BY <3>1, LecturaEnOrden
      <4>2. LeeTransferencia
        BY <2>2, <3>1 DEF Lecturas, LeeSize, LeeDele, LeeCd, LeeOrden
      <4>3. hist' = hist \/ hist' = [hist EXCEPT ![pedido'].con = socketClienteFTP]
        BY <4>2, LeeOrdenHist DEF LeeTransferencia
      <4>4. socketClienteFTP \in 0..MaxOrdenes
        BY SesionAssumption DEF Tipos, TiposConexion
      <4>. QED BY <4>1, <4>3, <4>4, ConConserva DEF Tipos, TiposHist
    <3>2. CASE ~Lecturas
      <4>1. AceptaConOrden
        BY <2>2, <3>2, ListaConConexion
           DEF Marcas, HiloDatos, Lecturas, Select, AceptaPorSelect, Lista, MandaTamanio,
               SueltaPrimera, EsperaDatos, Descarga, Sube, SueltaSegunda
      <4>2. /\ pedido \in DOMAIN hist /\ pendientes # <<>> /\ pcD = "acepta"
            /\ pedido' = pedido
            /\ hist' = [hist EXCEPT ![pedido].con = Head(pendientes)]
        BY <4>1 DEF AceptaConOrden, Tipos, DatosEnOrden
      <4>3. Head(pendientes) \in 0..MaxOrdenes
        BY <4>2, HeadTailProperties, SesionAssumption DEF Tipos, TiposConexion
      <4>4. hist'[pedido].hecho = hist[pedido].hecho
        BY <4>2, <4>3, ConConserva DEF Tipos, TiposHist
      <4>5. Cmd(pedido) = "LS"
        BY <1>1, <2>2, <4>2 DEF Cmd
      <4>. QED BY <4>2, <4>4, <4>5 DEF Turnos, SinEmpezar
    <3>. QED BY <3>1, <3>2
  <2>. QED BY <1>1, <1>2, <2>1, <2>2 DEF Turnos, SinEmpezar
<1>5. EsperaLoSuyo'
  <2>1. pcC \notin {"select", "sin cliente"} => orden \in DOMAIN hist
    BY DEF Tipos, ComandoEnOrden
  <2>2. pcD' = "lista" => hist'[pedido'].con # 0
    BY ListaConConexion DEF Marcas
  <2>. QED BY <1>1, <1>2, <2>1, <2>2 DEF Turnos, EsperaLoSuyo, EnSize, Cmd
<1>. QED BY <1>3, <1>4, <1>5 DEF Turnos

OInv == IInv /\ Turnos

LEMMA OInvPaso ==
    ASSUME OInv, [Next]_vars
    PROVE  OInv'
<1>. USE DEF OInv, IInv
<1>1. IInv'
  BY IInvPaso
<1>2. CASE UNCHANGED vars
  BY <1>1, <1>2 DEF vars, cliente, comando, canales, Turnos, ColaEnOrden, SinEmpezar,
                    EsperaLoSuyo, Cmd
<1>. QED BY <1>1, <1>2, TurnosCliente, TurnosComando, TurnosDatos DEF Next

LEMMA OInvSiempre == Spec => []OInv
<1>1. Init => OInv
  BY IInvInit, TurnosInit DEF OInv
<1>2. OInv /\ [Next]_vars => OInv'
  BY OInvPaso
<1>. QED BY <1>1, <1>2, PTL DEF Spec


-----------------------------------------------------------------------------
(* One order after another: the data connections of a patient client.      *)

SinUsar(n) == n \in DOMAIN hist => hist[n].con = 0

\* The client sends an order, or opens the connection of the next one, when the
\* last one it sent has ended.
UnaPorVez ==
    /\ \A n \in DOMAIN hist : n < Len(hist) => Terminada(n)
    /\ \A n \in abiertas :
         n <= Len(hist) + 1 /\ (n \in DOMAIN hist => Cmd(n) \in Transferencias)
    /\ Len(hist) + 1 \in abiertas => Libre

\* A transfer is served on its own connection, and does not end without one.
Suyas ==
    /\ \A n \in DOMAIN hist : hist[n].con = 0 \/ (hist[n].con = n /\ n \in abiertas)
    /\ \A n \in DOMAIN hist :
         Cmd(n) \in Transferencias /\ Terminada(n) => hist[n].con # 0

\* The connections that wait, to be accepted or for an order, served nobody.
Esperan ==
    /\ \A i \in 1..Len(pendientes) : SinUsar(pendientes[i])
    /\ \A i, j \in 1..Len(pendientes) : pendientes[i] = pendientes[j] => i = j
    /\ iBandera = 1 => \A i \in 1..Len(pendientes) : pendientes[i] # socketClienteFTP
    /\ iBandera = 1 /\ pcD \notin EnTransferencia \union {"lista"}
         => SinUsar(socketClienteFTP)

InvConexion == UnaPorVez /\ Suyas /\ Esperan

LEMMA ConexionInit ==
    ASSUME Init
    PROVE  InvConexion
  BY EmptySeq DEF Init, InvConexion, UnaPorVez, Suyas, Esperan, SinUsar, Libre

\* When an order of each kind has ended.
LEMMA CuandoTermina ==
    ASSUME NEW n, Cmd(n) \in Clases
    PROVE  /\ Cmd(n) = "LS" => (Terminada(n) <=> hist[n].hecho)
           /\ Cmd(n) \in Fichas => (Terminada(n) <=> "226" \in hist[n].resp)
<1>1. ASSUME Cmd(n) \in Fichas PROVE Final[Cmd(n)] = "226" /\ Cmd(n) \notin {"LS", "HELP"}
  BY <1>1 DEF Final, Clases, Fichas
<1>. QED BY <1>1 DEF Terminada

LEMMA TerminadaQueda ==
    ASSUME Conserva, NEW n \in DOMAIN hist, Terminada(n)
    PROVE  Terminada(n)'
<1>1. /\ hist'[n].cmd = hist[n].cmd /\ hist[n].resp \subseteq hist'[n].resp
      /\ hist[n].hecho => hist'[n].hecho
  BY DEF Conserva
<1>2. CASE Cmd(n) = "LS"
  BY <1>1, <1>2 DEF Terminada, Cmd
<1>3. CASE Cmd(n) = "HELP"
  BY <1>1, <1>3 DEF Terminada, Cmd
<1>4. CASE Cmd(n) \notin {"LS", "HELP"}
  <2>1. Final[Cmd(n)] \in hist[n].resp
    BY <1>4 DEF Terminada
  <2>2. Cmd(n)' = Cmd(n)
    BY <1>1 DEF Cmd
  <2>3. Final[Cmd(n)'] \in hist'[n].resp
    BY <1>1, <2>1, <2>2
  <2>. QED BY <1>4, <2>2, <2>3 DEF Terminada
<1>. QED BY <1>2, <1>3, <1>4

LEMMA LibreQueda ==
    ASSUME Conserva, DOMAIN hist' = DOMAIN hist, Len(hist') = Len(hist), Libre
    PROVE  Libre'
<1>. SUFFICES ASSUME NEW n \in DOMAIN hist', n = Len(hist') PROVE Terminada(n)'
  BY DEF Libre
<1>1. Terminada(n)
  BY DEF Libre
<1>. QED BY <1>1, TerminadaQueda

\* The steps of the two threads send nothing and open nothing.
LEMMA UnaPorVezSigue ==
    ASSUME UnaPorVez, Conserva, DOMAIN hist' = DOMAIN hist, Len(hist') = Len(hist),
           abiertas' = abiertas
    PROVE  UnaPorVez'
<1>1. \A n \in DOMAIN hist' : n < Len(hist') => Terminada(n)'
  BY TerminadaQueda DEF UnaPorVez
<1>2. \A n \in DOMAIN hist : Cmd(n)' = Cmd(n)
  BY DEF Conserva, Cmd
<1>. QED BY <1>1, <1>2, LibreQueda DEF UnaPorVez

LEMMA ConexionEnviar ==
    ASSUME Tipos, InvConexion, Paciente, EnviarOrden
    PROVE  InvConexion'
<1>1. PICK c \in Clases, a \in Carpetas \union Archivos \union {SinValor} :
        /\ c = "CD" => a \in Carpetas
        /\ c \in ConArchivo => a \in Archivos
        /\ Enviar(c, a)
  BY ElegirOrden
<1>2. /\ Conserva /\ Len(hist') = Len(hist) + 1 /\ Len(hist) \in Nat
      /\ DOMAIN hist' = DOMAIN hist \union {Len(hist) + 1}
      /\ DOMAIN hist = 1..Len(hist)
      /\ \A m \in DOMAIN hist : hist'[m] = hist[m]
      /\ hist'[Len(hist) + 1].resp = {} /\ hist'[Len(hist) + 1].hecho = FALSE
  BY <1>1, EnviarTipos, Lugar
<1>3. /\ Libre /\ (Len(hist) + 1 \in abiertas => c \in Transferencias)
      /\ UNCHANGED <<abiertas, pendientes, iBandera, socketClienteFTP, pcD>>
  BY <1>1 DEF Enviar, conexion
<1>4. hist'[Len(hist) + 1] = Nueva(c, a)
  BY <1>1, AppendProperties DEF Enviar, Nueva
<1>5. hist'[Len(hist) + 1].cmd = c /\ hist'[Len(hist) + 1].con = 0
  BY <1>4 DEF Nueva
<1>6. \A n \in DOMAIN hist : Cmd(n)' = Cmd(n)
  BY <1>2 DEF Cmd
<1>7. UnaPorVez'
  <2>1. ASSUME NEW n \in DOMAIN hist', n < Len(hist') PROVE Terminada(n)'
    <3>1. n \in DOMAIN hist /\ (n < Len(hist) \/ n = Len(hist))
      BY <1>2, <2>1
    <3>2. Terminada(n)
      BY <1>3, <3>1 DEF InvConexion, UnaPorVez, Libre
    <3>. QED BY <1>2, <3>1, <3>2, TerminadaQueda
  <2>2. ASSUME NEW n \in abiertas
        PROVE  /\ n <= Len(hist') + 1 /\ n # Len(hist') + 1
               /\ n \in DOMAIN hist' => Cmd(n)' \in Transferencias
    <3>1. /\ n \in Nat /\ n <= Len(hist) + 1
          /\ n \in DOMAIN hist => Cmd(n) \in Transferencias
      BY DEF InvConexion, UnaPorVez, Tipos, TiposConexion
    <3>2. n = Len(hist) + 1 => Cmd(n)' \in Transferencias
      BY <1>3, <1>5 DEF Cmd
    <3>. QED BY <1>2, <1>6, <3>1, <3>2
  <2>. QED BY <1>3, <2>1, <2>2 DEF UnaPorVez
<1>8. Suyas'
  <2>1. \A n \in DOMAIN hist' :
          hist'[n].con = 0 \/ (hist'[n].con = n /\ n \in abiertas')
    BY <1>2, <1>3, <1>5 DEF InvConexion, Suyas
  <2>2. ASSUME NEW n \in DOMAIN hist', Cmd(n)' \in Transferencias, Terminada(n)'
        PROVE  hist'[n].con # 0
    <3>1. CASE n \in DOMAIN hist
      <4>1. Terminada(n)
        BY <1>2, <2>2, <3>1 DEF Terminada, Cmd
      <4>. QED BY <1>2, <1>6, <2>2, <3>1, <4>1 DEF InvConexion, Suyas
    <3>2. CASE n = Len(hist) + 1
      <4>1. Cmd(n)' \in Clases /\ ("LS" = Cmd(n)' \/ Cmd(n)' \in Fichas)
        BY <2>2 DEF Clases, Transferencias, Fichas
      <4>2. CASE Cmd(n)' = "LS"
        BY <1>2, <2>2, <3>2, <4>2 DEF Terminada, Cmd
      <4>3. CASE Cmd(n)' \in Fichas
        <5>1. Final[Cmd(n)'] = "226" /\ Cmd(n)' \notin {"LS", "HELP"}
          BY <4>1, <4>3 DEF Final, Fichas
        <5>2. "226" \in hist'[n].resp
          BY <2>2, <5>1 DEF Terminada, Cmd
        <5>. QED BY <1>2, <3>2, <5>2
      <4>. QED BY <4>1, <4>2, <4>3
    <3>. QED BY <1>2, <3>1, <3>2
  <2>. QED BY <2>1, <2>2 DEF Suyas
<1>9. Esperan'
  <2>1. \A n : SinUsar(n) => SinUsar(n)'
    BY <1>2, <1>5 DEF SinUsar
  <2>. QED BY <1>3, <2>1 DEF InvConexion, Esperan
<1>. QED BY <1>7, <1>8, <1>9 DEF InvConexion

LEMMA ConexionConectar ==
    ASSUME Tipos, InvConexion, Paciente, NEW n \in 1..MaxOrdenes, ConectarDatos(n)
    PROVE  InvConexion'
<1>1. /\ hist' = hist /\ abiertas' = abiertas \union {n} /\ n \notin abiertas
      /\ UNCHANGED <<iBandera, socketClienteFTP, pcD>>
      /\ \/ n \in DOMAIN hist /\ Cmd(n) \in Transferencias
         \/ n = Len(hist) + 1 /\ Libre
  BY DEF ConectarDatos
<1>2. /\ Len(pendientes) \in Nat /\ Len(pendientes') = Len(pendientes) + 1
      /\ \A i \in 1..Len(pendientes) :
           pendientes'[i] = pendientes[i] /\ pendientes[i] \in abiertas
      /\ pendientes'[Len(pendientes) + 1] = n
  BY AppendProperties, LenProperties, ElementOfSeq DEF ConectarDatos, Tipos, TiposConexion
<1>3. /\ n \in Nat /\ n # 0 /\ Len(hist) \in Nat /\ DOMAIN hist = 1..Len(hist)
      /\ \A m : Cmd(m)' = Cmd(m) /\ (Terminada(m)' <=> Terminada(m))
      /\ \A m : SinUsar(m)' <=> SinUsar(m)
      /\ Libre' <=> Libre
  BY <1>1, Lugar, SesionAssumption DEF Cmd, Terminada, SinUsar, Libre
<1>4. UnaPorVez'
  BY <1>1, <1>3 DEF InvConexion, UnaPorVez
<1>5. Suyas'
  BY <1>1, <1>3 DEF InvConexion, Suyas
<1>6. SinUsar(n)
  BY <1>1 DEF SinUsar, InvConexion, Suyas
<1>7. Esperan'
  <2>1. \A i \in 1..Len(pendientes') : SinUsar(pendientes'[i])
    BY <1>2, <1>6 DEF InvConexion, Esperan
  <2>4. \A i \in 1..Len(pendientes') :
          pendientes'[i] \in DOMAIN hist' => hist'[pendientes'[i]].con = 0
    BY <1>1, <2>1 DEF SinUsar
  <2>2. \A i, j \in 1..Len(pendientes') : pendientes'[i] = pendientes'[j] => i = j
    BY <1>1, <1>2 DEF InvConexion, Esperan
  <2>3. iBandera = 1 =>
          \A i \in 1..Len(pendientes') : pendientes'[i] # socketClienteFTP
    BY <1>1, <1>2, <1>3 DEF InvConexion, Esperan, Tipos, TiposConexion
  <2>. QED BY <1>1, <1>3, <2>2, <2>3, <2>4 DEF InvConexion, Esperan, SinUsar
<1>. QED BY <1>4, <1>5, <1>7 DEF InvConexion

\* hiloComando ends a transfer with 226, and only when there is a connection.
LEMMA ConexionComando ==
    ASSUME OInv, InvConexion, HiloComando
    PROVE  InvConexion'
<1>. USE DEF OInv, IInv
<1>1. /\ NotaComando /\ Conserva
      /\ UNCHANGED <<abiertas, pendientes, iBandera, socketClienteFTP, pcD>>
  BY ComandoHist, ComandoTipos, ComandoAjeno DEF conexion
<1>2. /\ DOMAIN hist' = DOMAIN hist /\ Len(hist') = Len(hist)
      /\ \A m \in DOMAIN hist : Cmd(m)' = Cmd(m)
  <2>1. Tipos'
    BY ComandoTipos
  <2>2. DOMAIN hist = 1..Len(hist) /\ DOMAIN hist' = 1..Len(hist')
        /\ Len(hist) \in Nat /\ Len(hist') \in Nat
    BY <2>1, LenProperties DEF Tipos, TiposHist
  <2>. QED BY <1>1, <2>2 DEF NotaComando, Conserva, Cmd
<1>3. UnaPorVez'
  BY <1>1, <1>2, UnaPorVezSigue DEF InvConexion
<1>4. ASSUME NEW n \in DOMAIN hist, Cmd(n) \in Fichas, "226" \in hist'[n].resp,
             "226" \notin hist[n].resp
      PROVE  hist[n].con # 0
  <2>1. ~Toma /\ n = orden
    BY <1>4, RecibeHist, ComandoSigueEn DEF Toma, Solo
  <2>2. CASE SizeCuerpo \/ DeleCabecera
    BY <1>4, <2>1, <2>2
       DEF SizeCuerpo, DeleCabecera, RecibirH, Turnos, EsperaLoSuyo, EnSize, Fichas
  <2>3. CASE Espera150
    BY <1>4, <2>1, <2>3, SigueHist DEF Espera150, Codigos
  <2>4. CASE Espera226
    BY <2>1, <2>4 DEF Espera226, Esperar, Ritmo, Reposo, Trabado, Pedida, Aceptando,
                      EnCurso, EnAviso
  <2>5. CASE hist' = hist
    BY <1>4, <2>5
  <2>. QED BY <2>1, <2>2, <2>3, <2>4, <2>5
       DEF HiloComando, Toma, RecibeFin, SizeRecv, SizeCabecera, SueltaComando, cliente
<1>5. Suyas'
  <2>1. ASSUME NEW n \in DOMAIN hist, Cmd(n) \in Transferencias, Terminada(n)'
        PROVE  hist'[n].con # 0
    <3>1. /\ Cmd(n) \in Clases /\ Cmd(n)' \in Clases /\ Cmd(n)' = Cmd(n)
          /\ Cmd(n) = "LS" \/ Cmd(n) \in Fichas
      BY <1>2, <2>1 DEF Clases, Transferencias, Fichas
    <3>2. CASE Terminada(n)
      BY <1>1, <2>1, <3>2 DEF InvConexion, Suyas, NotaComando
    <3>3. CASE Cmd(n) = "LS"
      <4>1. hist'[n].hecho
        BY <2>1, <3>1, <3>3 DEF Terminada, Cmd
      <4>. QED BY <1>1, <3>1, <3>2, <3>3, <4>1, CuandoTermina DEF NotaComando
    <3>4. CASE Cmd(n) \in Fichas /\ ~Terminada(n)
      <4>1. Final[Cmd(n)'] = "226" /\ Cmd(n)' \notin {"LS", "HELP"}
        BY <3>1, <3>4 DEF Final, Fichas
      <4>2. "226" \in hist'[n].resp
        BY <2>1, <4>1 DEF Terminada, Cmd
      <4>. QED BY <1>1, <1>4, <3>1, <3>4, <4>2, CuandoTermina DEF NotaComando
    <3>. QED BY <3>1, <3>2, <3>3, <3>4
  <2>. QED BY <1>1, <1>2, <2>1 DEF Suyas, InvConexion, NotaComando
<1>6. Esperan'
  <2>1. \A n : SinUsar(n) => SinUsar(n)'
    BY <1>1, <1>2 DEF SinUsar, NotaComando
  <2>. QED BY <1>1, <2>1 DEF InvConexion, Esperan
<1>. QED BY <1>3, <1>5, <1>6 DEF InvConexion

\* The order that hiloDatos takes a connection for has not ended.
LEMMA LeeSinTerminar ==
    ASSUME OInv, LeeTransferencia
    PROVE  /\ pedido' \in DOMAIN hist /\ ~Terminada(pedido')
           /\ Cmd(pedido') \in Transferencias
<1>. USE DEF OInv, IInv
<1>1. /\ Head(aDatos) \in DOMAIN hist /\ Cmd(Head(aDatos)) \in Transferencias
      /\ pedido' = Head(aDatos) /\ pcD = "select" /\ aDatos # <<>> /\ aDatos' = Tail(aDatos)
  BY LeeOrdenHist DEF LeeTransferencia
<1>2. Cmd(pedido') \in Clases /\ (Cmd(pedido') = "LS" \/ Cmd(pedido') \in Fichas)
  BY <1>1 DEF Clases, Transferencias, Fichas
<1>3. CASE Cmd(pedido') = "LS"
  <2>1. ~hist[pedido'].hecho
    BY LecturaEnOrden DEF Lecturas
  <2>. QED BY <1>1, <1>2, <1>3, <2>1, CuandoTermina
<1>4. CASE Cmd(pedido') \in Fichas
  <2>1. HiloDatos
    BY DEF HiloDatos
  <2>2. ~SinFichas /\ (UltimaFicha => Head(aDatos) = orden)
    <3>1. Conserva /\ orden' = orden
      BY <2>1, DatosHecho, DatosAjeno DEF comando
    <3>. QED BY <1>1, <1>4, <3>1, ColaLeida DEF Tipos
  <2>3. Pedida
    BY <1>1, <2>2 DEF Ritmo, Reposo, Trabado, Aceptando, EnCurso
  <2>4. "226" \notin hist[pedido'].resp
    BY <1>1, <2>2, <2>3 DEF Pedida, Marcas, SinConfirmar, EnAviso
  <2>. QED BY <1>1, <1>2, <1>4, <2>4, CuandoTermina
<1>. QED BY <1>2, <1>3, <1>4

LEMMA AceptaSinTerminar ==
    ASSUME OInv, pcD = "acepta"
    PROVE  /\ pedido \in DOMAIN hist /\ ~Terminada(pedido)
           /\ Cmd(pedido) \in Transferencias
<1>. USE DEF OInv, IInv
<1>1. pedido \in DOMAIN hist /\ Cmd(pedido) \in Transferencias
  BY DEF Tipos, DatosEnOrden
<1>2. Cmd(pedido) \in Clases /\ (Cmd(pedido) = "LS" \/ Cmd(pedido) \in Fichas)
  BY <1>1 DEF Clases, Transferencias, Fichas
<1>3. CASE Cmd(pedido) = "LS"
  BY <1>1, <1>2, <1>3, CuandoTermina DEF Turnos, SinEmpezar
<1>4. CASE Cmd(pedido) \in Fichas
  <2>1. Aceptando
    BY <1>4 DEF Ritmo, Reposo, Trabado, Pedida, EnCurso, DatosLibre
  <2>2. "226" \notin hist[pedido].resp
    BY <2>1 DEF Aceptando, Marcas, SinConfirmar, EnAviso
  <2>. QED BY <1>1, <1>2, <1>4, <2>2, CuandoTermina
<1>. QED BY <1>1, <1>2, <1>3, <1>4

\* With one order at a time, a connection that served nobody is its own.
LEMMA EsLaSuya ==
    ASSUME Tipos, UnaPorVez, Suyas, NEW m \in DOMAIN hist, ~Terminada(m),
           NEW x \in abiertas, SinUsar(x)
    PROVE  x = m
<1>1. /\ Len(hist) \in Nat /\ DOMAIN hist = 1..Len(hist) /\ m \in Nat /\ x \in Nat /\ x > 0
  BY Lugar, SesionAssumption DEF Tipos, TiposConexion
<1>2. m = Len(hist)
  BY <1>1 DEF UnaPorVez
<1>3. x # Len(hist) + 1
  BY <1>2 DEF UnaPorVez, Libre
<1>4. x \in DOMAIN hist
  BY <1>1, <1>3 DEF UnaPorVez
<1>5. ~(x < Len(hist))
  <2>. SUFFICES ASSUME x < Len(hist) PROVE FALSE
    OBVIOUS
  <2>1. Terminada(x) /\ Cmd(x) \in Transferencias
    BY <1>4 DEF UnaPorVez
  <2>2. hist[x].con = 0
    BY <1>4 DEF SinUsar
  <2>. QED BY <1>4, <2>1, <2>2 DEF Suyas
<1>6. x <= Len(hist)
  BY <1>1, <1>4
<1>7. Len(hist) \in Nat /\ x \in Nat
  BY <1>1
<1>8. x = Len(hist)
  BY <1>5, <1>6, <1>7
<1>. QED BY <1>2, <1>8

\* What accepting does to the connections that wait.
LEMMA AceptarUna ==
    ASSUME Tipos, Esperan, pendientes # <<>>, Aceptar
    PROVE  /\ socketClienteFTP' = Head(pendientes) /\ socketClienteFTP' \in abiertas
           /\ socketClienteFTP' \in 0..MaxOrdenes
           /\ iBandera' = 1 /\ SinUsar(socketClienteFTP')
           /\ \A i \in 1..Len(pendientes') :
                SinUsar(pendientes'[i]) /\ pendientes'[i] # socketClienteFTP'
           /\ \A i, j \in 1..Len(pendientes') : pendientes'[i] = pendientes'[j] => i = j
<1>1. /\ Len(pendientes) \in Nat /\ Len(pendientes) > 0
      /\ Len(pendientes') = Len(pendientes) - 1
      /\ \A i \in 1..Len(pendientes') : pendientes'[i] = pendientes[i + 1]
      /\ Head(pendientes) = pendientes[1]
  BY HeadTailProperties, EmptySeq, LenProperties DEF Tipos, TiposConexion, Aceptar
<1>2. /\ socketClienteFTP' = Head(pendientes) /\ socketClienteFTP' \in abiertas
      /\ socketClienteFTP' \in 1..MaxOrdenes /\ iBandera' = 1
  BY AceptarTipo DEF Tipos
<1>3. 1 \in 1..Len(pendientes) /\ SinUsar(socketClienteFTP')
  BY <1>1, <1>2 DEF Esperan
<1>4. ASSUME NEW i \in 1..Len(pendientes')
      PROVE  /\ i + 1 \in 1..Len(pendientes) /\ i + 1 # 1
             /\ SinUsar(pendientes'[i]) /\ pendientes'[i] # socketClienteFTP'
  <2>1. i + 1 \in 1..Len(pendientes) /\ i + 1 # 1 /\ pendientes'[i] = pendientes[i + 1]
    BY <1>1
  <2>. QED BY <1>1, <1>2, <1>3, <2>1 DEF Esperan
<1>5. ASSUME NEW i \in 1..Len(pendientes'), NEW j \in 1..Len(pendientes'),
             pendientes'[i] = pendientes'[j]
      PROVE  i = j
  <2>1. i + 1 = j + 1
    BY <1>1, <1>4, <1>5 DEF Esperan
  <2>. QED BY <2>1
<1>. QED BY <1>2, <1>3, <1>4, <1>5, SesionAssumption

LEMMA ConexionDatos ==
    ASSUME OInv, InvConexion, HiloDatos
    PROVE  InvConexion'
<1>. USE DEF OInv, IInv
<1>1. /\ Conserva /\ DOMAIN hist' = DOMAIN hist /\ Len(hist') = Len(hist)
      /\ \A m \in DOMAIN hist : m # pedido' => hist'[m] = hist[m]
      /\ \A m \in DOMAIN hist : hist'[m].resp = hist[m].resp /\ Cmd(m)' = Cmd(m)
      /\ abiertas' = abiertas
  BY DatosHecho, DatosHist, DatosAjeno DEF NotaDatos, Conserva, Cmd
<1>2. UnaPorVez'
  BY <1>1, UnaPorVezSigue DEF InvConexion
\* The steps that give no connection to an order.
<1>3. ASSUME \A m \in DOMAIN hist : hist'[m].con = hist[m].con,
             \/ UNCHANGED <<pendientes, iBandera, socketClienteFTP>>
                  /\ (pcD \in EnTransferencia \union {"lista"}
                        => pcD' \in EnTransferencia \union {"lista"})
             \/ UNCHANGED pendientes /\ iBandera' = 0
             \/ pcD = "select" /\ pendientes # <<>> /\ Aceptar
      PROVE  InvConexion'
  <2>1. \A n \in abiertas \union {0} : SinUsar(n) => SinUsar(n)'
    BY <1>1, <1>3 DEF SinUsar
  <2>2. Suyas'
    <3>1. ASSUME NEW n \in DOMAIN hist, Cmd(n) \in Transferencias, Terminada(n)'
          PROVE  hist[n].con # 0
      <4>1. /\ Cmd(n) \in Clases /\ Cmd(n)' = Cmd(n)
            /\ Cmd(n) = "LS" \/ Cmd(n) \in Fichas
        BY <1>1, <3>1 DEF Clases, Transferencias, Fichas
      <4>2. CASE Terminada(n)
        BY <3>1, <4>2 DEF InvConexion, Suyas
      <4>3. CASE Cmd(n) = "LS" /\ ~Terminada(n)
        <5>1. hist'[n].hecho /\ ~hist[n].hecho
          BY <3>1, <4>1, <4>3, CuandoTermina DEF Terminada, Cmd
        <5>2. n = pedido' /\ hist' # hist
          BY <1>1, <5>1
        <5>3. Lista \/ LeeTransferencia \/ AceptaConOrden
          BY <4>3, <5>1, <5>2, LeeOrdenHist
             DEF HiloDatos, Select, AceptaPorSelect, LeeSize, MandaTamanio, LeeDele, LeeCd,
                 SueltaPrimera, EsperaDatos, Descarga, Sube, SueltaSegunda, Tipos,
                 DatosEnOrden, cliente
        <5>4. CASE Lista
          BY <5>2, <5>4 DEF Lista, Turnos, EsperaLoSuyo
        <5>5. CASE LeeTransferencia
          <6>1. hist'[n].con = socketClienteFTP /\ socketClienteFTP # 0
            <7>1. /\ iBandera # 0 /\ pedido' = Head(aDatos) /\ Head(aDatos) \in DOMAIN hist
                  /\ hist' = [hist EXCEPT ![Head(aDatos)].con = socketClienteFTP]
              BY <5>2, <5>5, LeeOrdenHist DEF LeeTransferencia
            <7>2. socketClienteFTP # 0 /\ socketClienteFTP \in 0..MaxOrdenes
              BY <7>1, SesionAssumption DEF Marcas, BanderaCierta, Tipos, TiposConexion
            <7>. QED BY <5>2, <7>1, <7>2, ConConserva DEF Tipos, TiposHist
          <6>. QED BY <1>3, <6>1
        <5>6. CASE AceptaConOrden
          <6>1. /\ pedido \in DOMAIN hist /\ pendientes # <<>> /\ Aceptar
                /\ hist' = [hist EXCEPT ![pedido].con = Head(pendientes)]
            BY <5>6, AceptaSinTerminar DEF AceptaConOrden
          <6>2. Head(pendientes) \in 0..MaxOrdenes
            BY <6>1, AceptarUna DEF InvConexion
          <6>. QED BY <5>1, <5>2, <5>6, <6>1, <6>2, ConConserva
                   DEF AceptaConOrden, Tipos, TiposHist
        <5>. QED BY <5>3, <5>4, <5>5, <5>6
      <4>4. CASE Cmd(n) \in Fichas /\ ~Terminada(n)
        <5>1. Final[Cmd(n)'] = "226" /\ Cmd(n)' \notin {"LS", "HELP"}
          BY <4>1, <4>4 DEF Final, Fichas
        <5>2. "226" \in hist'[n].resp
          BY <3>1, <5>1 DEF Terminada, Cmd
        <5>. QED BY <1>1, <4>1, <4>4, <5>2, CuandoTermina
      <4>. QED BY <4>1, <4>2, <4>3, <4>4
    <3>. QED BY <1>1, <1>3, <3>1 DEF Suyas, InvConexion
  <2>3. \A i \in 1..Len(pendientes) : pendientes[i] \in abiertas
    BY ElementOfSeq DEF Tipos, TiposConexion
  <2>4. Esperan'
    <3>1. CASE UNCHANGED <<pendientes, iBandera, socketClienteFTP>>
                 /\ (pcD \in EnTransferencia \union {"lista"}
                       => pcD' \in EnTransferencia \union {"lista"})
      BY <2>1, <2>3, <3>1 DEF InvConexion, Esperan, Tipos, TiposConexion
    <3>2. CASE UNCHANGED pendientes /\ iBandera' = 0
      BY <2>1, <2>3, <3>2 DEF InvConexion, Esperan
    <3>3. CASE pcD = "select" /\ pendientes # <<>> /\ Aceptar
      <4>1. /\ socketClienteFTP' \in abiertas /\ SinUsar(socketClienteFTP')
            /\ \A i \in 1..Len(pendientes') :
                SinUsar(pendientes'[i]) /\ pendientes'[i] # socketClienteFTP'
            /\ \A i, j \in 1..Len(pendientes') : pendientes'[i] = pendientes'[j] => i = j
        BY <3>3, AceptarUna DEF InvConexion
      <4>2. \A i \in 1..Len(pendientes') : pendientes'[i] \in abiertas
        BY <3>3, AceptarTipo, ElementOfSeq DEF Tipos
      <4>. QED BY <2>1, <4>1, <4>2 DEF Esperan
    <3>. QED BY <1>3, <3>1, <3>2, <3>3
  <2>. QED BY <1>2, <2>2, <2>4 DEF InvConexion
\* The steps that give one.
<1>4. ASSUME pedido' \in DOMAIN hist, NEW x \in abiertas, x = pedido',
             hist' = [hist EXCEPT ![pedido'].con = x], x \in 0..MaxOrdenes,
             pcD' \in EnTransferencia \union {"lista"},
             \A i \in 1..Len(pendientes') :
                SinUsar(pendientes'[i]) /\ pendientes'[i] # socketClienteFTP',
             \A i, j \in 1..Len(pendientes') : pendientes'[i] = pendientes'[j] => i = j,
             socketClienteFTP' = x
      PROVE  InvConexion'
  <2>1. /\ hist'[pedido'].con = x /\ x # 0
        /\ \A m \in DOMAIN hist : hist'[m].hecho = hist[m].hecho
    <3>1. Solo(pedido') /\ hist'[pedido'].con = x
          /\ hist'[pedido'].hecho = hist[pedido'].hecho
      BY <1>4, ConConserva DEF Tipos, TiposHist
    <3>. QED BY <1>4, <3>1, SesionAssumption DEF Solo, Tipos, TiposConexion
  <2>2. \A n \in DOMAIN hist : Terminada(n)' <=> Terminada(n)
    BY <1>1, <2>1 DEF Terminada, Cmd
  <2>3. Suyas'
    BY <1>1, <1>4, <2>1, <2>2 DEF Suyas, InvConexion
  <2>4. \A n : n # x /\ SinUsar(n) => SinUsar(n)'
    BY <1>1, <1>4 DEF SinUsar
  <2>5. Esperan'
    BY <1>4, <2>4 DEF Esperan
  <2>. QED BY <1>2, <2>3, <2>5 DEF InvConexion
<1>5. CASE LeeTransferencia
  <2>1. /\ pedido' \in DOMAIN hist /\ ~Terminada(pedido') /\ pedido' = Head(aDatos)
        /\ Cmd(pedido') \in Transferencias /\ pcD = "select"
        /\ UNCHANGED <<pendientes, iBandera, socketClienteFTP>>
    BY <1>5, LeeSinTerminar, LeeOrdenHist DEF LeeTransferencia
  <2>2. CASE iBandera = 0
    BY <1>3, <1>5, <2>1, <2>2 DEF LeeTransferencia, EnTransferencia
  <2>3. CASE iBandera # 0
    <3>1. /\ iBandera = 1 /\ socketClienteFTP \in abiertas
          /\ socketClienteFTP \in 0..MaxOrdenes /\ SinUsar(socketClienteFTP)
      BY <2>1, <2>3, SesionAssumption
         DEF InvConexion, Esperan, Marcas, BanderaCierta, Tipos, TiposConexion,
             EnTransferencia
    <3>2. socketClienteFTP = pedido'
      BY <2>1, <3>1, EsLaSuya DEF InvConexion
    <3>3. /\ hist' = [hist EXCEPT ![pedido'].con = socketClienteFTP]
          /\ pcD' = SigueA[Cmd(pedido')]
      BY <1>5, <2>1, <2>3 DEF LeeTransferencia
    <3>4. pcD' \in EnTransferencia \union {"lista"}
      BY <2>1, <3>3 DEF SigueA, Clases, Transferencias, EnTransferencia
    <3>5. /\ \A i \in 1..Len(pendientes') :
                SinUsar(pendientes'[i]) /\ pendientes'[i] # socketClienteFTP'
          /\ \A i, j \in 1..Len(pendientes') : pendientes'[i] = pendientes'[j] => i = j
      BY <2>1, <3>1 DEF InvConexion, Esperan
    <3>. QED BY <1>4, <2>1, <3>1, <3>2, <3>3, <3>4, <3>5
  <2>. QED BY <2>2, <2>3
<1>6. CASE AceptaConOrden
  <2>1. /\ pedido \in DOMAIN hist /\ ~Terminada(pedido) /\ pedido' = pedido
        /\ Cmd(pedido) \in Transferencias /\ pendientes # <<>> /\ Aceptar
        /\ pcD' = SigueA[Cmd(pedido)]
        /\ hist' = [hist EXCEPT ![pedido].con = Head(pendientes)]
    BY <1>6, AceptaSinTerminar DEF AceptaConOrden
  <2>2. /\ socketClienteFTP' = Head(pendientes) /\ socketClienteFTP' \in abiertas
        /\ socketClienteFTP' \in 0..MaxOrdenes /\ SinUsar(socketClienteFTP')
        /\ \A i \in 1..Len(pendientes') :
             SinUsar(pendientes'[i]) /\ pendientes'[i] # socketClienteFTP'
        /\ \A i, j \in 1..Len(pendientes') : pendientes'[i] = pendientes'[j] => i = j
    BY <2>1, AceptarUna DEF InvConexion
  <2>3. socketClienteFTP' = pedido
    BY <2>1, <2>2, EsLaSuya DEF InvConexion
  <2>4. pcD' \in EnTransferencia \union {"lista"}
    BY <2>1 DEF SigueA, Clases, Transferencias, EnTransferencia
  <2>. QED BY <1>4, <2>1, <2>2, <2>3, <2>4
\* The rest.
<1>7. ASSUME ~LeeTransferencia, ~AceptaConOrden
      PROVE  \A m \in DOMAIN hist : hist'[m].con = hist[m].con
  <2>1. CASE hist' = hist
    BY <2>1
  <2>2. CASE Lista \/ MandaTamanio
    BY <2>2, HechoConserva
       DEF Lista, MandaTamanio, Tipos, DatosEnOrden, TiposHist, Solo
  <2>3. CASE LeeCd
    BY <2>3, HechoConserva, LeeOrdenHist DEF LeeCd, Tipos, TiposHist, Solo
  <2>4. CASE LeeDele
    <3>1. Head(aDatos) \in DOMAIN hist
      BY <2>4, LeeOrdenHist DEF LeeDele
    <3>. QED BY <2>4, <3>1, RutaConserva
             DEF LeeDele, Tipos, TiposHist, TiposCarpeta, Solo
  <2>5. CASE Descarga \/ Sube
    <3>1. PICK b \in {directorioAux, Directorio} :
            hist' = [hist EXCEPT ![pedido].ruta = b, ![pedido].hecho = TRUE]
      BY <2>5 DEF Descarga, Sube, SubirArchivo
    <3>2. pedido \in DOMAIN hist /\ b \in Rutas
      BY <2>5 DEF Descarga, Sube, Tipos, DatosEnOrden, TiposCarpeta
    <3>. QED BY <3>1, <3>2, RutaConserva DEF Tipos, TiposHist, Solo
  <2>. QED BY <1>7, <2>1, <2>2, <2>3, <2>4, <2>5
           DEF HiloDatos, Select, AceptaPorSelect, LeeSize, SueltaPrimera, EsperaDatos,
               SueltaSegunda, cliente
<1>8. CASE AceptaPorSelect
  BY <1>3, <1>8 DEF AceptaPorSelect, cliente, Tipos, ListosCiertos
<1>9. CASE Lista \/ SueltaSegunda
  <2>1. ~LeeTransferencia /\ ~AceptaConOrden
    BY <1>9 DEF Lista, SueltaSegunda, LeeTransferencia, LeeOrden, AceptaConOrden
  <2>2. UNCHANGED pendientes /\ iBandera' = 0
    BY <1>9 DEF Lista, SueltaSegunda
  <2>. QED BY <1>3, <1>7, <2>1, <2>2
<1>10. CASE Select \/ LeeSize \/ LeeDele \/ LeeCd \/ MandaTamanio \/ SueltaPrimera
              \/ EsperaDatos \/ Descarga \/ Sube
  <2>1. /\ UNCHANGED <<pendientes, iBandera, socketClienteFTP>>
        /\ pcD \in EnTransferencia \union {"lista"}
             => pcD' \in EnTransferencia \union {"lista"}
    BY <1>10 DEF Select, LeeSize, LeeDele, LeeCd, LeeOrden, MandaTamanio, SueltaPrimera,
                 EsperaDatos, Descarga, Sube, EnTransferencia, conexion
  <2>2. CASE LeeTransferencia \/ AceptaConOrden
    BY <1>5, <1>6, <2>2
  <2>. QED BY <1>3, <1>7, <2>1, <2>2
<1>. QED BY <1>5, <1>6, <1>8, <1>9, <1>10 DEF HiloDatos

LEMMA ConexionPaso ==
    ASSUME Paciente, OInv, InvConexion, [Next]_vars
    PROVE  InvConexion'
<1>1. CASE Cliente
  <2>1. CASE Cortar
    BY <2>1 DEF Cortar
  <2>. QED BY <1>1, <2>1, ConexionEnviar, ConexionConectar DEF Cliente, OInv, IInv
<1>2. CASE UNCHANGED vars
  BY <1>2 DEF vars, cliente, conexion, InvConexion, UnaPorVez, Suyas, Esperan, SinUsar,
              Libre, Terminada, Cmd
<1>. QED BY <1>1, <1>2, ConexionComando, ConexionDatos DEF Next

\* With a client that waits for the end of each order, an order is served on the
\* data connection opened for it: select, the accept of LIST (line 384) and those
\* of RETR and STOR (425, 453) take no other.
THEOREM ConexionSegura == Paciente => (Spec => []ConexionPropia)
<1>. SUFFICES ASSUME Paciente PROVE Spec => []ConexionPropia
  OBVIOUS
<1>1. Init => InvConexion
  BY ConexionInit
<1>2. OInv /\ InvConexion /\ [Next]_vars => InvConexion'
  BY ConexionPaso
<1>3. InvConexion => ConexionPropia
  BY DEF InvConexion, Suyas, ConexionPropia
<1>. QED BY <1>1, <1>2, <1>3, OInvSiempre, PTL DEF Spec


-----------------------------------------------------------------------------
(* The answers in the local socket: while no order before is a CD, what     *)
(* hiloComando reads answers the order it attends.                          *)

Contestan == {"SIZE", "DELE"}

SinCd == \A m \in DOMAIN hist : m <= orden => Cmd(m) # "CD"

\* Of the orders on their way to hiloDatos, none is answered; or the last only,
\* the one hiloComando waits for.
NadaPorContestar == \A i \in 1..Len(aDatos) : Cmd(aDatos[i]) \notin Contestan
PorContestar ==
    /\ Len(aDatos) > 0 /\ aDatos[Len(aDatos)] = orden
    /\ \A i \in 1..(Len(aDatos) - 1) : Cmd(aDatos[i]) \notin Contestan

NadaQueLeer ==
    /\ pcC \notin EnSize \union {"deleCabecera"} /\ pcD # "sizeCuerpo"
    /\ aComando = <<>> /\ NadaPorContestar
EsperaRespuesta ==
    /\ pcC \in {"sizeRecv", "deleCabecera"} /\ pcD # "sizeCuerpo"
    /\ aComando = <<>> /\ PorContestar
DeleContestado ==
    /\ pcC = "deleCabecera" /\ pcD # "sizeCuerpo"
    /\ Len(aComando) = TamCabecera /\ NadaPorContestar /\ hist[orden].hecho
SizeContestado == pcC = "sizeRecv" /\ NadaPorContestar
\* SIZE receives once too many: what is left is too short for a header.
SizeSinFin ==
    /\ pcC = "sizeCabecera" /\ NadaPorContestar
    /\ pcD = "sizeCuerpo" => aComando = <<>>
    /\ Len(aComando) < TamCabecera

Turno ==
    NadaQueLeer \/ EsperaRespuesta \/ DeleContestado \/ SizeContestado \/ SizeSinFin

InvRespuesta == (SinCd => Turno) /\ RespuestaDeSuOrden

TextoCorto == LargoTexto < TamCabecera

LEMMA RespuestaInit ==
    ASSUME Init
    PROVE  InvRespuesta
  BY EmptySeq DEF Init, InvRespuesta, SinCd, Turno, NadaQueLeer, NadaPorContestar, EnSize,
                  RespuestaDeSuOrden

\* The orders on their way: none moves, one comes at the end, the first is read.
LEMMA ContestarQuieta ==
    ASSUME Tipos, Conserva, UNCHANGED <<aDatos, orden>>
    PROVE  (NadaPorContestar => NadaPorContestar') /\ (PorContestar => PorContestar')
<1>1. \A i \in 1..Len(aDatos) : Cmd(aDatos[i])' = Cmd(aDatos[i])
  BY EnCamino DEF Tipos, Cmd
<1>2. \A i \in 1..(Len(aDatos) - 1) : i \in 1..Len(aDatos)
  BY Lugar
<1>. QED BY <1>1, <1>2 DEF NadaPorContestar, PorContestar

LEMMA ContestarCrece ==
    ASSUME Tipos, Conserva, NadaPorContestar, NEW n \in DOMAIN hist,
           aDatos' = Append(aDatos, n), orden' = n
    PROVE  PorContestar' /\ (Cmd(n) \notin Contestan => NadaPorContestar')
<1>1. \A i \in 1..Len(aDatos) : hist'[aDatos[i]].cmd = hist[aDatos[i]].cmd
  BY EnCamino DEF Tipos
<1>2. hist'[n].cmd = hist[n].cmd
  BY DEF Conserva
<1>3. /\ Len(aDatos) \in Nat /\ Len(aDatos') = Len(aDatos) + 1
      /\ \A i \in 1..Len(aDatos) : aDatos'[i] = aDatos[i]
      /\ aDatos'[Len(aDatos) + 1] = n
  BY AppendProperties, Lugar DEF Tipos, TiposHist
<1>. QED BY <1>1, <1>2, <1>3 DEF NadaPorContestar, PorContestar, Cmd

LEMMA ContestarLeida ==
    ASSUME Tipos, Conserva, aDatos # <<>>, aDatos' = Tail(aDatos), orden' = orden
    PROVE  /\ NadaPorContestar => Cmd(Head(aDatos)) \notin Contestan /\ NadaPorContestar'
           /\ PorContestar /\ Cmd(orden) \in Contestan =>
                IF Cmd(Head(aDatos)) \in Contestan
                THEN Head(aDatos) = orden /\ NadaPorContestar'
                ELSE PorContestar'
<1>1. /\ Len(aDatos) \in Nat /\ Len(aDatos) > 0 /\ Len(aDatos') = Len(aDatos) - 1
      /\ \A i \in 1..Len(aDatos') : aDatos'[i] = aDatos[i + 1]
      /\ Head(aDatos) = aDatos[1]
  BY HeadTailProperties, EmptySeq, LenProperties DEF Tipos, TiposHist
<1>2. \A i \in 1..Len(aDatos) : hist'[aDatos[i]].cmd = hist[aDatos[i]].cmd
  BY EnCamino DEF Tipos
<1>3. NadaPorContestar => Cmd(Head(aDatos)) \notin Contestan /\ NadaPorContestar'
  <2>1. \A i \in 1..Len(aDatos') : i + 1 \in 1..Len(aDatos) /\ aDatos'[i] = aDatos[i + 1]
    BY <1>1
  <2>. QED BY <1>1, <1>2, <2>1 DEF NadaPorContestar, Cmd
<1>4. CASE Len(aDatos) = 1 /\ PorContestar /\ Cmd(orden) \in Contestan
  <2>1. Head(aDatos) = orden
    BY <1>1, <1>4 DEF PorContestar
  <2>2. \A i \in 1..Len(aDatos') : FALSE
    BY <1>1, <1>4
  <2>. QED BY <1>3, <1>4, <2>1, <2>2 DEF NadaPorContestar
<1>5. CASE Len(aDatos) > 1 /\ PorContestar
  <2>1. Cmd(Head(aDatos)) \notin Contestan
    BY <1>1, <1>5 DEF PorContestar
  <2>2. Len(aDatos') > 0 /\ aDatos'[Len(aDatos')] = orden'
    BY <1>1, <1>5 DEF PorContestar
  <2>3. ASSUME NEW i \in 1..(Len(aDatos') - 1)
        PROVE  hist'[aDatos'[i]].cmd \notin Contestan
    <3>1. i + 1 \in 1..(Len(aDatos) - 1) /\ i + 1 \in 1..Len(aDatos)
          /\ aDatos'[i] = aDatos[i + 1]
      BY <1>1, <2>3
    <3>. QED BY <1>2, <1>5, <3>1 DEF PorContestar, Cmd
  <2>. QED BY <1>3, <2>1, <2>2, <2>3 DEF PorContestar, Cmd
<1>. QED BY <1>1, <1>3, <1>4, <1>5

LEMMA SinCdAntes ==
    ASSUME Tipos, Conserva, orden' \in Nat, orden <= orden', SinCd'
    PROVE  SinCd
<1>. SUFFICES ASSUME NEW m \in DOMAIN hist, m <= orden PROVE Cmd(m) # "CD"
  BY DEF SinCd
<1>1. m \in DOMAIN hist' /\ Cmd(m)' = Cmd(m)
  BY DEF Conserva, Cmd
<1>2. orden \in Nat /\ m \in Nat
  BY Lugar
<1>3. m <= orden'
  BY <1>2
<1>. QED BY <1>1, <1>3 DEF SinCd

LEMMA Largos ==
    ASSUME NEW l \in Nat
    PROVE  Len(Cuerpo(l)) = l /\ Len(Cabecera(l)) = TamCabecera
<1>1. ASSUME NEW k \in Nat PROVE Cuerpo(k) \in Seq(Unidad) /\ Len(Cuerpo(k)) = k
  <2>1. Cuerpo(k) \in Seq(Unidad) /\ DOMAIN Cuerpo(k) = 1..k
    BY Unidades DEF Cuerpo
  <2>. QED BY <2>1, LenProperties
<1>2. TamCabecera - 1 \in Nat /\ 1 + (TamCabecera - 1) = TamCabecera
  BY SesionAssumption
<1>3. Len(Cabecera(l)) = TamCabecera
  <2>. DEFINE u == <<[inicio |-> TRUE, largo |-> l]>>
  <2>1. u \in Seq(Unidad) /\ Len(u) = 1
    BY DEF Unidad
  <2>. HIDE DEF u
  <2>4. /\ Cuerpo(TamCabecera - 1) \in Seq(Unidad)
        /\ Len(Cuerpo(TamCabecera - 1)) = TamCabecera - 1
    BY <1>1, <1>2
  <2>2. Len(u \o Cuerpo(TamCabecera - 1)) = Len(u) + Len(Cuerpo(TamCabecera - 1))
    BY <2>1, <2>4, ConcatProperties
  <2>3. Cabecera(l) = u \o Cuerpo(TamCabecera - 1)
    BY DEF Cabecera, u
  <2>. QED BY <1>2, <2>1, <2>2, <2>3, <2>4
<1>. QED BY <1>1, <1>3

LEMMA TurnoCliente ==
    ASSUME Tipos, Turno, Cliente
    PROVE  Turno'
<1>1. /\ Conserva /\ UNCHANGED <<pcC, orden, pcD, aDatos, aComando>>
      /\ \A m \in DOMAIN hist : hist'[m] = hist[m]
  BY ClienteHist, ClienteAjeno DEF comando, canales
<1>2. (NadaPorContestar => NadaPorContestar') /\ (PorContestar => PorContestar')
  BY <1>1, ContestarQuieta
<1>3. pcC = "deleCabecera" => orden \in DOMAIN hist
  BY DEF Tipos, ComandoEnOrden
<1>. QED BY <1>1, <1>2, <1>3 DEF Turno, NadaQueLeer, EsperaRespuesta, DeleContestado,
                                 SizeContestado, SizeSinFin, EnSize

LEMMA TurnoComando ==
    ASSUME Tipos, Turno, HiloComando
    PROVE  Turno'
<1>0. pcD' = pcD /\ Conserva
  BY ComandoAjeno, ComandoTipos
<1>1. CASE Toma
  <2>1. /\ NadaQueLeer /\ pcC = "select" /\ aComando' = aComando
        /\ PrimeraOrden \in DOMAIN hist /\ orden' = PrimeraOrden
    BY <1>1, RecibeHist
       DEF Turno, NadaQueLeer, EsperaRespuesta, DeleContestado, SizeContestado, SizeSinFin,
           Toma, RecibeSimple, RecibePwd, RecibeLs, RecibeCd, RecibeConArchivo, Recibe, canales
  <2>2. CASE RecibeSimple \/ RecibePwd
    <3>1. aDatos' = aDatos /\ pcC' = "select"
      BY <2>1, <2>2 DEF RecibeSimple, RecibePwd, canales
    <3>2. NadaPorContestar'
      <4>1. \A i \in 1..Len(aDatos) : Cmd(aDatos[i])' = Cmd(aDatos[i])
        BY <1>0, <3>1, EnCamino DEF Tipos, Cmd
      <4>. QED BY <2>1, <3>1, <4>1 DEF NadaQueLeer, NadaPorContestar
    <3>. QED BY <1>0, <2>1, <3>1, <3>2 DEF Turno, NadaQueLeer, EnSize
  <2>3. CASE RecibeLs \/ RecibeCd \/ RecibeConArchivo
    <3>1. aDatos' = Append(aDatos, PrimeraOrden)
      BY <2>3 DEF RecibeLs, RecibeCd, RecibeConArchivo, AlHiloDatos
    <3>2. PorContestar' /\ (Cmd(PrimeraOrden) \notin Contestan => NadaPorContestar')
      BY <1>0, <2>1, <3>1, ContestarCrece DEF NadaQueLeer
    <3>3. CASE RecibeLs \/ RecibeCd
      <4>1. Cmd(PrimeraOrden) \notin Contestan /\ pcC' = pcC
        BY <3>3 DEF RecibeLs, RecibeCd, Recibe, Contestan
      <4>. QED BY <1>0, <2>1, <3>2, <4>1 DEF Turno, NadaQueLeer, EnSize
    <3>4. CASE RecibeConArchivo
      <4>1. /\ Cmd(PrimeraOrden) \in ConArchivo
            /\ pcC' = EsperaDe[Cmd(PrimeraOrden)]
        BY <3>4 DEF RecibeConArchivo, Recibe
      <4>2. \/ pcC' \in {"sizeRecv", "deleCabecera"}
            \/ pcC' = "espera150" /\ Cmd(PrimeraOrden) \notin Contestan
        BY <4>1 DEF EsperaDe, ConArchivo, Contestan
      <4>. QED BY <1>0, <2>1, <3>2, <4>2
               DEF Turno, NadaQueLeer, EsperaRespuesta, EnSize
    <3>. QED BY <2>3, <3>3, <3>4
  <2>. QED BY <1>1, <2>2, <2>3 DEF Toma
<1>2. CASE ~Toma
  <2>1. /\ UNCHANGED <<orden, aDatos>>
        /\ \A m \in DOMAIN hist : hist'[m].hecho = hist[m].hecho
    BY <1>2, ComandoSigueEn
  <2>2. (NadaPorContestar => NadaPorContestar') /\ (PorContestar => PorContestar')
    BY <1>0, <2>1, ContestarQuieta
  <2>3. CASE RecibeFin \/ Espera150 \/ SueltaComando \/ Espera226
    <3>1. /\ NadaQueLeer /\ aComando' = aComando
          /\ pcC' \notin EnSize \union {"deleCabecera"}
      BY <2>3 DEF Turno, NadaQueLeer, EsperaRespuesta, DeleContestado, SizeContestado,
                  SizeSinFin, RecibeFin, Espera150, SueltaComando, Espera226, canales, EnSize
    <3>. QED BY <1>0, <2>2, <3>1 DEF Turno, NadaQueLeer
  <2>4. CASE SizeRecv
    <3>1. SizeContestado /\ aComando' = <<>> /\ pcC' = "sizeCabecera"
      BY <2>4 DEF Turno, NadaQueLeer, EsperaRespuesta, DeleContestado, SizeContestado,
                  SizeSinFin, SizeRecv, EnSize
    <3>2. Len(aComando') < TamCabecera
      BY <3>1, SesionAssumption
    <3>. QED BY <2>2, <3>1, <3>2 DEF Turno, SizeContestado, SizeSinFin
  <2>5. CASE SizeCabecera \/ SizeCuerpo
    <3>1. SizeSinFin /\ Len(aComando) >= TamCabecera
      BY <2>5 DEF Turno, NadaQueLeer, EsperaRespuesta, DeleContestado, SizeContestado,
                  SizeSinFin, SizeCabecera, SizeCuerpo, RecibirH, RecibirAlgo, EnSize
    <3>2. Len(aComando) \in Nat /\ TamCabecera \in Nat
      BY SesionAssumption, LenProperties DEF Tipos, TiposHilos
    <3>. QED BY <3>1, <3>2 DEF SizeSinFin
  <2>6. CASE DeleCabecera
    <3>1. /\ pcC = "deleCabecera" /\ Len(aComando) >= TamCabecera /\ pcC' = "select"
          /\ aComando' = SubSeq(aComando, TamCabecera + 1, Len(aComando))
      BY <2>6 DEF DeleCabecera, RecibirH, RecibirAlgo
    <3>2. DeleContestado
      <4>1. aComando # <<>>
        BY <3>1, SesionAssumption
      <4>. QED BY <3>1, <4>1 DEF Turno, NadaQueLeer, EsperaRespuesta, SizeContestado, SizeSinFin
    <3>3. aComando' = <<>>
      BY <3>1, <3>2, SesionAssumption, SubSeqProperties DEF DeleContestado, Tipos, TiposHilos
    <3>. QED BY <1>0, <2>2, <3>1, <3>2, <3>3 DEF Turno, NadaQueLeer, DeleContestado, EnSize
  <2>. QED BY <1>2, <2>3, <2>4, <2>5, <2>6 DEF HiloComando, Toma
<1>. QED BY <1>1, <1>2

LEMMA TipoSigueA ==
    ASSUME NEW c \in Transferencias
    PROVE  SigueA[c] \in {"lista", "suelta1"}
  BY DEF SigueA, Clases, Transferencias

LEMMA TurnoDatos ==
    ASSUME Tipos, Turnos, SinCd, Turno, HiloDatos, TextoCorto
    PROVE  Turno'
<1>0. /\ UNCHANGED <<pcC, orden>> /\ Conserva
      /\ \A m \in DOMAIN hist : hist[m].hecho => hist'[m].hecho
      /\ pcC \in EnSize \union {"deleCabecera"} => orden \in DOMAIN hist
  BY DatosHecho, DatosAjeno DEF comando, Conserva, Tipos, ComandoEnOrden, EnSize
<1>1. CASE LeeTransferencia
  <2>1. /\ aDatos # <<>> /\ aDatos' = Tail(aDatos) /\ Cmd(Head(aDatos)) \notin Contestan
        /\ pcD = "select" /\ aComando' = aComando /\ pcD' # "sizeCuerpo"
    <3>1. /\ aDatos # <<>> /\ aDatos' = Tail(aDatos) /\ pcD = "select"
          /\ Cmd(Head(aDatos)) \in Transferencias
      BY <1>1, LeeOrdenHist DEF LeeTransferencia
    <3>2. pcD' # "sizeCuerpo"
      BY <1>1, <3>1 DEF LeeTransferencia, SigueA, Clases, Transferencias
    <3>. QED BY <1>1, <3>1, <3>2 DEF LeeTransferencia, Transferencias, Contestan
  <2>2. /\ NadaPorContestar => NadaPorContestar'
        /\ PorContestar /\ Cmd(orden) \in Contestan => PorContestar'
    BY <1>0, <2>1, ContestarLeida
  <2>3. pcC \in {"sizeRecv", "deleCabecera"} => Cmd(orden) \in Contestan
    BY DEF Turnos, EsperaLoSuyo, EnSize, Contestan
  <2>. QED BY <1>0, <2>1, <2>2, <2>3
           DEF Turno, NadaQueLeer, EsperaRespuesta, DeleContestado, SizeContestado, SizeSinFin,
               EnSize
\* SIZE and DELE: only the order that hiloComando waits for.
<1>2. ASSUME NEW c \in Contestan, LeeOrden({c})
      PROVE  /\ EsperaRespuesta /\ Cmd(orden) = c /\ pedido' = orden /\ NadaPorContestar'
  <2>1. /\ aDatos # <<>> /\ aDatos' = Tail(aDatos) /\ Cmd(Head(aDatos)) = c
        /\ pedido' = Head(aDatos)
    BY <1>2, LeeOrdenHist
  <2>2. EsperaRespuesta
    BY <1>0, <1>2, <2>1, ContestarLeida
       DEF Turno, NadaQueLeer, DeleContestado, SizeContestado, SizeSinFin
  <2>3. Cmd(orden) \in Contestan
    BY <2>2 DEF EsperaRespuesta, Turnos, EsperaLoSuyo, EnSize, Contestan
  <2>4. Head(aDatos) = orden /\ NadaPorContestar'
    BY <1>0, <1>2, <2>1, <2>2, <2>3, ContestarLeida DEF EsperaRespuesta
  <2>. QED BY <2>1, <2>2, <2>4
<1>3. CASE LeeSize
  <2>1. EsperaRespuesta /\ Cmd(orden) = "SIZE" /\ NadaPorContestar'
    BY <1>2, <1>3 DEF LeeSize, Contestan
  <2>2. pcC = "sizeRecv"
    BY <2>1 DEF EsperaRespuesta, Turnos, EsperaLoSuyo
  <2>. QED BY <1>0, <2>1, <2>2 DEF Turno, SizeContestado
<1>4. CASE LeeDele
  <2>1. EsperaRespuesta /\ Cmd(orden) = "DELE" /\ pedido' = orden /\ NadaPorContestar'
    BY <1>2, <1>4 DEF LeeDele, Contestan
  <2>2. pcC = "deleCabecera"
    BY <2>1 DEF EsperaRespuesta, Turnos, EsperaLoSuyo, EnSize
  <2>3. pcD' # "sizeCuerpo" /\ aComando' = aComando \o Cabecera(LargoTexto)
    BY <1>4 DEF LeeDele, LeeOrden, EnviarAlgo
  <2>4. Len(aComando') = TamCabecera
    <3>1. /\ LargoTexto \in Nat /\ Cabecera(LargoTexto) \in Seq(Unidad)
          /\ Len(Cabecera(LargoTexto)) = TamCabecera /\ TamCabecera \in Nat
      BY SesionAssumption, Unidades, Largos
    <3>2. aComando = <<>> /\ Len(aComando) = 0 /\ aComando \in Seq(Unidad)
      BY <2>1 DEF EsperaRespuesta, Tipos, TiposHilos
    <3>3. Len(aComando') = Len(aComando) + Len(Cabecera(LargoTexto))
      BY <2>3, <3>1, <3>2, ConcatProperties
    <3>. QED BY <3>1, <3>2, <3>3
  <2>5. hist'[orden].hecho
    <3>1. /\ Head(aDatos) = orden /\ orden \in DOMAIN hist
          /\ hist' = [hist EXCEPT ![orden].ruta = Directorio, ![orden].hecho = TRUE]
      BY <1>4, <2>1, LeeOrdenHist DEF LeeDele
    <3>2. hist \in Seq(Registro) /\ hist[orden] \in Registro
      BY <3>1, Registros DEF Tipos, TiposHist
    <3>. QED BY <3>1, <3>2 DEF Registro
  <2>. QED BY <1>0, <2>1, <2>2, <2>3, <2>4, <2>5 DEF Turno, DeleContestado
\* No CD was taken yet.
<1>5. CASE LeeCd
  <2>1. aDatos # <<>> /\ Cmd(Head(aDatos)) = "CD" /\ Head(aDatos) \in DOMAIN hist
    BY <1>5, LeeOrdenHist DEF LeeCd
  <2>2. Head(aDatos) <= orden
    BY <2>1, LecturaEnOrden, LecturasHist, <1>5 DEF Lecturas
  <2>. QED BY <2>1, <2>2 DEF SinCd
<1>6. CASE ~Lecturas
  <2>1. aDatos' = aDatos
    BY <1>6, NoLecturas
  <2>2. (NadaPorContestar => NadaPorContestar') /\ (PorContestar => PorContestar')
    BY <1>0, <2>1, ContestarQuieta
  <2>3. CASE MandaTamanio
    <3>1. /\ SizeContestado \/ (SizeSinFin /\ aComando = <<>>)
          /\ pcD' = "select" /\ aComando' = aComando \o Cuerpo(LargoTexto)
      BY <2>3 DEF Turno, NadaQueLeer, EsperaRespuesta, DeleContestado, SizeSinFin,
                  MandaTamanio, EnviarAlgo
    <3>2. CASE SizeContestado
      BY <1>0, <2>2, <3>2 DEF Turno, SizeContestado
    <3>3. CASE SizeSinFin /\ aComando = <<>>
      <4>1. /\ LargoTexto \in Nat /\ Cuerpo(LargoTexto) \in Seq(Unidad)
            /\ Len(Cuerpo(LargoTexto)) = LargoTexto
        BY SesionAssumption, Unidades, Largos
      <4>2. aComando = <<>> /\ Len(aComando) = 0 /\ aComando \in Seq(Unidad)
        BY <3>3 DEF Tipos, TiposHilos
      <4>3. Len(aComando') = Len(aComando) + Len(Cuerpo(LargoTexto))
        BY <3>1, <4>1, <4>2, ConcatProperties
      <4>4. Len(aComando') < TamCabecera
        BY <4>1, <4>2, <4>3, SesionAssumption DEF TextoCorto
      <4>. QED BY <1>0, <2>2, <3>1, <3>3, <4>4 DEF Turno, SizeSinFin
    <3>. QED BY <3>1, <3>2, <3>3
  <2>4. CASE pcD' # "sizeCuerpo" /\ aComando' = aComando
    BY <1>0, <2>2, <2>4 DEF Turno, NadaQueLeer, EsperaRespuesta, DeleContestado,
                            SizeContestado, SizeSinFin, EnSize
  <2>. QED BY <1>6, <2>3, <2>4, TipoSigueA
           DEF HiloDatos, Lecturas, Select, AceptaPorSelect, AceptaConOrden, Lista,
               SueltaPrimera, EsperaDatos, Descarga, Sube, SueltaSegunda, canales, Tipos,
               DatosEnOrden
<1>. QED BY <1>1, <1>3, <1>4, <1>5, <1>6 DEF Lecturas

LEMMA RespuestaPaso ==
    ASSUME OInv, InvRespuesta, TextoCorto, [Next]_vars
    PROVE  InvRespuesta'
<1>. USE DEF OInv, IInv
<1>1. OInv' /\ Tipos /\ Tipos'
  BY OInvPaso
<1>2. CASE UNCHANGED vars
  BY <1>2 DEF vars, cliente, comando, canales, InvRespuesta, SinCd, Turno, NadaQueLeer,
              EsperaRespuesta, DeleContestado, SizeContestado, SizeSinFin, NadaPorContestar,
              PorContestar, RespuestaDeSuOrden, Cmd
<1>3. ASSUME Next
      PROVE  /\ Conserva /\ orden' \in Nat /\ orden <= orden'
             /\ \A m \in DOMAIN hist' : m \in DOMAIN hist \/ hist'[m].resp = {}
             /\ DOMAIN hist' \subseteq Nat
  <2>0. orden' \in Nat /\ orden \in Nat /\ DOMAIN hist' = 1..Len(hist') /\ Len(hist') \in Nat
    BY <1>1, Lugar, LenProperties DEF Tipos, TiposHist
  <2>1. CASE Cliente
    BY <2>0, <2>1, ClienteHist, ClienteAjeno DEF comando
  <2>2. CASE HiloDatos
    BY <2>0, <2>2, DatosHecho, DatosAjeno DEF comando
  <2>3. CASE HiloComando
    <3>1. Conserva /\ DOMAIN hist' = DOMAIN hist
      BY <2>3, ComandoTipos, ComandoHist DEF NotaComando
    <3>2. CASE Toma
      BY <2>0, <3>1, <3>2, RecibeHist, TomaNueva DEF Toma
    <3>3. CASE ~Toma
      BY <2>0, <2>3, <3>1, <3>3, ComandoSigueEn
    <3>. QED BY <3>2, <3>3
  <2>. QED BY <1>3, <2>1, <2>2, <2>3 DEF Next
<1>4. ASSUME Next, SinCd' PROVE Turno'
  <2>1. SinCd /\ Turno
    BY <1>3, <1>4, SinCdAntes DEF InvRespuesta
  <2>. QED BY <1>4, <2>1, TurnoCliente, TurnoComando, TurnoDatos DEF Next
<1>5. ASSUME Next PROVE RespuestaDeSuOrden'
  <2>. SUFFICES ASSUME NEW n \in DOMAIN hist', Cmd(n)' = "DELE", "226" \in hist'[n].resp,
                       \A m \in 1..(n - 1) : Cmd(m)' # "CD"
                PROVE  hist'[n].hecho
    BY DEF RespuestaDeSuOrden
  <2>1. /\ n \in DOMAIN hist /\ Cmd(n) = "DELE" /\ n \in Nat
        /\ hist[n].hecho => hist'[n].hecho
        /\ \A m \in 1..(n - 1) : Cmd(m) # "CD"
    <3>1. n \in DOMAIN hist /\ hist'[n].cmd = hist[n].cmd /\ (hist[n].hecho => hist'[n].hecho)
      BY <1>3, <1>5 DEF Conserva
    <3>2. \A m \in 1..(n - 1) : m \in DOMAIN hist
      BY <3>1, Lugar
    <3>3. \A m \in 1..(n - 1) : Cmd(m)' = Cmd(m)
      BY <1>3, <1>5, <3>2 DEF Conserva, Cmd
    <3>. QED BY <3>1, <3>3, Lugar DEF Cmd
  <2>2. CASE "226" \in hist[n].resp
    BY <2>1, <2>2 DEF InvRespuesta, RespuestaDeSuOrden
  <2>3. CASE "226" \notin hist[n].resp
    <3>1. HiloComando /\ ~Toma /\ n = orden
      <4>1. ~Cliente /\ ~HiloDatos
        BY <2>1, <2>3, ClienteHist, DatosHist DEF NotaDatos
      <4>2. HiloComando
        BY <1>5, <4>1 DEF Next
      <4>. QED BY <2>1, <2>3, <4>2, RecibeHist, ComandoSigueEn DEF Toma, Solo
    <3>2. pcC \notin EnAviso /\ pcC \notin EnSize
      BY <2>1, <3>1 DEF Tipos, ComandoEnOrden, Fichas, Turnos, EsperaLoSuyo
    <3>3. pcC = "deleCabecera" /\ Len(aComando) >= TamCabecera
      BY <2>3, <3>1, <3>2
         DEF HiloComando, Toma, RecibeFin, SizeRecv, SizeCabecera, SizeCuerpo, DeleCabecera,
             Espera150, SueltaComando, Espera226, RecibirH, RecibirAlgo, cliente, EnAviso,
             EnSize
    <3>4. SinCd
      <4>. SUFFICES ASSUME NEW m \in DOMAIN hist, m <= n PROVE Cmd(m) # "CD"
        BY <3>1 DEF SinCd
      <4>1. m \in 1..(n - 1) \/ m = n
        BY <2>1, Lugar
      <4>. QED BY <2>1, <4>1
    <3>5. aComando # <<>>
      BY <3>3, SesionAssumption
    <3>6. DeleContestado
      BY <3>3, <3>4, <3>5 DEF InvRespuesta, Turno, NadaQueLeer, EsperaRespuesta,
                              SizeContestado, SizeSinFin
    <3>. QED BY <2>1, <3>1, <3>6 DEF DeleContestado
  <2>. QED BY <2>2, <2>3
<1>. QED BY <1>2, <1>4, <1>5 DEF InvRespuesta

\* DELE is confirmed (line 280) after hiloDatos attended it (475), while no CD
\* left its answer (482) unread before.  A header is read whole only where one
\* was sent: the text of a size is shorter.
THEOREM ConfirmaLoSuyo == TextoCorto => (Spec => []RespuestaDeSuOrden)
<1>. SUFFICES ASSUME TextoCorto PROVE Spec => []RespuestaDeSuOrden
  OBVIOUS
<1>1. Init => InvRespuesta
  BY RespuestaInit
<1>2. OInv /\ InvRespuesta /\ [Next]_vars => InvRespuesta'
  BY RespuestaPaso
<1>3. InvRespuesta => RespuestaDeSuOrden
  BY DEF InvRespuesta
<1>. QED BY <1>1, <1>2, <1>3, OInvSiempre, PTL DEF Spec


-----------------------------------------------------------------------------
(* The two copies of the current directory, with one order at a time.      *)

Ninguna(clases, m, n) ==
    \A k \in DOMAIN hist : m < k /\ k <= n => Cmd(k) \notin clases

\* hiloComando has the directory of the last CD it took; and still the one of the
\* last LS, with no CD or PWD after it.
RutaComando ==
    \A m \in DOMAIN hist : m <= orden =>
        /\ Cmd(m) = "CD" /\ Ninguna({"CD"}, m, orden) => directorioActual = hist[m].arg
        /\ Cmd(m) = "LS" /\ Ninguna({"CD", "PWD"}, m, orden)
             => directorioActual = hist[m].base

\* An order took it as its base.
RutaPedida ==
    \A m, n \in DOMAIN hist : m < n /\ n <= orden =>
        /\ Cmd(n) = "STOR" /\ Cmd(m) = "CD" /\ Ninguna({"LS", "CD"}, m, n - 1)
             => hist[n].base = hist[m].arg
        /\ Cmd(n) = "RETR" /\ Cmd(m) = "LS" /\ Ninguna({"LS", "CD", "PWD"}, m, n - 1)
             => hist[n].base = hist[m].base

\* hiloDatos has in Directorio the one of the last CD it read, unless an LS wrote
\* over it, and in directorioAux the one of the last LS; it will read every CD.
RutaDatos ==
    \A m \in DOMAIN hist :
        /\ Cmd(m) = "CD" /\ m <= pedido /\ Ninguna({"LS", "CD"}, m, pedido)
             => Directorio = hist[m].arg
        /\ Cmd(m) = "LS" /\ hist[m].hecho /\ Ninguna({"LS"}, m, pedido)
             => directorioAux = hist[m].base
        /\ Cmd(m) = "CD" /\ pedido < m /\ m <= orden
             => \E i \in 1..Len(aDatos) : aDatos[i] = m

InvRuta == RutaComando /\ RutaPedida /\ RutaDatos /\ RutaConocida

LEMMA RutaInit ==
    ASSUME Init
    PROVE  InvRuta
  BY EmptySeq DEF Init, InvRuta, RutaComando, RutaPedida, RutaDatos, RutaConocida

\* What came before an order not taken yet, and waits for something, was taken.
LEMMA AntesTomadas ==
    ASSUME Tipos, Turnos, UnaPorVez, NEW p \in DOMAIN hist, NEW m \in DOMAIN hist, m < p,
           Cmd(m) \in {"CD", "LS", "STOR", "RETR"}
    PROVE  m <= orden
<1>1. /\ DOMAIN hist = 1..Len(hist) /\ Len(hist) \in Nat /\ m \in Nat /\ p \in Nat
      /\ orden \in Nat /\ pedido \in Nat
  BY Lugar
<1>2. Terminada(m)
  <2>1. p <= Len(hist)
    BY <1>1
  <2>. QED BY <1>1, <2>1 DEF UnaPorVez
<1>3. ASSUME m > orden PROVE FALSE
  <2>1. hist[m].resp = {}
    BY <1>3 DEF Turnos, SinEmpezar
  <2>2. m > pedido
    BY <1>1, <1>3 DEF Turnos, ColaEnOrden
  <2>3. ~hist[m].hecho
    BY <2>2 DEF Turnos, SinEmpezar
  <2>. QED BY <1>2, <2>1, <2>3 DEF Terminada
<1>. QED BY <1>1, <1>3

\* An LS before another order was listed.
LEMMA ListaHecha ==
    ASSUME Tipos, UnaPorVez, NEW p \in DOMAIN hist, NEW m \in DOMAIN hist, m < p,
           Cmd(m) = "LS"
    PROVE  hist[m].hecho
<1>1. m < Len(hist)
  <2>1. /\ DOMAIN hist = 1..Len(hist) /\ Len(hist) \in Nat /\ m \in Nat /\ p \in Nat
    BY Lugar
  <2>2. p <= Len(hist)
    BY <2>1
  <2>. QED BY <2>1, <2>2
<1>. QED BY <1>1 DEF UnaPorVez, Terminada

\* What the steps of each thread do to the directories of an order.
LEMMA ComandoRutas ==
    ASSUME Tipos, HiloComando
    PROVE  /\ \A m \in DOMAIN hist :
                /\ hist'[m].ruta = hist[m].ruta /\ hist'[m].hecho = hist[m].hecho
                /\ hist'[m].base = hist[m].base \/ (Toma /\ m = orden')
           /\ Toma /\ Cmd(orden') \in {"LS", "STOR", "RETR"}
                => hist'[orden'].base = directorioActual
<1>1. CASE Toma
  <2>1. PrimeraOrden \in DOMAIN hist /\ orden' = PrimeraOrden /\ Solo(PrimeraOrden)
        /\ hist'[PrimeraOrden].hecho = hist[PrimeraOrden].hecho
    BY <1>1, RecibeHist DEF Toma
  <2>2. CASE RecibeSimple \/ RecibePwd \/ RecibeCd
    <3>1. PICK cs \in {{}, {"200"}, {"257"}, {"250"}} : hist' = Responder(PrimeraOrden, cs)
      BY <2>2 DEF RecibeSimple, RecibePwd, RecibeCd
    <3>2. cs \in SUBSET Codigos
      BY <3>1 DEF Codigos
    <3>3. Cmd(PrimeraOrden) \notin {"LS", "STOR", "RETR"}
      BY <2>2 DEF RecibeSimple, RecibePwd, RecibeCd, Recibe
    <3>4. hist'[PrimeraOrden].ruta = hist[PrimeraOrden].ruta
      BY <2>1, <3>1, <3>2, ResponderConserva DEF Tipos, TiposHist
    <3>. QED BY <1>1, <2>1, <3>3, <3>4 DEF Solo
  <2>3. CASE RecibeLs \/ RecibeConArchivo
    <3>1. hist' = [hist EXCEPT ![PrimeraOrden].base = directorioActual]
      BY <2>3 DEF RecibeLs, RecibeConArchivo
    <3>2. directorioActual \in Rutas
      BY DEF Tipos, TiposComando
    <3>3. /\ hist'[PrimeraOrden].ruta = hist[PrimeraOrden].ruta
          /\ hist'[PrimeraOrden].base = directorioActual
      BY <2>1, <3>1, <3>2, BaseConserva DEF Tipos, TiposHist
    <3>. QED BY <1>1, <2>1, <3>3 DEF Solo
  <2>. QED BY <1>1, <2>2, <2>3 DEF Toma
<1>2. CASE hist' = hist /\ ~Toma
  BY <1>2
<1>3. CASE SizeCuerpo \/ DeleCabecera \/ Espera150 \/ Espera226
  <2>1. PICK c \in Codigos : hist' = Responder(orden, {c})
    BY <1>3 DEF SizeCuerpo, DeleCabecera, Espera150, Espera226, Codigos
  <2>2. orden \in DOMAIN hist /\ {c} \in SUBSET Codigos
    BY <1>3 DEF SizeCuerpo, DeleCabecera, Espera150, Espera226, RecibirH, Tipos,
                ComandoEnOrden
  <2>3. /\ Solo(orden) /\ hist'[orden].ruta = hist[orden].ruta
        /\ hist'[orden].hecho = hist[orden].hecho /\ hist'[orden].base = hist[orden].base
    BY <2>1, <2>2, ResponderConserva DEF Tipos, TiposHist
  <2>4. ~Toma
    BY <1>3 DEF Toma, RecibeSimple, RecibePwd, RecibeLs, RecibeCd, RecibeConArchivo, Recibe,
                SizeCuerpo, DeleCabecera, Espera150, Espera226, RecibirH
  <2>. QED BY <2>3, <2>4 DEF Solo
<1>. QED BY <1>1, <1>2, <1>3 DEF HiloComando, Toma, RecibeFin, SizeRecv, SizeCabecera,
                                 SueltaComando, cliente

LEMMA DatosRutas ==
    ASSUME Tipos, HiloDatos
    PROVE  \A m \in DOMAIN hist :
             /\ hist'[m].base = hist[m].base
             /\ Cmd(m) \in Fichas =>
                  \/ hist'[m].ruta = hist[m].ruta /\ hist'[m].hecho = hist[m].hecho
                  \/ m = pedido /\ (Descarga \/ Sube)
             /\ Cmd(m) = "LS" => hist'[m].hecho = hist[m].hecho \/ (m = pedido /\ Lista)
<1>1. CASE hist' = hist
  BY <1>1
<1>2. CASE LeeTransferencia \/ AceptaConOrden
  <2>1. PICK n \in DOMAIN hist, c \in 0..MaxOrdenes :
          hist' = [hist EXCEPT ![n].con = c] \/ hist' = hist
    <3>1. CASE LeeTransferencia
      <4>1. Head(aDatos) \in DOMAIN hist
        BY <3>1, LeeOrdenHist DEF LeeTransferencia
      <4>2. socketClienteFTP \in 0..MaxOrdenes
        BY SesionAssumption DEF Tipos, TiposConexion
      <4>. QED BY <3>1, <4>1, <4>2 DEF LeeTransferencia
    <3>2. CASE AceptaConOrden
      <4>1. pedido \in DOMAIN hist /\ pendientes # <<>>
        BY <3>2 DEF AceptaConOrden, Tipos, DatosEnOrden
      <4>2. Head(pendientes) \in 0..MaxOrdenes
        BY <3>2, <4>1, AceptarTipo, SesionAssumption DEF AceptaConOrden, Tipos
      <4>. QED BY <3>2, <4>1, <4>2 DEF AceptaConOrden
    <3>. QED BY <1>2, <3>1, <3>2
  <2>2. CASE hist' = [hist EXCEPT ![n].con = c]
    BY <2>1, <2>2, ConConserva DEF Tipos, TiposHist, Solo
  <2>. QED BY <1>1, <2>1, <2>2
<1>3. CASE Lista \/ MandaTamanio \/ LeeCd
  <2>1. /\ pedido' \in DOMAIN hist /\ hist' = Hecho(pedido')
        /\ \/ Cmd(pedido') \in {"SIZE", "CD"}
           \/ Cmd(pedido') = "LS" /\ Lista /\ pedido' = pedido
    BY <1>3, LeeOrdenHist DEF Lista, MandaTamanio, LeeCd, Tipos, DatosEnOrden
  <2>2. Solo(pedido') /\ hist'[pedido'].base = hist[pedido'].base
    BY <2>1, HechoConserva DEF Tipos, TiposHist
  <2>. QED BY <2>1, <2>2 DEF Solo, Fichas
<1>4. CASE LeeDele \/ Descarga \/ Sube
  <2>1. /\ pedido' \in DOMAIN hist
        /\ \/ Cmd(pedido') = "DELE"
           \/ pedido' = pedido /\ Cmd(pedido) \in Fichas /\ (Descarga \/ Sube)
    BY <1>4, LeeOrdenHist DEF LeeDele, Descarga, Sube, Tipos, DatosEnOrden, Fichas
  <2>2. PICK b \in {Directorio, directorioAux} :
          hist' = [hist EXCEPT ![pedido'].ruta = b, ![pedido'].hecho = TRUE]
    <3>1. CASE LeeDele
      BY <3>1, LeeOrdenHist DEF LeeDele
    <3>2. CASE Descarga \/ Sube
      BY <3>2 DEF Descarga, Sube, SubirArchivo
    <3>. QED BY <1>4, <3>1, <3>2
  <2>3. b \in Rutas
    BY <2>2 DEF Tipos, TiposCarpeta
  <2>4. Solo(pedido') /\ hist'[pedido'].base = hist[pedido'].base
    BY <2>1, <2>2, <2>3, RutaConserva DEF Tipos, TiposHist
  <2>. QED BY <2>1, <2>4 DEF Solo, Fichas
<1>. QED BY <1>1, <1>2, <1>3, <1>4
     DEF HiloDatos, Select, AceptaPorSelect, LeeSize, SueltaPrimera, EsperaDatos,
         SueltaSegunda, cliente

\* The last order of a class before another, in the form of Ninguna.
LEMMA UltimaDa ==
    ASSUME Tipos, NEW n \in DOMAIN hist, NEW clases, NEW c, UltimaAntes(n, clases, c)
    PROVE  \E m \in DOMAIN hist : m < n /\ Cmd(m) = c /\ Ninguna(clases, m, n - 1)
<1>1. DOMAIN hist = 1..Len(hist) /\ Len(hist) \in Nat /\ n \in Nat
  BY Lugar
<1>2. PICK m \in 1..(n - 1) :
        Cmd(m) = c /\ \A k \in (m + 1)..(n - 1) : Cmd(k) \notin clases
  BY DEF UltimaAntes
<1>3. m \in DOMAIN hist /\ m < n
  BY <1>1, <1>2
<1>4. \A k \in DOMAIN hist : m < k /\ k <= n - 1 => k \in (m + 1)..(n - 1)
  BY <1>1, <1>2
<1>. QED BY <1>2, <1>3, <1>4 DEF Ninguna

LEMMA UltimaQueda ==
    ASSUME Tipos, Conserva, NEW n \in DOMAIN hist, NEW clases, NEW c,
           UltimaAntes(n, clases, c)'
    PROVE  UltimaAntes(n, clases, c)
<1>1. DOMAIN hist = 1..Len(hist) /\ Len(hist) \in Nat /\ n \in Nat
  BY Lugar
<1>2. \A k \in 1..(n - 1) : hist'[k].cmd = hist[k].cmd
  BY <1>1 DEF Conserva
<1>3. \A m \in 1..(n - 1) : \A k \in (m + 1)..(n - 1) : k \in 1..(n - 1)
  BY <1>1
<1>. QED BY <1>2, <1>3 DEF UltimaAntes, Cmd

\* A step that keeps the directories of the orders done keeps this.
LEMMA ConocidaQueda ==
    ASSUME Tipos, Conserva, RutaConocida,
           \A n \in DOMAIN hist' : hist'[n].hecho /\ hist'[n].cmd \in Fichas =>
             /\ n \in DOMAIN hist /\ hist[n].hecho
             /\ hist'[n].ruta = hist[n].ruta /\ hist'[n].base = hist[n].base
    PROVE  RutaConocida'
<1>. SUFFICES ASSUME NEW n \in DOMAIN hist', hist'[n].hecho
              PROVE  /\ Cmd(n)' = "STOR" /\ UltimaAntes(n, {"LS", "CD"}, "CD")'
                          => hist'[n].ruta = hist'[n].base
                     /\ Cmd(n)' = "RETR" /\ UltimaAntes(n, {"LS", "CD", "PWD"}, "LS")'
                          => hist'[n].ruta = hist'[n].base
  BY DEF RutaConocida
<1>1. CASE Cmd(n)' \in Fichas
  <2>1. /\ n \in DOMAIN hist /\ hist[n].hecho /\ Cmd(n)' = Cmd(n)
        /\ hist'[n].ruta = hist[n].ruta /\ hist'[n].base = hist[n].base
    BY <1>1 DEF Conserva, Cmd
  <2>. QED BY <2>1, UltimaQueda DEF RutaConocida
<1>2. CASE Cmd(n)' \notin Fichas
  BY <1>2 DEF Fichas
<1>. QED BY <1>1, <1>2

LEMMA RutaCliente ==
    ASSUME Tipos, Turnos, InvRuta, Cliente
    PROVE  InvRuta'
<1>1. /\ Conserva /\ DOMAIN hist \subseteq DOMAIN hist' /\ Len(hist) \in Nat
      /\ \A m \in DOMAIN hist : hist'[m] = hist[m]
      /\ \A m \in DOMAIN hist' : m \in DOMAIN hist \/ (m = Len(hist) + 1 /\ ~hist'[m].hecho)
      /\ UNCHANGED <<orden, pedido, directorioActual, aDatos, Directorio, directorioAux>>
  BY ClienteHist, ClienteAjeno, Lugar DEF comando, canales, carpeta, Conserva
<1>2. \A m \in DOMAIN hist' : m <= orden \/ m <= pedido => m \in DOMAIN hist
  BY <1>1, Lugar DEF Turnos, ColaEnOrden
<1>3. \A m \in DOMAIN hist' : m \in Nat
  BY <1>1, Lugar
<1>4. RutaComando'
  BY <1>1, <1>2 DEF InvRuta, RutaComando, Ninguna, Cmd
<1>5. RutaPedida'
  <2>1. \A m, n \in DOMAIN hist' : m < n /\ n <= orden => m \in DOMAIN hist /\ n \in DOMAIN hist
    <3>. SUFFICES ASSUME NEW m \in DOMAIN hist', NEW n \in DOMAIN hist', m < n, n <= orden
                  PROVE  m <= orden
      BY <1>2
    <3>. QED BY <1>3, Lugar
  <2>. QED BY <1>1, <2>1 DEF InvRuta, RutaPedida, Ninguna, Cmd
<1>6. RutaDatos'
  BY <1>1, <1>2 DEF InvRuta, RutaDatos, Ninguna, Cmd
<1>7. RutaConocida'
  BY <1>1, ConocidaQueda DEF InvRuta
<1>. QED BY <1>4, <1>5, <1>6, <1>7 DEF InvRuta

\* What taking an order does to the directory of hiloComando.
LEMMA TomaDirectorio ==
    ASSUME Tipos, Toma
    PROVE  /\ Cmd(orden') = "CD" => directorioActual' = hist[orden'].arg
           /\ Cmd(orden') \notin {"CD", "PWD"} => directorioActual' = directorioActual
           /\ Cmd(orden') = "PWD" /\ directorioActual \in Carpetas
                => directorioActual' = directorioActual
           /\ aDatos' = aDatos \/ aDatos' = Append(aDatos, orden')
           /\ Cmd(orden') = "CD" => aDatos' = Append(aDatos, orden')
<1>1. orden' = PrimeraOrden
  BY RecibeHist DEF Toma
<1>2. Vacio \notin Carpetas
  BY SesionAssumption
<1>. QED BY <1>1, <1>2 DEF Toma, RecibeSimple, RecibePwd, RecibeLs, RecibeCd, RecibeConArchivo,
                           Recibe, AlHiloDatos, ConArchivo, canales

LEMMA RutaComandoPaso ==
    ASSUME Tipos, Marcas, Turnos, UnaPorVez, InvRuta, HiloComando
    PROVE  InvRuta'
<1>1. /\ Conserva /\ DOMAIN hist' = DOMAIN hist /\ DOMAIN hist \subseteq Nat
      /\ \A m \in DOMAIN hist :
           /\ hist'[m].cmd = hist[m].cmd /\ hist'[m].arg = hist[m].arg
           /\ hist'[m].ruta = hist[m].ruta /\ hist'[m].hecho = hist[m].hecho
           /\ hist'[m].base = hist[m].base \/ (Toma /\ m = orden')
      /\ UNCHANGED <<pedido, Directorio, directorioAux>>
  BY ComandoTipos, ComandoRutas, ComandoHist, ComandoAjeno, Lugar
     DEF NotaComando, Conserva, carpeta
<1>2. CASE ~Toma
  <2>1. UNCHANGED <<orden, aDatos, directorioActual>>
    BY <1>2, ComandoSigueEn
  <2>2. RutaComando' /\ RutaPedida'
    BY <1>1, <1>2, <2>1 DEF InvRuta, RutaComando, RutaPedida, Ninguna, Cmd
  <2>3. RutaDatos'
    BY <1>1, <1>2, <2>1 DEF InvRuta, RutaDatos, Ninguna, Cmd
  <2>4. RutaConocida'
    BY <1>1, <1>2, ConocidaQueda DEF InvRuta
  <2>. QED BY <2>2, <2>3, <2>4 DEF InvRuta
<1>3. CASE Toma
  <2>1. PICK p \in Nat : p = orden' /\ p \in DOMAIN hist /\ orden < p
    BY <1>1, <1>3, RecibeHist, TomaNueva DEF Toma
  <2>2. /\ orden \in Nat /\ pedido \in Nat /\ pedido <= orden /\ orden <= p - 1
    BY <2>1, Lugar DEF Turnos, ColaEnOrden
  <2>3. ASSUME NEW m \in DOMAIN hist, m < p, Cmd(m) \in {"CD", "LS", "STOR", "RETR"}
        PROVE  m <= orden /\ m # p /\ m \in Nat
    BY <1>1, <2>1, <2>3, AntesTomadas
  <2>4. RutaComando'
    <3>. SUFFICES ASSUME NEW m \in DOMAIN hist, m <= p
                  PROVE  /\ Cmd(m)' = "CD" /\ Ninguna({"CD"}, m, p)'
                              => directorioActual' = hist'[m].arg
                         /\ Cmd(m)' = "LS" /\ Ninguna({"CD", "PWD"}, m, p)'
                              => directorioActual' = hist'[m].base
      BY <1>1, <2>1 DEF RutaComando
    <3>1. CASE m = p
      <4>1. Cmd(m)' = Cmd(m) /\ m = orden'
        BY <1>1, <2>1, <3>1 DEF Cmd
      <4>. QED BY <1>1, <1>3, <4>1, TomaDirectorio, ComandoRutas
    <3>2. CASE m < p /\ Cmd(m) \in {"CD", "LS"}
      <4>1. m <= orden /\ m # p /\ m \in Nat
        BY <2>3, <3>2
      <4>2. \A cl : Ninguna(cl, m, p)' => Ninguna(cl, m, orden) /\ Cmd(p) \notin cl
        BY <1>1, <2>1, <2>2, <3>2 DEF Ninguna, Cmd
      <4>3. /\ Cmd(m)' = Cmd(m) /\ hist'[m].arg = hist[m].arg /\ hist'[m].base = hist[m].base
        BY <1>1, <2>1, <4>1 DEF Cmd
      <4>4. Cmd(m) = "CD" => hist[m].arg \in Carpetas
        BY DEF Tipos, TiposHist, Argumentos
      <4>5. /\ Cmd(m) = "CD" /\ Ninguna({"CD"}, m, orden) => directorioActual = hist[m].arg
            /\ Cmd(m) = "LS" /\ Ninguna({"CD", "PWD"}, m, orden)
                 => directorioActual = hist[m].base
        BY <4>1 DEF InvRuta, RutaComando
      <4>6. CASE Cmd(m) = "CD"
        BY <1>3, <2>1, <4>2, <4>3, <4>4, <4>5, <4>6, TomaDirectorio
      <4>7. CASE Cmd(m) = "LS"
        BY <1>3, <2>1, <4>2, <4>3, <4>5, <4>7, TomaDirectorio
      <4>. QED BY <3>2, <4>6, <4>7
    <3>3. CASE Cmd(m) \notin {"CD", "LS"}
      BY <1>1, <3>3 DEF Cmd
    <3>. QED BY <1>1, <2>1, <3>1, <3>2, <3>3
  <2>5. RutaPedida'
    <3>. SUFFICES ASSUME NEW m \in DOMAIN hist, NEW n \in DOMAIN hist, m < n, n <= p
                  PROVE  /\ Cmd(n)' = "STOR" /\ Cmd(m)' = "CD"
                           /\ Ninguna({"LS", "CD"}, m, n - 1)'
                              => hist'[n].base = hist'[m].arg
                         /\ Cmd(n)' = "RETR" /\ Cmd(m)' = "LS"
                           /\ Ninguna({"LS", "CD", "PWD"}, m, n - 1)'
                              => hist'[n].base = hist'[m].base
      BY <1>1, <2>1 DEF RutaPedida
    <3>1. /\ Cmd(n)' = Cmd(n) /\ Cmd(m)' = Cmd(m) /\ hist'[m].arg = hist[m].arg
          /\ m \in Nat /\ n \in Nat /\ m # p /\ m < p /\ hist'[m].base = hist[m].base
      <4>1. Cmd(n)' = Cmd(n) /\ Cmd(m)' = Cmd(m) /\ hist'[m].arg = hist[m].arg
        BY <1>1 DEF Cmd
      <4>2. m \in Nat /\ n \in Nat
        BY <1>1
      <4>3. m < p /\ m # p
        BY <4>2
      <4>. QED BY <1>1, <2>1, <4>1, <4>2, <4>3
    <3>2. /\ Ninguna({"LS", "CD"}, m, n - 1)' => Ninguna({"LS", "CD"}, m, n - 1)
          /\ Ninguna({"LS", "CD", "PWD"}, m, n - 1)'
               => Ninguna({"LS", "CD", "PWD"}, m, n - 1)
      BY <1>1 DEF Ninguna, Cmd
    <3>3. CASE n # p /\ Cmd(n) \in {"STOR", "RETR"}
      <4>1. n <= orden /\ hist'[n].base = hist[n].base
        BY <1>1, <2>1, <2>3, <3>1, <3>3
      <4>2. /\ Cmd(n) = "STOR" /\ Cmd(m) = "CD" /\ Ninguna({"LS", "CD"}, m, n - 1)
                 => hist[n].base = hist[m].arg
            /\ Cmd(n) = "RETR" /\ Cmd(m) = "LS" /\ Ninguna({"LS", "CD", "PWD"}, m, n - 1)
                 => hist[n].base = hist[m].base
        BY <4>1 DEF InvRuta, RutaPedida
      <4>. QED BY <3>1, <3>2, <4>1, <4>2
    <3>4. CASE n = p /\ Cmd(n) \in {"STOR", "RETR"} /\ Cmd(m) \in {"CD", "LS"}
      <4>1. m <= orden
        BY <2>3, <3>1, <3>4
      <4>2. hist'[n].base = directorioActual
        BY <1>3, <2>1, <3>4, ComandoRutas
      <4>3. \A k \in DOMAIN hist : k <= orden => k <= n - 1
        BY <1>1, <2>2, <3>1, <3>4
      <4>4. /\ Cmd(m) = "CD" /\ Ninguna({"CD"}, m, orden) => directorioActual = hist[m].arg
            /\ Cmd(m) = "LS" /\ Ninguna({"CD", "PWD"}, m, orden)
                 => directorioActual = hist[m].base
        BY <4>1 DEF InvRuta, RutaComando
      <4>5. /\ Ninguna({"LS", "CD"}, m, n - 1) => Ninguna({"CD"}, m, orden)
            /\ Ninguna({"LS", "CD", "PWD"}, m, n - 1) => Ninguna({"CD", "PWD"}, m, orden)
        BY <4>3 DEF Ninguna
      <4>. QED BY <3>1, <3>2, <4>2, <4>4, <4>5
    <3>5. CASE Cmd(n) \notin {"STOR", "RETR"} \/ Cmd(m) \notin {"CD", "LS"}
      BY <3>1, <3>5
    <3>. QED BY <3>3, <3>4, <3>5
  <2>6. RutaDatos'
    <3>. SUFFICES ASSUME NEW m \in DOMAIN hist
                  PROVE  /\ Cmd(m)' = "CD" /\ m <= pedido /\ Ninguna({"LS", "CD"}, m, pedido)'
                              => Directorio = hist'[m].arg
                         /\ Cmd(m)' = "LS" /\ hist'[m].hecho /\ Ninguna({"LS"}, m, pedido)'
                              => directorioAux = hist'[m].base
                         /\ Cmd(m)' = "CD" /\ pedido < m /\ m <= p
                              => \E i \in 1..Len(aDatos') : aDatos'[i] = m
      BY <1>1, <2>1 DEF RutaDatos
    <3>1. /\ Cmd(m)' = Cmd(m) /\ hist'[m].arg = hist[m].arg /\ m \in Nat
          /\ hist'[m].hecho = hist[m].hecho
      BY <1>1 DEF Cmd
    <3>2. \A cl : Ninguna(cl, m, pedido)' => Ninguna(cl, m, pedido)
      BY <1>1 DEF Ninguna, Cmd
    <3>3. hist[m].hecho => hist'[m].base = hist[m].base
      <4>1. hist[m].hecho => ~(m > pedido)
        BY DEF Turnos, SinEmpezar
      <4>2. ~(m > pedido) => m # p
        BY <2>1, <2>2
      <4>. QED BY <1>1, <2>1, <4>1, <4>2
    <3>4. ASSUME Cmd(m) = "CD", pedido < m, m <= p
          PROVE  \E i \in 1..Len(aDatos') : aDatos'[i] = m
      <4>1. /\ Len(aDatos) \in Nat
            /\ aDatos' = aDatos \/ aDatos' = Append(aDatos, p)
            /\ m = p => aDatos' = Append(aDatos, p)
        BY <1>3, <2>1, <3>4, TomaDirectorio, Lugar
      <4>2. aDatos' = Append(aDatos, p) =>
              /\ Len(aDatos') = Len(aDatos) + 1 /\ aDatos'[Len(aDatos) + 1] = p
              /\ \A i \in 1..Len(aDatos) : aDatos'[i] = aDatos[i]
        BY <2>1, AppendProperties DEF Tipos, TiposHist
      <4>3. CASE m = p
        <5>1. Len(aDatos) + 1 \in 1..Len(aDatos') /\ aDatos'[Len(aDatos) + 1] = m
          BY <4>1, <4>2, <4>3
        <5>. QED BY <5>1
      <4>4. CASE m # p
        <5>1. m <= orden
          BY <2>3, <3>1, <3>4, <4>4
        <5>2. PICK i \in 1..Len(aDatos) : aDatos[i] = m
          BY <3>4, <5>1 DEF InvRuta, RutaDatos
        <5>3. Len(aDatos') \in Nat /\ Len(aDatos') >= Len(aDatos) /\ aDatos'[i] = aDatos[i]
          BY <4>1, <4>2, <5>2
        <5>4. i \in 1..Len(aDatos') /\ aDatos'[i] = m
          BY <4>1, <5>2, <5>3
        <5>. QED BY <5>4
      <4>. QED BY <4>3, <4>4
    <3>. QED BY <3>1, <3>2, <3>3, <3>4 DEF InvRuta, RutaDatos
  <2>7. RutaConocida'
    <3>1. ASSUME NEW n \in DOMAIN hist, hist'[n].hecho PROVE hist'[n].base = hist[n].base
      <4>1. hist[n].hecho /\ ~(n > pedido) /\ n \in Nat
        BY <1>1, <3>1 DEF Turnos, SinEmpezar
      <4>2. n # p
        BY <2>1, <2>2, <4>1
      <4>. QED BY <1>1, <2>1, <4>2
    <3>. QED BY <1>1, <3>1, ConocidaQueda DEF InvRuta
  <2>. QED BY <2>4, <2>5, <2>6, <2>7 DEF InvRuta
<1>. QED BY <1>2, <1>3

\* What the steps of hiloDatos do to its copies of the directory.
LEMMA DatosDirectorios ==
    ASSUME Tipos, HiloDatos
    PROVE  /\ Directorio' # Directorio =>
                \/ Lecturas /\ Cmd(pedido') = "CD"
                \/ pcD = "lista"
           /\ Lecturas /\ Cmd(pedido') = "CD" => Directorio' = hist[pedido'].arg
           /\ directorioAux' = directorioAux \/ Lista
           /\ Lista => /\ pedido' = pedido /\ pedido \in DOMAIN hist /\ Cmd(pedido) = "LS"
                       /\ directorioAux' = hist[pedido].base
           /\ pcD = "lista" => ~Lecturas /\ Cmd(pedido) = "LS" /\ pedido \in DOMAIN hist
<1>1. Lista => ~Lecturas /\ pcD = "lista" /\ pedido' = pedido
               /\ directorioAux' = hist[pedido].base
  BY DEF Lista, Lecturas, LeeTransferencia, LeeSize, LeeDele, LeeCd, LeeOrden
<1>2. pcD = "lista" => ~Lecturas /\ Cmd(pedido) = "LS" /\ pedido \in DOMAIN hist
  BY DEF Lecturas, LeeTransferencia, LeeSize, LeeDele, LeeCd, LeeOrden, Tipos, DatosEnOrden
<1>3. CASE Lecturas
  <2>1. CASE LeeCd
    BY <1>1, <1>2, <1>3, <2>1, LeeOrdenHist DEF LeeCd
  <2>2. CASE LeeTransferencia \/ LeeSize \/ LeeDele
    <3>1. Cmd(pedido') # "CD" /\ UNCHANGED <<Directorio, directorioAux>>
      BY <2>2, LeeOrdenHist DEF LeeTransferencia, LeeSize, LeeDele, Transferencias, carpeta
    <3>. QED BY <1>1, <1>2, <1>3, <3>1
  <2>. QED BY <1>3, <2>1, <2>2 DEF Lecturas
<1>4. CASE Lista
  BY <1>1, <1>2, <1>4
<1>5. CASE UNCHANGED <<Directorio, directorioAux>> /\ ~Lecturas
  BY <1>1, <1>2, <1>5
<1>. QED BY <1>3, <1>4, <1>5
     DEF HiloDatos, Lecturas, Select, AceptaPorSelect, AceptaConOrden, MandaTamanio,
         SueltaPrimera, EsperaDatos, Descarga, Sube, SueltaSegunda, carpeta

LEMMA RutaDatosPaso ==
    ASSUME Tipos, Marcas, Turnos, UnaPorVez, InvRuta, HiloDatos
    PROVE  InvRuta'
<1>1. /\ Conserva /\ DOMAIN hist' = DOMAIN hist /\ DOMAIN hist \subseteq Nat
      /\ \A m \in DOMAIN hist :
           /\ hist'[m].cmd = hist[m].cmd /\ hist'[m].arg = hist[m].arg
           /\ hist'[m].base = hist[m].base
      /\ UNCHANGED <<orden, directorioActual>>
      /\ pedido \in Nat /\ orden \in Nat /\ pedido <= orden
  BY DatosHecho, DatosRutas, DatosAjeno, Lugar DEF Conserva, comando, Turnos, ColaEnOrden
<1>2. RutaComando'
  BY <1>1 DEF InvRuta, RutaComando, Ninguna, Cmd
<1>3. RutaPedida'
  BY <1>1 DEF InvRuta, RutaPedida, Ninguna, Cmd
<1>4. RutaDatos'
  <2>1. PICK p \in Nat : p = pedido' /\ pedido <= p /\ (pedido < p => Lecturas)
                         /\ (~Lecturas => p = pedido)
    <3>1. CASE Lecturas
      BY <1>1, <3>1, LecturaEnOrden
    <3>2. CASE ~Lecturas
      BY <1>1, <3>2, NoLecturas
    <3>. QED BY <3>1, <3>2
  <2>. SUFFICES ASSUME NEW m \in DOMAIN hist
                PROVE  /\ Cmd(m)' = "CD" /\ m <= p /\ Ninguna({"LS", "CD"}, m, p)'
                            => Directorio' = hist'[m].arg
                       /\ Cmd(m)' = "LS" /\ hist'[m].hecho /\ Ninguna({"LS"}, m, p)'
                            => directorioAux' = hist'[m].base
                       /\ Cmd(m)' = "CD" /\ p < m /\ m <= orden
                            => \E i \in 1..Len(aDatos') : aDatos'[i] = m
    BY <1>1, <2>1 DEF RutaDatos
  <2>2. /\ Cmd(m)' = Cmd(m) /\ hist'[m].arg = hist[m].arg /\ hist'[m].base = hist[m].base
        /\ m \in Nat
    BY <1>1 DEF Cmd
  <2>3. /\ Ninguna({"LS", "CD"}, m, p)' => Ninguna({"LS", "CD"}, m, pedido)
        /\ Ninguna({"LS"}, m, p)' => Ninguna({"LS"}, m, pedido)
    <3>1. \A k \in DOMAIN hist : k <= pedido => k <= p
      BY <1>1, <2>1
    <3>. QED BY <1>1, <3>1 DEF Ninguna, Cmd
  <2>4. ASSUME Cmd(m) = "CD", m <= p, Ninguna({"LS", "CD"}, m, p)'
        PROVE  Directorio' = hist[m].arg
    <3>1. CASE Lecturas
      <4>1. /\ p \in DOMAIN hist /\ pedido < p /\ p <= orden /\ p = aDatos[1]
            /\ Len(aDatos) > 0 /\ Len(aDatos) \in Nat
        BY <2>1, <3>1, LecturaEnOrden, Lugar
      <4>2. CASE m = p
        BY <2>1, <2>4, <3>1, <4>2, DatosDirectorios
      <4>3. CASE m < p
        <5>1. Cmd(p) \notin {"LS", "CD"}
          <6>1. hist'[p].cmd \notin {"LS", "CD"}
            BY <1>1, <2>4, <4>1, <4>3 DEF Ninguna, Cmd
          <6>. QED BY <1>1, <4>1, <6>1 DEF Cmd
        <5>2. Directorio' = Directorio
          BY <2>1, <3>1, <5>1, DatosDirectorios
        <5>3. m <= pedido
          <6>. SUFFICES ASSUME pedido < m PROVE FALSE
            BY <1>1, <2>2
          <6>1. m <= orden
            BY <1>1, <2>2, <4>1, <4>3
          <6>2. PICK i \in 1..Len(aDatos) : aDatos[i] = m
            BY <2>4, <6>1 DEF InvRuta, RutaDatos
          <6>3. i # 1
            BY <2>2, <4>1, <4>3, <6>2
          <6>4. 1 \in 1..Len(aDatos) /\ 1 < i
            BY <4>1, <6>2, <6>3
          <6>5. aDatos[1] < aDatos[i]
            BY <6>2, <6>4 DEF Turnos, ColaEnOrden
          <6>. QED BY <2>2, <4>1, <4>3, <6>2, <6>5
        <5>. QED BY <2>3, <2>4, <5>2, <5>3 DEF InvRuta, RutaDatos
      <4>. QED BY <2>1, <2>2, <2>4, <4>2, <4>3
    <3>2. CASE ~Lecturas
      <4>1. p = pedido
        BY <2>1, <3>2
      <4>2. CASE pcD = "lista"
        <5>1. Cmd(pedido) = "LS" /\ pedido \in DOMAIN hist
          BY <4>2, DatosDirectorios
        <5>2. m < pedido
          BY <1>1, <2>2, <2>4, <4>1, <5>1
        <5>. QED BY <1>1, <2>3, <2>4, <5>1, <5>2 DEF Ninguna
      <4>3. CASE Directorio' = Directorio
        BY <2>3, <2>4, <4>1, <4>3 DEF InvRuta, RutaDatos
      <4>. QED BY <3>2, <4>2, <4>3, DatosDirectorios
    <3>. QED BY <3>1, <3>2
  <2>5. ASSUME Cmd(m) = "LS", hist'[m].hecho, Ninguna({"LS"}, m, p)'
        PROVE  directorioAux' = hist[m].base
    <3>1. CASE Lista
      <4>1. /\ pedido \in DOMAIN hist /\ Cmd(pedido) = "LS" /\ pedido' = pedido
            /\ directorioAux' = hist[pedido].base
        BY <3>1, DatosDirectorios
      <4>2. CASE m = pedido
        BY <4>1, <4>2
      <4>3. CASE m < pedido
        <5>1. Ninguna({"LS"}, m, pedido) /\ pedido <= pedido
          BY <1>1, <2>3, <2>5
        <5>. QED BY <4>1, <4>3, <5>1 DEF Ninguna
      <4>4. CASE m > pedido
        <5>1. ~hist[m].hecho
          BY <4>4 DEF Turnos, SinEmpezar
        <5>2. hist'[m] = hist[m]
          BY <1>1, <2>2, <4>1, <4>4, DatosHecho
        <5>. QED BY <2>5, <5>1, <5>2
      <4>. QED BY <1>1, <2>2, <4>2, <4>3, <4>4
    <3>2. CASE ~Lista
      <4>1. hist[m].hecho
        BY <2>5, <3>2, DatosRutas
      <4>2. directorioAux' = directorioAux
        BY <3>2, DatosDirectorios
      <4>. QED BY <2>3, <2>5, <4>1, <4>2 DEF InvRuta, RutaDatos
    <3>. QED BY <3>1, <3>2
  <2>6. ASSUME Cmd(m) = "CD", p < m, m <= orden
        PROVE  \E i \in 1..Len(aDatos') : aDatos'[i] = m
    <3>1. pedido < m
      BY <1>1, <2>1, <2>2, <2>6
    <3>2. PICK i \in 1..Len(aDatos) : aDatos[i] = m
      BY <2>6, <3>1 DEF InvRuta, RutaDatos
    <3>3. CASE ~Lecturas
      BY <3>2, <3>3, NoLecturas
    <3>4. CASE Lecturas
      <4>1. /\ Len(aDatos') = Len(aDatos) - 1 /\ Len(aDatos) \in Nat /\ aDatos[1] = p
            /\ \A j \in 1..Len(aDatos') : aDatos'[j] = aDatos[j + 1]
        BY <2>1, <3>4, LecturaEnOrden, Lugar
      <4>2. i # 1
        BY <2>1, <2>2, <2>6, <3>2, <4>1
      <4>3. i - 1 \in 1..Len(aDatos') /\ (i - 1) + 1 = i
        BY <3>2, <4>1, <4>2
      <4>4. aDatos'[i - 1] = m
        BY <3>2, <4>1, <4>3
      <4>. QED BY <4>3, <4>4
    <3>. QED BY <3>3, <3>4
  <2>. QED BY <2>2, <2>4, <2>5, <2>6
<1>5. RutaConocida'
  <2>1. CASE ~(Descarga \/ Sube)
    <3>1. \A n \in DOMAIN hist : hist[n].cmd \in Fichas =>
            hist'[n].ruta = hist[n].ruta /\ hist'[n].hecho = hist[n].hecho
      BY <2>1, DatosRutas DEF Cmd
    <3>. QED BY <1>1, <3>1, ConocidaQueda DEF InvRuta
  <2>2. CASE Descarga \/ Sube
    <3>1. /\ pedido \in DOMAIN hist /\ pcD = "transfiere"
          /\ Descarga => Cmd(pedido) = "RETR"
          /\ Sube => Cmd(pedido) = "STOR"
      BY <2>2 DEF Descarga, Sube, Tipos, DatosEnOrden
    <3>2. /\ Descarga => hist'[pedido].ruta = directorioAux
          /\ Sube => hist'[pedido].ruta = Directorio
      <4>1. PICK b \in {directorioAux, Directorio} :
              /\ hist' = [hist EXCEPT ![pedido].ruta = b, ![pedido].hecho = TRUE]
              /\ Descarga => b = directorioAux
              /\ Sube => b = Directorio
        BY <2>2, <3>1 DEF Descarga, Sube, SubirArchivo
      <4>2. b \in Rutas
        BY <4>1 DEF Tipos, TiposCarpeta
      <4>. QED BY <3>1, <4>1, <4>2, RutaConserva DEF Tipos, TiposHist
    <3>. SUFFICES ASSUME NEW n \in DOMAIN hist, hist'[n].hecho
                  PROVE  /\ Cmd(n)' = "STOR" /\ UltimaAntes(n, {"LS", "CD"}, "CD")'
                              => hist'[n].ruta = hist'[n].base
                         /\ Cmd(n)' = "RETR" /\ UltimaAntes(n, {"LS", "CD", "PWD"}, "LS")'
                              => hist'[n].ruta = hist'[n].base
      BY <1>1 DEF RutaConocida
    <3>3. Cmd(n)' = Cmd(n) /\ hist'[n].base = hist[n].base
      BY <1>1 DEF Cmd
    <3>4. CASE n # pedido /\ Cmd(n) \in Fichas
      <4>1. hist'[n].ruta = hist[n].ruta /\ hist[n].hecho
        BY <3>4, DatosRutas
      <4>. QED BY <1>1, <3>3, <4>1, UltimaQueda DEF InvRuta, RutaConocida
    <3>5. ASSUME n = pedido, Cmd(n) = "STOR", UltimaAntes(n, {"LS", "CD"}, "CD")'
          PROVE  hist'[n].ruta = hist'[n].base
      <4>1. UltimaAntes(n, {"LS", "CD"}, "CD")
        BY <1>1, <3>5, UltimaQueda
      <4>2. PICK m \in DOMAIN hist : m < n /\ Cmd(m) = "CD" /\ Ninguna({"LS", "CD"}, m, n - 1)
        BY <4>1, UltimaDa
      <4>3. hist[n].base = hist[m].arg
        BY <1>1, <3>5, <4>2 DEF InvRuta, RutaPedida
      <4>4. m <= pedido /\ Ninguna({"LS", "CD"}, m, pedido)
        <5>1. \A k \in DOMAIN hist : k <= pedido => k <= n - 1 \/ k = n
          BY <1>1, <3>5
        <5>. QED BY <1>1, <3>5, <4>2, <5>1 DEF Ninguna
      <4>5. Directorio = hist[m].arg
        BY <4>2, <4>4 DEF InvRuta, RutaDatos
      <4>. QED BY <2>2, <3>1, <3>2, <3>3, <3>5, <4>3, <4>5
    <3>6. ASSUME n = pedido, Cmd(n) = "RETR", UltimaAntes(n, {"LS", "CD", "PWD"}, "LS")'
          PROVE  hist'[n].ruta = hist'[n].base
      <4>1. UltimaAntes(n, {"LS", "CD", "PWD"}, "LS")
        BY <1>1, <3>6, UltimaQueda
      <4>2. PICK m \in DOMAIN hist :
              m < n /\ Cmd(m) = "LS" /\ Ninguna({"LS", "CD", "PWD"}, m, n - 1)
        BY <4>1, UltimaDa
      <4>3. hist[n].base = hist[m].base
        BY <1>1, <3>6, <4>2 DEF InvRuta, RutaPedida
      <4>4. Ninguna({"LS"}, m, pedido)
        <5>1. \A k \in DOMAIN hist : k <= pedido => k <= n - 1 \/ k = n
          BY <1>1, <3>6
        <5>. QED BY <1>1, <3>6, <4>2, <5>1 DEF Ninguna
      <4>5. directorioAux = hist[m].base
        BY <4>2, <4>4, ListaHecha DEF InvRuta, RutaDatos
      <4>. QED BY <2>2, <3>1, <3>2, <3>3, <3>6, <4>3, <4>5
    <3>. QED BY <3>3, <3>4, <3>5, <3>6 DEF Fichas
  <2>. QED BY <2>1, <2>2
<1>. QED BY <1>2, <1>3, <1>4, <1>5 DEF InvRuta

\* With a client that waits for the end of each order, the directory that
\* hiloComando keeps and the two of hiloDatos agree where both got theirs from the
\* same order: a STOR after a CD stores where CD said, a RETR after a LIST reads
\* where LIST listed.
THEOREM RutaSegura == Paciente => (Spec => []RutaConocida)
<1>. SUFFICES ASSUME Paciente PROVE Spec => []RutaConocida
  OBVIOUS
<1>1. Init => InvConexion /\ InvRuta
  BY ConexionInit, RutaInit
<1>2. OInv /\ InvConexion /\ [Next]_vars => InvConexion'
  BY ConexionPaso
<1>3. OInv /\ InvConexion /\ InvRuta /\ [Next]_vars => InvRuta'
  <2>. SUFFICES ASSUME OInv, InvConexion, InvRuta, [Next]_vars PROVE InvRuta'
    OBVIOUS
  <2>1. CASE UNCHANGED vars
    BY <2>1 DEF vars, cliente, comando, conexion, carpeta, canales, InvRuta, RutaComando,
                RutaPedida, RutaDatos, RutaConocida, UltimaAntes, Ninguna, Cmd
  <2>. QED BY <2>1, RutaCliente, RutaComandoPaso, RutaDatosPaso
           DEF Next, OInv, IInv, InvConexion
<1>4. InvRuta => RutaConocida
  BY DEF InvRuta
<1>. QED BY <1>1, <1>2, <1>3, <1>4, OInvSiempre, PTL DEF Spec

=============================================================================

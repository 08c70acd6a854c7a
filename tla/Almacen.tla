------------------------------- MODULE Almacen -------------------------------
(***************************************************************************)
(* What a disk without a cache promises to those connected to it: a store  *)
(* of sectors that attends each request at one instant, in the order each  *)
(* connection sent them; a read returns what is stored, OK means that all  *)
(* the sectors of the write are stored and FALLA that perhaps the first    *)
(* ones are; nothing stored is lost when the disk stops.                   *)
(***************************************************************************)
EXTENDS Integers, Sequences

CONSTANTS
    Clientes,
    Ids,            \* the sectors of the store
    Contenidos      \* what a sector may hold

VARIABLES
    contenido,      \* the content of each sector
    entrada,        \* what each client asked and was not attended
    salida          \* what each client was answered and has not read

vars == <<contenido, entrada, salida>>

\* A request: the sectors it names and, in a write, what goes in each of them.
Lecturas == [t : {"LEE"}, s : Seq(Int), d : {<<>>}]
Escrituras == {p \in [t : {"GRABA", "GRABA SIN AVISO"}, s : Seq(Int), d : Seq(Contenidos)] :
                   Len(p.s) = Len(p.d)}
Otros == [t : {"OTRO"}, s : {<<>>}, d : {<<>>}]
Pedidos == Lecturas \union Escrituras \union Otros

\* The store after the first n sectors of the write p.
Grabado(p, n) ==
    [s \in Ids |->
        LET k == {i \in 1..n : p.s[i] = s}
        IN IF k = {} THEN contenido[s]
                     ELSE p.d[CHOOSE i \in k : \A j \in k : j <= i]]

Init ==
    /\ contenido \in [Ids -> Contenidos]
    /\ entrada = [c \in Clientes |-> <<>>]
    /\ salida = [c \in Clientes |-> <<>>]

Pedir(c) ==
    /\ Len(entrada'[c]) > 0
    /\ LET p == entrada'[c][Len(entrada'[c])]
       IN p \in Pedidos /\ entrada' = [entrada EXCEPT ![c] = Append(@, p)]
    /\ UNCHANGED <<contenido, salida>>

Atiende(c, tipos) ==
    /\ entrada[c] # <<>>
    /\ Head(entrada[c]).t \in tipos
    /\ entrada' = [entrada EXCEPT ![c] = Tail(@)]

Responde(c, t, d) == salida' = [salida EXCEPT ![c] = Append(@, [t |-> t, d |-> d])]

Leer(c) ==
    /\ Atiende(c, {"LEE"})
    /\ LET s == Head(entrada[c]).s
       IN /\ \A k \in DOMAIN s : s[k] \in Ids
          /\ Responde(c, "DATOS", [k \in DOMAIN s |-> contenido[s[k]]])
    /\ UNCHANGED contenido

\* A confirmed write is whole; every sector of it exists.
Grabar(c) ==
    /\ Atiende(c, {"GRABA"})
    /\ LET p == Head(entrada[c])
       IN /\ \A k \in DOMAIN p.s : p.s[k] \in Ids
          /\ contenido' = Grabado(p, Len(p.s))
    /\ Responde(c, "OK", <<>>)

\* A refused write leaves its last sector as it was.
Rechazar(c) ==
    /\ Atiende(c, {"GRABA"})
    /\ LET p == Head(entrada[c])
       IN \E n \in 0..Len(p.s) - 1 : contenido' = Grabado(p, n)
    /\ Responde(c, "FALLA", <<>>)

\* A write that nobody answers may be lost.
GrabarSinAviso(c) ==
    /\ Atiende(c, {"GRABA SIN AVISO"})
    /\ LET p == Head(entrada[c])
       IN \E n \in 0..Len(p.s) : contenido' = Grabado(p, n)
    /\ UNCHANGED salida

Otro(c) ==
    /\ Atiende(c, {"OTRO"})
    /\ Responde(c, "OTRA", <<>>)
    /\ UNCHANGED contenido

Recibir(c) ==
    /\ salida[c] # <<>>
    /\ salida' = [salida EXCEPT ![c] = Tail(@)]
    /\ UNCHANGED <<contenido, entrada>>

\* A read of a sector that does not exist is taken and never answered.
Trabar(c) ==
    /\ Atiende(c, {"LEE"})
    /\ \E k \in DOMAIN Head(entrada[c]).s : Head(entrada[c]).s[k] \notin Ids
    /\ UNCHANGED <<contenido, salida>>

\* The disk stops, perhaps in the middle of a write: the connections are lost.
Cortar ==
    /\ \/ UNCHANGED contenido
       \/ \E c \in Clientes : \E n \in 1..2 :
            /\ entrada[c] # <<>>
            /\ n <= Len(Head(entrada[c]).d)
            /\ contenido' = Grabado(Head(entrada[c]), n)
    /\ entrada' = [c \in Clientes |-> <<>>]
    /\ salida' = [c \in Clientes |-> <<>>]

Next ==
    \/ \E c \in Clientes :
         \/ Pedir(c) \/ Leer(c) \/ Grabar(c) \/ Rechazar(c)
         \/ GrabarSinAviso(c) \/ Otro(c) \/ Recibir(c) \/ Trabar(c)
    \/ Cortar

Spec == Init /\ [][Next]_vars
=============================================================================

------------------------------ MODULE VskProofs ------------------------------
(***************************************************************************)
(* Theorems about the accounts of the sectors: for any files, sectors,     *)
(* clients, failures of LDAP and undefined accesses, a sector has one      *)
(* owner and none is lost.  A sector is in the list of free ones, in a     *)
(* file, in the answer that gives it to the VSK or in the request that     *)
(* adds it to a file.  The first part says how each operation on a list,   *)
(* on the table of files and on a queue changes who holds a sector; the    *)
(* second what a handler of the SFS may do; the third what a handler of    *)
(* the VSK may ask for; the fourth joins them.  The parts after it are     *)
(* about the sessions: the answers reach who asked, because while nothing  *)
(* of what RespuestaPropia excepts happens each descriptor is the one of   *)
(* its session and what travels is one message, of a session that waits.   *)
(***************************************************************************)
EXTENDS Vsk, FiniteSetTheorems, SequenceTheorems, WellFoundedInduction, TLAPS

-----------------------------------------------------------------------------
(* Who holds a sector *)

\* A sequence of whatever things.
EsSec(q) == q \in Seq({q[j] : j \in DOMAIN q})

\* A list holds a sector, or holds it once at most.
HayEn(l, s) == \E k \in DOMAIN l : l[k] = s
UnoEn(l, s) == \A j, k \in DOMAIN l : l[j] = s /\ l[k] = s => j = k

\* The same of a message, if it is of type t.
HayPar(m, t, s) == m.t = t /\ HayEn(m.s, s)
UnoPar(m, t, s) == m.t = t => UnoEn(m.s, s)

\* Of a queue.
HayCola(d, t, s) == \E j \in DOMAIN d : HayPar(d[j], t, s)
UnoCola(d, t, s) == /\ \A j \in DOMAIN d : UnoPar(d[j], t, s)
                    /\ \A j, i \in DOMAIN d : HayPar(d[j], t, s) /\ HayPar(d[i], t, s) => j = i

\* Of the files of a table but one.
HayResto(f, a, s) == \E b \in Archivos \ {a} : HayEn(f[b].sec, s)
UnoResto(f, a, s) ==
    /\ \A b \in Archivos \ {a} : UnoEn(f[b].sec, s)
    /\ \A b, c \in Archivos \ {a} : HayEn(f[b].sec, s) /\ HayEn(f[c].sec, s) => b = c

\* And of the table.
HayTabla(f, s) == \E b \in Archivos : HayEn(f[b].sec, s)
UnoTabla(f, s) == /\ \A b \in Archivos : UnoEn(f[b].sec, s)
                  /\ \A b, c \in Archivos : HayEn(f[b].sec, s) /\ HayEn(f[c].sec, s) => b = c

\* One owner at most, among the free ones, the files, the answers and the requests.
UnoSolo(l, f, d, q, s) ==
    /\ UnoEn(l, s) /\ UnoTabla(f, s) /\ UnoCola(d, "DOS", s) /\ UnoCola(q, "AGREGAR", s)
    /\ HayEn(l, s) => ~HayTabla(f, s) /\ ~HayCola(d, "DOS", s) /\ ~HayCola(q, "AGREGAR", s)
    /\ HayTabla(f, s) => ~HayCola(d, "DOS", s) /\ ~HayCola(q, "AGREGAR", s)
    /\ HayCola(d, "DOS", s) => ~HayCola(q, "AGREGAR", s)

\* One owner at least.
Alguno(l, f, d, q, s) ==
    HayEn(l, s) \/ HayTabla(f, s) \/ HayCola(d, "DOS", s) \/ HayCola(q, "AGREGAR", s)

\* Two lists, one after the other.
LEMMA Seguidas ==
    ASSUME NEW a \in Seq(Int), NEW b \in Seq(Int), NEW s
    PROVE  /\ HayEn(a \o b, s) <=> HayEn(a, s) \/ HayEn(b, s)
           /\ UnoEn(a \o b, s) <=> UnoEn(a, s) /\ UnoEn(b, s) /\ ~(HayEn(a, s) /\ HayEn(b, s))
<1> DEFINE c == a \o b
<1>1. /\ DOMAIN a = 1..Len(a) /\ DOMAIN b = 1..Len(b) /\ DOMAIN c = 1..Len(a) + Len(b)
      /\ Len(a) \in Nat /\ Len(b) \in Nat
  OBVIOUS
<1>2. \A k \in DOMAIN c : c[k] = IF k <= Len(a) THEN a[k] ELSE b[k - Len(a)]
  OBVIOUS
<1>3. \A k \in DOMAIN a : k \in DOMAIN c /\ c[k] = a[k]
  BY <1>1, <1>2
<1>4. \A k \in DOMAIN b : k + Len(a) \in DOMAIN c /\ c[k + Len(a)] = b[k]
  BY <1>1, <1>2
<1>5. \A k \in DOMAIN c : \/ k \in DOMAIN a /\ c[k] = a[k]
                          \/ k - Len(a) \in DOMAIN b /\ c[k] = b[k - Len(a)]
  BY <1>1, <1>2
<1> HIDE DEF c
<1>6. HayEn(c, s) <=> HayEn(a, s) \/ HayEn(b, s)
  BY <1>3, <1>4, <1>5 DEF HayEn
<1>7. UnoEn(c, s) => UnoEn(a, s) /\ UnoEn(b, s) /\ ~(HayEn(a, s) /\ HayEn(b, s))
  <2> SUFFICES ASSUME UnoEn(c, s) PROVE UnoEn(a, s) /\ UnoEn(b, s) /\ ~(HayEn(a, s) /\ HayEn(b, s))
    OBVIOUS
  <2>1. UnoEn(a, s)
    BY <1>3 DEF UnoEn
  <2>2. UnoEn(b, s)
    <3> SUFFICES ASSUME NEW j \in DOMAIN b, NEW k \in DOMAIN b, b[j] = s, b[k] = s PROVE j = k
      BY DEF UnoEn
    <3>1. j + Len(a) = k + Len(a)
      BY <1>4 DEF UnoEn
    <3>2. QED
      BY <1>1, <3>1
  <2>3. ~(HayEn(a, s) /\ HayEn(b, s))
    <3> SUFFICES ASSUME NEW j \in DOMAIN a, NEW k \in DOMAIN b, a[j] = s, b[k] = s PROVE FALSE
      BY DEF HayEn
    <3>1. j = k + Len(a)
      BY <1>3, <1>4 DEF UnoEn
    <3>2. QED
      BY <1>1, <3>1
  <2>4. QED
    BY <2>1, <2>2, <2>3
<1>8. ASSUME UnoEn(a, s), UnoEn(b, s), ~(HayEn(a, s) /\ HayEn(b, s)) PROVE UnoEn(c, s)
  <2> SUFFICES ASSUME NEW j \in DOMAIN c, NEW k \in DOMAIN c, c[j] = s, c[k] = s PROVE j = k
    BY DEF UnoEn
  <2>1. CASE j \in DOMAIN a /\ c[j] = a[j]
    BY <1>5, <1>8, <2>1 DEF UnoEn, HayEn
  <2>2. CASE j - Len(a) \in DOMAIN b /\ c[j] = b[j - Len(a)]
    <3>1. j - Len(a) = k - Len(a)
      BY <1>5, <1>8, <2>2 DEF UnoEn, HayEn
    <3>2. QED
      BY <1>1, <3>1
  <2>3. QED
    BY <1>5, <2>1, <2>2
<1>9. QED
  BY <1>6, <1>7, <1>8 DEF c

LEMMA LargoDeDos ==
    ASSUME NEW a \in Seq(Int), NEW b \in Seq(Int)
    PROVE  a \o b \in Seq(Int) /\ Len(a \o b) = Len(a) + Len(b)
BY ConcatProperties

\* A sequence and its first two elements.
LEMMA SinLosDosPrimeros ==
    ASSUME NEW l \in Seq(Int), Len(l) >= 2
    PROVE  /\ SubSeq(l, 3, Len(l)) \in Seq(Int) /\ <<l[1], l[2]>> \in Seq(Int)
           /\ l = <<l[1], l[2]>> \o SubSeq(l, 3, Len(l))
<1>1. Len(l) \in Nat /\ 1 \in 1..Len(l) /\ 2 \in 1..Len(l)
  OBVIOUS
<1>2. SubSeq(l, 3, Len(l)) \in Seq(Int)
  <2>1. \A k \in 3..Len(l) : l[k] \in Int
    BY <1>1
  <2>2. QED
    BY <1>1, <2>1, SubSeqProperties
<1>3. l[1] \in Int /\ l[2] \in Int
  BY <1>1
<1>4. l = <<l[1]>> \o SubSeq(l, 2, Len(l))
  <2>1. SubSeq(l, 1, Len(l)) = <<l[1]>> \o SubSeq(l, 1 + 1, Len(l))
    BY <1>1, SubSeqRecursiveFirst
  <2>2. QED
    BY <2>1, SubSeqFull
<1>5. SubSeq(l, 2, Len(l)) = <<l[2]>> \o SubSeq(l, 3, Len(l))
  <2>1. SubSeq(l, 2, Len(l)) = <<l[2]>> \o SubSeq(l, 2 + 1, Len(l))
    <3>1. 2 \in 1..Len(l) /\ Len(l) \in 2..Len(l)
      BY <1>1
    <3>2. QED
      BY <3>1, SubSeqRecursiveFirst
  <2>2. QED
    BY <2>1
<1> DEFINE b == SubSeq(l, 3, Len(l))
<1> HIDE DEF b
<1>6. b \in Seq(Int)
  BY <1>2 DEF b
<1>7. <<l[1]>> \o (<<l[2]>> \o b) = (<<l[1]>> \o <<l[2]>>) \o b
  BY <1>3, <1>6, ConcatAssociative
<1>8. <<l[1]>> \o <<l[2]>> = <<l[1], l[2]>>
  <2> DEFINE c == <<l[1]>> \o <<l[2]>>
             p == <<l[1], l[2]>>
  <2>1. c \in Seq(Int) /\ Len(c) = 2 /\ c[1] = l[1] /\ c[2] = l[2]
    BY <1>3
  <2>2. p \in Seq(Int) /\ Len(p) = 2 /\ p[1] = l[1] /\ p[2] = l[2]
    BY <1>3
  <2> HIDE DEF c, p
  <2>3. \A k \in 1..2 : c[k] = p[k]
    BY <2>1, <2>2
  <2>4. c = p
    BY <2>1, <2>2, <2>3, SeqEqual
  <2>5. QED
    BY <2>4 DEF c, p
<1>9. QED
  BY <1>3, <1>4, <1>5, <1>6, <1>7, <1>8 DEF b

\* One more message, one less.
LEMMA EsSecMas ==
    ASSUME NEW d, EsSec(d), NEW m
    PROVE  /\ EsSec(Append(d, m)) /\ Len(Append(d, m)) = Len(d) + 1 /\ Len(d) \in Nat
           /\ DOMAIN d = 1..Len(d)
           /\ DOMAIN Append(d, m) = 1..Len(d) + 1
           /\ Append(d, m)[Len(d) + 1] = m
           /\ \A j \in DOMAIN d : j \in DOMAIN Append(d, m) /\ Append(d, m)[j] = d[j]
           /\ \A j \in DOMAIN Append(d, m) : j \in DOMAIN d \/ j = Len(d) + 1
<1> DEFINE X == {d[j] : j \in DOMAIN d}
           Y == X \union {m}
           c == Append(d, m)
<1>1. d \in Seq(Y) /\ m \in Y
  BY DEF EsSec
<1> HIDE DEF X, Y
<1>2. c \in Seq(Y) /\ Len(c) = Len(d) + 1 /\ DOMAIN d = 1..Len(d) /\ Len(d) \in Nat
      /\ DOMAIN c = 1..Len(d) + 1
      /\ c[Len(d) + 1] = m /\ \A j \in DOMAIN d : c[j] = d[j]
  BY <1>1
<1>3. EsSec(c)
  <2> DEFINE Z == {c[j] : j \in DOMAIN c}
  <2>1. \A j \in 1..Len(c) : c[j] \in Z
    BY <1>2
  <2> HIDE DEF Z
  <2>2. c \in Seq(Z)
    BY <1>2, <2>1
  <2>3. QED
    BY <2>2 DEF EsSec, Z
<1>4. QED
  BY <1>2, <1>3

LEMMA EsSecMenos ==
    ASSUME NEW d, EsSec(d), d # <<>>
    PROVE  /\ EsSec(Tail(d)) /\ Len(d) \in Nat \ {0} /\ Len(Tail(d)) = Len(d) - 1
           /\ DOMAIN d = 1..Len(d) /\ DOMAIN Tail(d) = 1..Len(d) - 1 /\ Head(d) = d[1]
           /\ \A j \in DOMAIN Tail(d) : j + 1 \in DOMAIN d /\ Tail(d)[j] = d[j + 1]
           /\ \A j \in DOMAIN d : j = 1 \/ (j - 1 \in DOMAIN Tail(d) /\ Tail(d)[j - 1] = d[j])
<1> DEFINE X == {d[j] : j \in DOMAIN d}
           c == Tail(d)
<1>1. d \in Seq(X)
  BY DEF EsSec
<1> HIDE DEF X
<1>2. c \in Seq(X) /\ Len(c) = Len(d) - 1 /\ DOMAIN d = 1..Len(d) /\ Len(d) \in Nat \ {0}
      /\ DOMAIN c = 1..Len(d) - 1
      /\ Head(d) = d[1] /\ \A j \in DOMAIN c : c[j] = d[j + 1]
  BY <1>1
<1> HIDE DEF c
<1>3. EsSec(c)
  <2> DEFINE Z == {c[j] : j \in DOMAIN c}
  <2>1. \A j \in 1..Len(c) : c[j] \in Z
    BY <1>2
  <2> HIDE DEF Z
  <2>2. c \in Seq(Z)
    <3>1. c \in Seq(X)
      BY <1>2
    <3>2. QED
      BY <2>1, <3>1
  <2>3. QED
    BY <2>2 DEF EsSec, Z
<1>4. \A j \in DOMAIN d : j # 1 => j - 1 \in DOMAIN c /\ c[j - 1] = d[(j - 1) + 1]
  BY <1>2
<1>5. QED
  BY <1>2, <1>3, <1>4 DEF c

LEMMA ColaMas ==
    ASSUME NEW d, EsSec(d), NEW m, NEW t, NEW s
    PROVE  /\ HayCola(Append(d, m), t, s) <=> HayCola(d, t, s) \/ HayPar(m, t, s)
           /\ UnoCola(Append(d, m), t, s) <=> /\ UnoCola(d, t, s) /\ UnoPar(m, t, s)
                                              /\ ~(HayCola(d, t, s) /\ HayPar(m, t, s))
<1> DEFINE c == Append(d, m)
<1>1. /\ Len(d) \in Nat /\ DOMAIN d = 1..Len(d) /\ DOMAIN c = 1..Len(d) + 1 /\ c[Len(d) + 1] = m
      /\ \A j \in DOMAIN d : j \in DOMAIN c /\ c[j] = d[j]
      /\ \A j \in DOMAIN c : j \in DOMAIN d \/ j = Len(d) + 1
  BY EsSecMas
<1>2. Len(d) + 1 \in DOMAIN c /\ Len(d) + 1 \notin DOMAIN d
  BY <1>1
<1> HIDE DEF c
<1>3. HayCola(c, t, s) <=> HayCola(d, t, s) \/ HayPar(m, t, s)
  BY <1>1, <1>2 DEF HayCola
<1>4. UnoCola(c, t, s) => UnoCola(d, t, s) /\ UnoPar(m, t, s) /\ ~(HayCola(d, t, s) /\ HayPar(m, t, s))
  BY <1>1, <1>2 DEF HayCola, UnoCola
<1>5. UnoCola(d, t, s) /\ UnoPar(m, t, s) /\ ~(HayCola(d, t, s) /\ HayPar(m, t, s)) => UnoCola(c, t, s)
  BY <1>1, <1>2 DEF HayCola, UnoCola
<1>6. QED
  BY <1>3, <1>4, <1>5 DEF c

LEMMA ColaMenos ==
    ASSUME NEW d, EsSec(d), d # <<>>, NEW t, NEW s
    PROVE  /\ HayCola(d, t, s) <=> HayCola(Tail(d), t, s) \/ HayPar(Head(d), t, s)
           /\ UnoCola(d, t, s) => /\ UnoCola(Tail(d), t, s) /\ UnoPar(Head(d), t, s)
                                  /\ ~(HayCola(Tail(d), t, s) /\ HayPar(Head(d), t, s))
<1> DEFINE c == Tail(d)
<1>1. /\ Len(d) \in Nat \ {0} /\ DOMAIN d = 1..Len(d) /\ DOMAIN c = 1..Len(d) - 1 /\ Head(d) = d[1]
      /\ \A j \in DOMAIN c : j + 1 \in DOMAIN d /\ c[j] = d[j + 1]
      /\ \A j \in DOMAIN d : j = 1 \/ (j - 1 \in DOMAIN c /\ c[j - 1] = d[j])
  BY EsSecMenos
<1>2. 1 \in DOMAIN d
  BY <1>1
<1> HIDE DEF c
<1>3. HayCola(d, t, s) <=> HayCola(c, t, s) \/ HayPar(Head(d), t, s)
  BY <1>1, <1>2 DEF HayCola
<1>4. ASSUME UnoCola(d, t, s)
      PROVE  UnoCola(c, t, s) /\ UnoPar(Head(d), t, s) /\ ~(HayCola(c, t, s) /\ HayPar(Head(d), t, s))
  <2>1. UnoPar(Head(d), t, s) /\ \A j \in DOMAIN c : UnoPar(c[j], t, s)
    BY <1>1, <1>2, <1>4 DEF UnoCola
  <2>2. ASSUME NEW j \in DOMAIN c, NEW i \in DOMAIN c, HayPar(c[j], t, s), HayPar(c[i], t, s)
        PROVE  j = i
    <3>1. j + 1 = i + 1
      BY <1>1, <1>4, <2>2 DEF UnoCola
    <3>2. QED
      BY <1>1, <3>1
  <2>3. ASSUME NEW j \in DOMAIN c, HayPar(c[j], t, s), HayPar(Head(d), t, s)
        PROVE  FALSE
    <3>1. j + 1 = 1
      BY <1>1, <1>2, <1>4, <2>3 DEF UnoCola
    <3>2. QED
      BY <1>1, <3>1
  <2>4. QED
    BY <2>1, <2>2, <2>3 DEF UnoCola, HayCola
<1>5. QED
  BY <1>3, <1>4 DEF c

\* An empty queue, or one of other messages.
LEMMA ColaVacia ==
    ASSUME NEW t, NEW s
    PROVE  EsSec(<<>>) /\ ~HayCola(<<>>, t, s) /\ UnoCola(<<>>, t, s)
BY DEF EsSec, HayCola, UnoCola

\* A table, file by file.
LEMMA TablaDeUno ==
    ASSUME NEW f, NEW a \in Archivos, NEW s
    PROVE  /\ HayTabla(f, s) <=> HayEn(f[a].sec, s) \/ HayResto(f, a, s)
           /\ UnoTabla(f, s) <=> /\ UnoEn(f[a].sec, s) /\ UnoResto(f, a, s)
                                 /\ ~(HayEn(f[a].sec, s) /\ HayResto(f, a, s))
<1>1. HayTabla(f, s) <=> HayEn(f[a].sec, s) \/ HayResto(f, a, s)
  BY DEF HayTabla, HayResto
<1>2. UnoTabla(f, s) => UnoEn(f[a].sec, s) /\ UnoResto(f, a, s) /\ ~(HayEn(f[a].sec, s) /\ HayResto(f, a, s))
  BY DEF UnoTabla, HayResto, UnoResto
<1>3. ASSUME UnoEn(f[a].sec, s), UnoResto(f, a, s), ~(HayEn(f[a].sec, s) /\ HayResto(f, a, s))
      PROVE  UnoTabla(f, s)
  <2>1. \A b \in Archivos : b = a \/ b \in Archivos \ {a}
    OBVIOUS
  <2>2. \A b \in Archivos : UnoEn(f[b].sec, s)
    BY <1>3, <2>1 DEF UnoResto
  <2>3. ASSUME NEW b \in Archivos, NEW c \in Archivos, HayEn(f[b].sec, s), HayEn(f[c].sec, s)
        PROVE  b = c
    BY <1>3, <2>1, <2>3 DEF UnoResto, HayResto
  <2>4. QED
    BY <2>2, <2>3 DEF UnoTabla
<1>4. QED
  BY <1>1, <1>2, <1>3

LEMMA RestoIgual ==
    ASSUME NEW f, NEW g, NEW a, \A b \in Archivos \ {a} : g[b].sec = f[b].sec, NEW s
    PROVE  (HayResto(g, a, s) <=> HayResto(f, a, s)) /\ (UnoResto(g, a, s) <=> UnoResto(f, a, s))
<1>1. HayResto(g, a, s) <=> HayResto(f, a, s)
  BY DEF HayResto
<1>2. UnoResto(g, a, s) <=> UnoResto(f, a, s)
  BY DEF UnoResto
<1>3. QED
  BY <1>1, <1>2

LEMMA TablaIgual ==
    ASSUME NEW f, NEW g, \A b \in Archivos : g[b].sec = f[b].sec, NEW s
    PROVE  (HayTabla(g, s) <=> HayTabla(f, s)) /\ (UnoTabla(g, s) <=> UnoTabla(f, s))
<1>1. HayTabla(g, s) <=> HayTabla(f, s)
  BY DEF HayTabla
<1>2. UnoTabla(g, s) <=> UnoTabla(f, s)
  BY DEF UnoTabla
<1>3. QED
  BY <1>1, <1>2

-----------------------------------------------------------------------------
(* What a handler of the SFS may do *)

CamposSfs == {"formateado", "libres", "archivos", "sesion", "ucBuf", "nombre", "lista", "rta",
              "culpas", "fin"}

Pares == {s \in Seq(Int) : Len(s) = 2}

EsTabla(f) == /\ DOMAIN f = Archivos
              /\ \A a \in Archivos : DOMAIN f[a] = {"sec", "tam"} /\ f[a].sec \in Seq(Int)

EsEstado(e) == /\ DOMAIN e = CamposSfs
               /\ e.libres \in Seq(Int) /\ e.lista \in Seq(Int) /\ e.ucBuf \in Pares
               /\ EsTabla(e.archivos)

TiposSfs == {"EXISTE", "INFO", "ELIMINA", "CREAR", "TAMANIO", "DOS", "AGREGAR", "LISTAR", "FORMATEAR"}

PedidoBien(m) == /\ m.t \in TiposSfs
                 /\ m.t = "AGREGAR" => m.s \in Pares
                 /\ m.t = "FORMATEAR" => m.s[1] \in {NumSectores, Otra}

\* The answer, if there is one: the one to a format is only for a format.
Contesta(m, x) ==
    \/ x.rta = <<>>
    \/ \E t, s : /\ x.rta = <<Rta(t, m, s)>> /\ t # "DOS"
                 /\ t = "FORMATEADO" => m.t = "FORMATEAR"

\* What was to be blamed still is.
Recuerda(e, x) == \A c \in e.culpas : c \in x.culpas

Limpio(e) == e.culpas \intersect QuitanDuenio = {}

Ajenas(e, x, a) == \A b \in Archivos \ {a} : x.archivos[b].sec = e.archivos[b].sec

\* The five things a handler may do with the sectors: nothing, give two of the free
\* ones, free those of a file, add two to a file, and make the list.
NoToca(e, m, x) == /\ x.libres = e.libres /\ \A b \in Archivos : x.archivos[b].sec = e.archivos[b].sec
                   /\ x.formateado = e.formateado /\ Contesta(m, x)

DaDos(e, m, x) == /\ m.t = "DOS" /\ Len(e.libres) >= 2 /\ x.archivos = e.archivos
                  /\ x.libres = SubSeq(e.libres, 3, Len(e.libres))
                  /\ x.rta = <<Rta("DOS", m, <<e.libres[1], e.libres[2]>>)>>
                  /\ x.formateado = e.formateado

Libera(e, m, x) == /\ m.t = "ELIMINA" /\ m.a \in Archivos
                   /\ x.libres = e.archivos[m.a].sec \o e.libres
                   /\ x.archivos[m.a].sec = <<>> /\ Ajenas(e, x, m.a)
                   /\ x.formateado = e.formateado /\ Contesta(m, x)

Agrega(e, m, x) == /\ m.t = "AGREGAR" /\ m.a \in Archivos
                   /\ x.libres = e.libres
                   /\ x.archivos[m.a].sec = e.archivos[m.a].sec \o m.s /\ Ajenas(e, x, m.a)
                   /\ x.formateado = e.formateado /\ x.rta = <<>>

Formatea(e, m, x) == /\ m.t = "FORMATEAR" /\ ~e.formateado /\ x.formateado
                     /\ x.libres = [k \in 1..NumSectores |-> k - 1]
                     /\ x.archivos = e.archivos /\ Contesta(m, x)

Cuentas(e, m, x) ==
    NoToca(e, m, x) \/ DaDos(e, m, x) \/ Libera(e, m, x) \/ Agrega(e, m, x) \/ Formatea(e, m, x)

\* A pair that is not added is somebody's fault.
PorAlgo(m, x) == m.t = "AGREGAR" => x.fin = "muere" \/ "agregar" \in x.culpas \/ "sin archivo" \in x.culpas

Unas(m, x) == x.rta = <<>> \/ \E t, s : /\ x.rta = <<Rta(t, m, s)>>
                                        /\ t = "DOS" => s \in Pares
                                        /\ t = "FORMATEADO" => m.t = "FORMATEAR"

\* All that is said of a handler, whatever happened.
Hecho(e, m, x) ==
    /\ EsEstado(x) /\ Recuerda(e, x) /\ Unas(m, x)
    /\ Limpio(x) => Cuentas(e, m, x) /\ (NoToca(e, m, x) => PorAlgo(m, x))

\* A handler that does nothing with the sectors.
Quieto(e, m, x) == /\ DOMAIN x = CamposSfs /\ x.libres = e.libres /\ x.archivos = e.archivos
                   /\ x.lista = e.lista /\ x.ucBuf \in Pares
                   /\ x.formateado = e.formateado /\ Recuerda(e, x) /\ Contesta(m, x)
                   /\ PorAlgo(m, x)

LEMMA QuietoHecho ==
    ASSUME NEW e, EsEstado(e), NEW m, NEW x, Quieto(e, m, x)
    PROVE  Hecho(e, m, x)
<1>1. EsEstado(x) /\ Recuerda(e, x)
  BY DEF Quieto, EsEstado
<1>2. Unas(m, x)
  <2>1. CASE x.rta = <<>>
    BY <2>1 DEF Unas
  <2>2. CASE x.rta # <<>>
    <3>1. PICK t, s : x.rta = <<Rta(t, m, s)>> /\ t # "DOS" /\ (t = "FORMATEADO" => m.t = "FORMATEAR")
      BY <2>2 DEF Quieto, Contesta
    <3>2. t = "DOS" => s \in Pares
      BY <3>1
    <3>3. QED
      BY <3>1, <3>2 DEF Unas
  <2>3. QED
    BY <2>1, <2>2
<1>3. NoToca(e, m, x) /\ PorAlgo(m, x)
  BY DEF Quieto, NoToca
<1>4. x.archivos = e.archivos /\ x.libres = e.libres
  BY DEF Quieto
<1>5. QED
  BY <1>1, <1>2, <1>3, <1>4 DEF Hecho, Cuentas

LEMMA OtraPar == <<Otra, Otra>> \in Pares /\ \A n \in Int : <<Otra, n>> \in Pares
<1>1. Otra \in Int
  BY DEF Otra
<1>2. QED
  BY <1>1 DEF Pares

LEMMA Sola == ASSUME NEW r PROVE Append(<<>>, r) = <<r>>
OBVIOUS

\* A handler that only answers, and one whose process ends.
Mismo(e, y) == /\ DOMAIN y = CamposSfs /\ y.libres = e.libres /\ y.archivos = e.archivos
               /\ y.lista = e.lista /\ y.ucBuf = e.ucBuf /\ y.formateado = e.formateado
               /\ Recuerda(e, y) /\ y.rta = <<>>

LEMMA SoloContesta ==
    ASSUME NEW e, EsEstado(e), NEW y, Mismo(e, y), NEW m, m.t # "AGREGAR", NEW t, NEW s,
           t # "DOS", t = "FORMATEADO" => m.t = "FORMATEAR", NEW x, x = Responde(y, t, m, s)
    PROVE  Hecho(e, m, x)
<1>1. /\ DOMAIN x = CamposSfs /\ x.libres = e.libres /\ x.archivos = e.archivos
      /\ x.lista = e.lista /\ x.ucBuf = e.ucBuf
      /\ x.formateado = e.formateado /\ x.culpas = y.culpas /\ x.rta = Append(y.rta, Rta(t, m, s))
  BY DEF Responde, Mismo, CamposSfs
<1>2. Contesta(m, x)
  <2>1. x.rta = <<Rta(t, m, s)>>
    BY <1>1, Sola DEF Mismo
  <2>2. QED
    BY <2>1, Zenon DEF Contesta
<1>3. Quieto(e, m, x)
  BY <1>1, <1>2 DEF Quieto, Recuerda, PorAlgo, EsEstado, Mismo
<1>4. QED
  BY <1>3, QuietoHecho

LEMMA SoloMuere ==
    ASSUME NEW e, EsEstado(e), NEW y, Mismo(e, y), NEW m, NEW x, x = Muere(y)
    PROVE  Hecho(e, m, x)
<1>1. /\ DOMAIN x = CamposSfs /\ x.libres = e.libres /\ x.archivos = e.archivos
      /\ x.lista = e.lista /\ x.ucBuf = e.ucBuf /\ x.fin = "muere"
      /\ x.formateado = e.formateado /\ x.culpas = y.culpas /\ x.rta = <<>>
  BY DEF Muere, Mismo, CamposSfs
<1>2. Quieto(e, m, x)
  BY <1>1 DEF Quieto, Recuerda, PorAlgo, EsEstado, Contesta, Mismo
<1>3. QED
  BY <1>2, QuietoHecho

LEMMA ElMismo ==
    ASSUME NEW e, EsEstado(e), e.rta = <<>>, NEW n
    PROVE  Mismo(e, e) /\ Mismo(e, [e EXCEPT !.nombre = n])
BY DEF EsEstado, Mismo, CamposSfs, Recuerda

LEMMA ExisteArchivoHecho ==
    ASSUME NEW e, EsEstado(e), e.rta = <<>>, NEW m, m.t = "EXISTE", NEW x \in ExisteArchivo(e, m)
    PROVE  Hecho(e, m, x)
<1>1. \/ \E t \in {"SI", "NO"} : x = Responde([e EXCEPT !.nombre = m.a], t, m, <<>>)
      \/ x = Muere([e EXCEPT !.nombre = m.a])
  BY DEF ExisteArchivo, Ldap
<1>2. QED
  BY <1>1, ElMismo, SoloContesta, SoloMuere

LEMMA InfoArchivoHecho ==
    ASSUME NEW e, EsEstado(e), e.rta = <<>>, NEW m, m.t = "INFO", NEW x \in InfoArchivo(e, m)
    PROVE  Hecho(e, m, x)
<1>1. PICK y \in Indefinido(e, "nombreArchivo") :
         x \in IF y.fin = "muere" THEN {y}
               ELSE Ldap(y, "buscar", Hay(y, y.nombre),
                     {Responde(y, "INFO", m, SectoresInfo(y.archivos[y.nombre]))},
                     {Responde(y, "TEXTO", m, <<>>)})
  BY DEF InfoArchivo
<1>2. y = e \/ y = Muere(e)
  BY <1>1 DEF Indefinido
<1>3. y = Muere(e) => y.fin = "muere"
  BY DEF Muere, EsEstado, CamposSfs
<1>4. \/ x = Responde(e, "INFO", m, SectoresInfo(e.archivos[e.nombre]))
      \/ x = Responde(e, "TEXTO", m, <<>>)
      \/ x = Muere(e)
      \/ x = e
  BY <1>1, <1>2, <1>3 DEF Ldap
<1>5. CASE x = e
  BY <1>5, QuietoHecho DEF Quieto, EsEstado, Recuerda, Contesta, PorAlgo
<1>6. CASE x # e
  BY <1>4, <1>6, ElMismo, SoloContesta, SoloMuere
<1>7. QED
  BY <1>5, <1>6

LEMMA ListarDirectorioHecho ==
    ASSUME NEW e, EsEstado(e), e.rta = <<>>, NEW m, m.t = "LISTAR", NEW x \in ListarDirectorio(e, m)
    PROVE  Hecho(e, m, x)
<1>1. x = Responde(e, "LISTADO", m, <<>>) \/ x = Muere(e)
  BY DEF ListarDirectorio, Ldap
<1>2. QED
  BY <1>1, ElMismo, SoloContesta, SoloMuere

LEMMA SeDesliga ==
    ASSUME NEW e, EsEstado(e), e.rta = <<>>
    PROVE  Mismo(e, Desligar(e))
BY DEF EsEstado, Mismo, CamposSfs, Recuerda, Desligar, Culpa

LEMMA CrearArchivoHecho ==
    ASSUME NEW e, EsEstado(e), e.rta = <<>>, NEW m, m.t = "CREAR", NEW x \in CrearArchivo(e, m)
    PROVE  Hecho(e, m, x)
<1>1. \/ /\ x = Responde([e EXCEPT !.archivos[m.a] = Nuevo], "CREADO", m, <<>>)
         /\ e.formateado /\ ~Hay(e, m.a)
      \/ x = Responde(Desligar(e), "ERROR SOLO", m, <<>>)
      \/ x = Muere(e)
  BY DEF CrearArchivo, Ldap
<1>2. CASE /\ x = Responde([e EXCEPT !.archivos[m.a] = Nuevo], "CREADO", m, <<>>)
           /\ e.formateado /\ ~Hay(e, m.a)
  <2> DEFINE f == [e.archivos EXCEPT ![m.a] = Nuevo]
  <2>1. /\ DOMAIN x = CamposSfs /\ x.libres = e.libres /\ x.archivos = f
        /\ x.lista = e.lista /\ x.ucBuf = e.ucBuf
        /\ x.formateado = e.formateado /\ x.culpas = e.culpas
        /\ x.rta = Append(e.rta, Rta("CREADO", m, <<>>))
    BY <1>2 DEF Responde, EsEstado, CamposSfs
  <2>2. DOMAIN f = Archivos /\ \A a \in Archivos : f[a] = IF a = m.a THEN Nuevo ELSE e.archivos[a]
    BY DEF EsEstado, EsTabla
  <2> HIDE DEF f
  <2>3. EsTabla(f) /\ \A a \in Archivos : f[a].sec = e.archivos[a].sec
    <3>1. Nuevo.sec = <<>> /\ NoHay.sec = <<>> /\ DOMAIN Nuevo = {"sec", "tam"} /\ <<>> \in Seq(Int)
      BY DEF Nuevo, NoHay
    <3>2. m.a \in Archivos => e.archivos[m.a] = NoHay
      BY <1>2 DEF Hay
    <3>3. QED
      BY <2>2, <3>1, <3>2 DEF EsEstado, EsTabla
  <2>4. x.rta = <<Rta("CREADO", m, <<>>)>>
    BY <2>1, Sola
  <2>5. Contesta(m, x) /\ Unas(m, x)
    BY <2>4 DEF Contesta, Unas
  <2>6. NoToca(e, m, x) /\ PorAlgo(m, x)
    BY <2>1, <2>3, <2>5 DEF NoToca, PorAlgo
  <2>7. EsEstado(x) /\ Recuerda(e, x)
    BY <2>1, <2>3 DEF EsEstado, Recuerda
  <2>8. QED
    BY <1>2, <2>5, <2>6, <2>7 DEF Hecho, Cuentas
<1>3. QED
  BY <1>1, <1>2, ElMismo, SeDesliga, SoloContesta, SoloMuere

LEMMA ActualizarTamanioHecho ==
    ASSUME NEW e, EsEstado(e), e.rta = <<>>, NEW m, m.t = "TAMANIO", NEW x \in ActualizarTamanio(e, m)
    PROVE  Hecho(e, m, x)
<1>1. \/ /\ x = Responde([e EXCEPT !.archivos[m.a].tam = m.s[1]], "TAMANIO", m, <<>>)
         /\ Hay(e, m.a)
      \/ x = Responde(e, "ERROR SOLO", m, <<>>)
      \/ x = Muere(e)
  BY DEF ActualizarTamanio, Ldap
<1>2. CASE /\ x = Responde([e EXCEPT !.archivos[m.a].tam = m.s[1]], "TAMANIO", m, <<>>)
           /\ Hay(e, m.a)
  <2> DEFINE f == [e.archivos EXCEPT ![m.a] = [e.archivos[m.a] EXCEPT !.tam = m.s[1]]]
  <2>1. /\ DOMAIN x = CamposSfs /\ x.libres = e.libres /\ x.archivos = f
        /\ x.lista = e.lista /\ x.ucBuf = e.ucBuf
        /\ x.formateado = e.formateado /\ x.culpas = e.culpas
        /\ x.rta = Append(e.rta, Rta("TAMANIO", m, <<>>))
    BY <1>2 DEF Responde, EsEstado, CamposSfs
  <2>2. EsTabla(f) /\ \A a \in Archivos : f[a].sec = e.archivos[a].sec
    BY DEF EsEstado, EsTabla
  <2> HIDE DEF f
  <2>4. x.rta = <<Rta("TAMANIO", m, <<>>)>>
    BY <2>1, Sola
  <2>5. Contesta(m, x) /\ Unas(m, x)
    BY <2>4 DEF Contesta, Unas
  <2>6. NoToca(e, m, x) /\ PorAlgo(m, x)
    BY <2>1, <2>2, <2>5 DEF NoToca, PorAlgo
  <2>7. EsEstado(x) /\ Recuerda(e, x)
    BY <2>1, <2>2 DEF EsEstado, Recuerda
  <2>8. QED
    BY <2>5, <2>6, <2>7 DEF Hecho, Cuentas
<1>3. QED
  BY <1>1, <1>2, ElMismo, SoloContesta, SoloMuere

LEMMA AgregarSectoresHecho ==
    ASSUME NEW e, EsEstado(e), e.rta = <<>>, NEW m, m.t = "AGREGAR", m.s \in Pares,
           NEW x \in AgregarSectores(e, m)
    PROVE  Hecho(e, m, x)
<1> DEFINE junto == e.archivos[m.a].sec \o m.s
           f == [e.archivos EXCEPT ![m.a] = [e.archivos[m.a] EXCEPT !.sec = junto]]
           w == IF Len(junto) = 2 THEN m.s[2] ELSE Otra
           y == [e EXCEPT !.archivos[m.a].sec = junto, !.ucBuf = <<Otra, w>>]
<1>0. m.s[2] \in Int /\ w \in Int /\ m.s \in Seq(Int) /\ Len(m.s) = 2
  <2>1. m.s \in Seq(Int) /\ Len(m.s) = 2
    BY DEF Pares
  <2>2. Otra \in Int
    BY DEF Otra
  <2>3. m.s[2] \in Int
    BY <2>1
  <2>4. QED
    BY <2>1, <2>2, <2>3
<1>1. \/ x = y /\ Hay(e, m.a)
      \/ x = Culpa([y EXCEPT !.archivos = e.archivos], "agregar") /\ Hay(e, m.a)
      \/ x = Culpa([e EXCEPT !.ucBuf = <<Otra, m.s[2]>>], "sin archivo")
      \/ x = Muere(e)
  <2> DEFINE A == Ldap(e, "agregar", TRUE, {y}, {Culpa([y EXCEPT !.archivos = e.archivos], "agregar")})
             B == {Culpa([e EXCEPT !.ucBuf = <<Otra, m.s[2]>>], "sin archivo")}
  <2>1. x \in Ldap(e, "buscar", Hay(e, m.a), A, B)
    BY DEF AgregarSectores
  <2> HIDE DEF A, B
  <2>2. (x \in A /\ Hay(e, m.a)) \/ x \in B \/ x = Muere(e)
    BY <2>1 DEF Ldap
  <2> HIDE DEF y
  <2>3. x \in A => x = y \/ x = Culpa([y EXCEPT !.archivos = e.archivos], "agregar") \/ x = Muere(e)
    BY DEF A, Ldap
  <2>4. x \in B => x = Culpa([e EXCEPT !.ucBuf = <<Otra, m.s[2]>>], "sin archivo")
    BY DEF B
  <2>5. QED
    BY <2>2, <2>3, <2>4
<1>2. <<Otra, w>> \in Pares /\ <<Otra, m.s[2]>> \in Pares
  BY <1>0, OtraPar
<1>3. CASE x = y /\ Hay(e, m.a)
  <2> HIDE DEF w
  <2>1. /\ DOMAIN x = CamposSfs /\ x.libres = e.libres /\ x.archivos = f
        /\ x.lista = e.lista /\ x.ucBuf = <<Otra, w>>
        /\ x.formateado = e.formateado /\ x.culpas = e.culpas /\ x.rta = <<>>
    BY <1>3 DEF EsEstado, CamposSfs
  <2>2. m.a \in Archivos /\ e.archivos[m.a].sec \in Seq(Int)
    BY <1>3 DEF Hay, EsEstado, EsTabla
  <2>3. junto \in Seq(Int) /\ Len(junto) = Len(e.archivos[m.a].sec) + 2
    <3>1. m.s \in Seq(Int) /\ Len(m.s) = 2
      BY <1>0
    <3>2. junto \in Seq(Int) /\ Len(junto) = Len(e.archivos[m.a].sec) + Len(m.s)
      BY <2>2, <3>1, LargoDeDos
    <3>3. QED
      BY <3>1, <3>2
  <2> HIDE DEF junto
  <2>4. EsTabla(f) /\ f[m.a].sec = junto /\ \A a \in Archivos \ {m.a} : f[a].sec = e.archivos[a].sec
    BY <2>2, <2>3 DEF EsEstado, EsTabla
  <2> HIDE DEF f
  <2>5. Agrega(e, m, x)
    BY <2>1, <2>2, <2>4 DEF Agrega, Ajenas, junto
  <2>6. EsEstado(x) /\ Recuerda(e, x) /\ Unas(m, x)
    BY <1>2, <2>1, <2>4 DEF EsEstado, Recuerda, Unas
  <2>7. ~NoToca(e, m, x)
    <3> SUFFICES ASSUME x.archivos[m.a].sec = e.archivos[m.a].sec PROVE FALSE
      BY <2>2 DEF NoToca
    <3>1. Len(junto) = Len(e.archivos[m.a].sec) + 2
      BY <2>3
    <3>2. Len(e.archivos[m.a].sec) \in Nat
      BY <2>2
    <3>3. QED
      BY <2>1, <2>4, <3>1, <3>2
  <2>8. QED
    BY <2>5, <2>6, <2>7 DEF Hecho, Cuentas
<1>4. CASE x = Culpa([y EXCEPT !.archivos = e.archivos], "agregar")
  <2> HIDE DEF w, f
  <2>1. /\ DOMAIN x = CamposSfs /\ x.libres = e.libres /\ x.archivos = e.archivos
        /\ x.lista = e.lista /\ x.ucBuf = <<Otra, w>>
        /\ x.formateado = e.formateado /\ x.culpas = e.culpas \union {"agregar"} /\ x.rta = <<>>
    BY <1>4 DEF EsEstado, CamposSfs, Culpa
  <2>2. QED
    BY <1>2, <2>1, QuietoHecho DEF Quieto, Recuerda, Contesta, PorAlgo
<1>5. CASE x = Culpa([e EXCEPT !.ucBuf = <<Otra, m.s[2]>>], "sin archivo")
  <2>1. /\ DOMAIN x = CamposSfs /\ x.libres = e.libres /\ x.archivos = e.archivos
        /\ x.lista = e.lista /\ x.ucBuf = <<Otra, m.s[2]>>
        /\ x.formateado = e.formateado /\ x.culpas = e.culpas \union {"sin archivo"} /\ x.rta = <<>>
    BY <1>5 DEF EsEstado, CamposSfs, Culpa
  <2>2. QED
    BY <1>2, <2>1, QuietoHecho DEF Quieto, Recuerda, Contesta, PorAlgo
<1>6. QED
  BY <1>1, <1>3, <1>4, <1>5, ElMismo, SoloMuere

\* The list of a format has every sector, once.
LEMMA FormatearHecho ==
    ASSUME NEW e, EsEstado(e), e.rta = <<>>, NEW m, m.t = "FORMATEAR",
           m.s[1] \in {NumSectores, Otra}, NEW x \in Formatear(e, m)
    PROVE  Hecho(e, m, x)
<1> DEFINE z == [e EXCEPT !.ucBuf = <<Otra, Otra>>]
           todos == [k \in 1..NumSectores |-> k - 1]
<1>1. \/ x = Muere(z)
      \/ x = Responde(Desligar(z), "FORMATEADO", m, <<>>)
      \/ /\ x = Responde([z EXCEPT !.formateado = TRUE, !.libres = todos], "FORMATEADO", m, <<>>)
         /\ ~z.formateado
  BY DEF Formatear, Ldap
<1>2. <<Otra, Otra>> \in Pares
  BY OtraPar
<1>3. /\ DOMAIN z = CamposSfs /\ z.libres = e.libres /\ z.archivos = e.archivos
      /\ z.lista = e.lista /\ z.ucBuf = <<Otra, Otra>>
      /\ z.formateado = e.formateado /\ z.culpas = e.culpas /\ z.rta = <<>>
  BY DEF EsEstado, CamposSfs
<1> HIDE DEF z
<1>4. CASE x = Muere(z)
  <2>1. /\ DOMAIN x = CamposSfs /\ x.libres = e.libres /\ x.archivos = e.archivos
        /\ x.lista = e.lista /\ x.ucBuf = <<Otra, Otra>>
        /\ x.formateado = e.formateado /\ x.culpas = e.culpas /\ x.rta = <<>>
    BY <1>3, <1>4 DEF Muere, CamposSfs
  <2>2. QED
    BY <1>2, <2>1, QuietoHecho DEF Quieto, Recuerda, Contesta, PorAlgo
<1>5. CASE x = Responde(Desligar(z), "FORMATEADO", m, <<>>)
  <2>1. /\ DOMAIN x = CamposSfs /\ x.libres = e.libres /\ x.archivos = e.archivos
        /\ x.lista = e.lista /\ x.ucBuf = <<Otra, Otra>>
        /\ x.formateado = e.formateado /\ x.culpas = e.culpas \union {"sesion"}
        /\ x.rta = Append(<<>>, Rta("FORMATEADO", m, <<>>))
    BY <1>3, <1>5 DEF Responde, Desligar, Culpa, CamposSfs
  <2>2. x.rta = <<Rta("FORMATEADO", m, <<>>)>>
    BY <2>1, Sola
  <2>3. Contesta(m, x)
    BY <2>2 DEF Contesta
  <2>4. QED
    BY <1>2, <2>1, <2>3, QuietoHecho DEF Quieto, Recuerda, PorAlgo
<1>6. CASE /\ x = Responde([z EXCEPT !.formateado = TRUE, !.libres = todos], "FORMATEADO", m, <<>>)
           /\ ~z.formateado
  <2>0. todos \in Seq(Int)
    BY SfsAssumption
  <2> HIDE DEF todos
  <2>1. /\ DOMAIN x = CamposSfs /\ x.libres = todos /\ x.archivos = e.archivos
        /\ x.lista = e.lista /\ x.ucBuf = <<Otra, Otra>>
        /\ x.formateado = TRUE /\ x.culpas = e.culpas
        /\ x.rta = Append(<<>>, Rta("FORMATEADO", m, <<>>))
    BY <1>3, <1>6 DEF Responde, CamposSfs
  <2>2. x.rta = <<Rta("FORMATEADO", m, <<>>)>>
    BY <2>1, Sola
  <2>3. Contesta(m, x) /\ Unas(m, x)
    BY <2>2 DEF Contesta, Unas
  <2>4. Formatea(e, m, x)
    BY <1>3, <1>6, <2>1, <2>3 DEF Formatea, todos
  <2>5. EsEstado(x) /\ Recuerda(e, x)
    BY <1>2, <2>0, <2>1 DEF EsEstado, Recuerda
  <2>6. PorAlgo(m, x)
    BY DEF PorAlgo
  <2>7. QED
    BY <2>1, <2>3, <2>4, <2>5, <2>6 DEF Hecho, Cuentas
<1>7. QED
  BY <1>1, <1>4, <1>5, <1>6

LEMMA SucioHecho ==
    ASSUME NEW e, NEW m, NEW x, EsEstado(x), Recuerda(e, x), Unas(m, x),
           NEW c \in QuitanDuenio, c \in x.culpas,
           ~e.formateado => x.archivos = e.archivos /\ x.libres = e.libres
    PROVE  Hecho(e, m, x)
<1>1. ~Limpio(x)
  BY DEF Limpio
<1>2. QED
  BY <1>1 DEF Hecho

LEMMA QuitarCasos ==
    ASSUME NEW e, DOMAIN e = CamposSfs, NEW l, NEW x \in QuitarDosSectoresDA(e, l)
    PROVE  \/ x = [e EXCEPT !.libres = l] /\ e.formateado
           \/ x = Desligar(Culpa(e, "quitar"))
           \/ x = Muere(e) /\ e.sesion = "perdida"
BY DEF QuitarDosSectoresDA, Ldap

\* The effect of each outcome of the replacement on what the accounts look at.
LEMMA QuitarEfecto ==
    ASSUME NEW e, DOMAIN e = CamposSfs, NEW l, NEW x \in QuitarDosSectoresDA(e, l)
    PROVE  /\ DOMAIN x = CamposSfs /\ x.archivos = e.archivos /\ x.formateado = e.formateado
           /\ x.ucBuf = e.ucBuf /\ x.lista = e.lista /\ x.rta = e.rta /\ Recuerda(e, x)
           /\ \/ x.libres = l /\ e.formateado /\ x.sesion = e.sesion /\ x.fin = e.fin
              \/ x.libres = e.libres /\ "quitar" \in x.culpas /\ x.fin = e.fin
              \/ x.libres = e.libres /\ e.sesion = "perdida" /\ x.fin = "muere" /\ x.culpas = e.culpas
<1>1. CASE x = [e EXCEPT !.libres = l] /\ e.formateado
  BY <1>1 DEF CamposSfs, Recuerda
<1>2. CASE x = Desligar(Culpa(e, "quitar"))
  <2>1. /\ DOMAIN x = CamposSfs /\ x.archivos = e.archivos /\ x.formateado = e.formateado
        /\ x.ucBuf = e.ucBuf /\ x.lista = e.lista /\ x.rta = e.rta /\ x.libres = e.libres
        /\ x.fin = e.fin /\ x.culpas = (e.culpas \union {"quitar"}) \union {"sesion"}
    BY <1>2 DEF CamposSfs, Desligar, Culpa
  <2>2. QED
    BY <2>1 DEF Recuerda
<1>3. CASE x = Muere(e) /\ e.sesion = "perdida"
  BY <1>3 DEF CamposSfs, Recuerda, Muere
<1>4. QED
  BY <1>1, <1>2, <1>3, QuitarCasos

LEMMA DarDosSectoresHecho ==
    ASSUME NEW e, EsEstado(e), e.rta = <<>>, e.sesion = "viva", e.libres # <<>>,
           NEW m, m.t = "DOS", NEW x \in DarDosSectores(e, m)
    PROVE  Hecho(e, m, x)
<1> DEFINE w == <<e.libres[1], IF Len(e.libres) > 1 THEN e.libres[2] ELSE e.ucBuf[2]>>
           z == Responde([e EXCEPT !.ucBuf = w], "DOS", m, w)
           y == IF Len(e.libres) = 1 THEN Culpa(z, "impar") ELSE z
           l == SubSeq(e.libres, 3, Len(e.libres))
<1>1. x \in Corte(y, "dos") \/ x \in QuitarDosSectoresDA(y, l)
  BY DEF DarDosSectores
<1>2. Len(e.libres) \in Nat \ {0} /\ e.libres \in Seq(Int)
  BY DEF EsEstado
<1>11. Len(e.libres) = 1 \/ Len(e.libres) >= 2
  <2>1. Len(e.libres) \in Nat \ {0}
    BY <1>2
  <2>2. \A n \in Nat \ {0} : n = 1 \/ n >= 2
    OBVIOUS
  <2>3. QED
    BY <2>1, <2>2
<1>3. w \in Pares /\ (Len(e.libres) > 1 => w = <<e.libres[1], e.libres[2]>>)
  <2>1. e.libres[1] \in Int /\ (Len(e.libres) > 1 => e.libres[2] \in Int)
    BY <1>2
  <2>2. e.ucBuf \in Seq(Int) /\ Len(e.ucBuf) = 2
    BY DEF EsEstado, Pares
  <2>3. e.ucBuf[2] \in Int
    BY <2>2
  <2>4. w[1] \in Int /\ w[2] \in Int
    BY <2>1, <2>3
  <2>5. w \in Seq(Int) /\ Len(w) = 2
    BY <2>4
  <2>6. QED
    BY <2>5 DEF Pares
<1>4. l \in Seq(Int)
  <2>1. \A k \in 3..Len(e.libres) : e.libres[k] \in Int
    BY <1>2
  <2>2. QED
    BY <1>2, <2>1, SubSeqProperties
<1> HIDE DEF w, l
<1>5. /\ DOMAIN y = CamposSfs /\ y.libres = e.libres /\ y.archivos = e.archivos
      /\ y.lista = e.lista /\ y.ucBuf = w /\ y.formateado = e.formateado /\ Recuerda(e, y)
      /\ y.rta = Append(<<>>, Rta("DOS", m, w)) /\ y.sesion = "viva"
      /\ Len(e.libres) = 1 => "impar" \in y.culpas
  <2>1. /\ DOMAIN z = CamposSfs /\ z.libres = e.libres /\ z.archivos = e.archivos
        /\ z.lista = e.lista /\ z.ucBuf = w /\ z.formateado = e.formateado /\ z.culpas = e.culpas
        /\ z.rta = Append(<<>>, Rta("DOS", m, w)) /\ z.sesion = "viva"
    BY DEF Responde, EsEstado, CamposSfs
  <2> HIDE DEF z
  <2>2. QED
    BY <2>1 DEF Culpa, CamposSfs, Recuerda
<1> HIDE DEF y
<1>6. y.rta = <<Rta("DOS", m, w)>>
  BY <1>5, Sola
<1>7. EsEstado(y) /\ Unas(m, y)
  BY <1>3, <1>5, <1>6 DEF EsEstado, Unas
<1>8. CASE x \in Corte(y, "dos")
  <2>1. x = Muere(Culpa(y, "corte"))
    BY <1>8 DEF Corte
  <2>2. /\ DOMAIN x = CamposSfs /\ x.libres = y.libres /\ x.archivos = y.archivos
        /\ x.lista = y.lista /\ x.ucBuf = y.ucBuf /\ x.formateado = y.formateado
        /\ x.rta = y.rta /\ x.culpas = y.culpas \union {"corte"}
    BY <1>5, <2>1 DEF Muere, Culpa, CamposSfs
  <2>3. EsEstado(x) /\ Recuerda(e, x) /\ Unas(m, x) /\ "corte" \in x.culpas
    BY <1>5, <1>7, <2>2 DEF EsEstado, Recuerda, Unas
  <2>4. "corte" \in QuitanDuenio
    BY DEF QuitanDuenio
  <2>5. x.archivos = e.archivos /\ x.libres = e.libres
    BY <1>5, <2>2
  <2>6. QED
    BY <2>3, <2>4, <2>5, SucioHecho
<1>9. CASE x \in QuitarDosSectoresDA(y, l)
  <2>1. /\ DOMAIN x = CamposSfs /\ x.archivos = y.archivos /\ x.formateado = y.formateado
        /\ x.ucBuf = y.ucBuf /\ x.lista = y.lista /\ x.rta = y.rta /\ Recuerda(y, x)
        /\ (x.libres = l /\ e.formateado) \/ (x.libres = y.libres /\ "quitar" \in x.culpas)
    <3>1. /\ DOMAIN x = CamposSfs /\ x.archivos = y.archivos /\ x.formateado = y.formateado
          /\ x.ucBuf = y.ucBuf /\ x.lista = y.lista /\ x.rta = y.rta /\ Recuerda(y, x)
          /\ \/ x.libres = l /\ y.formateado
             \/ x.libres = y.libres /\ "quitar" \in x.culpas
             \/ y.sesion = "perdida"
      BY <1>5, <1>9, QuitarEfecto
    <3>2. y.sesion # "perdida" /\ y.formateado = e.formateado
      BY <1>5
    <3>3. QED
      BY <3>1, <3>2
  <2>2. x.libres \in Seq(Int)
    BY <1>2, <1>4, <1>5, <2>1
  <2>3. EsEstado(x) /\ Recuerda(e, x) /\ Unas(m, x)
    BY <1>5, <1>7, <2>1, <2>2 DEF EsEstado, Recuerda, Unas
  <2>4. CASE ~(x.libres = l /\ e.formateado)
    <3>1. "quitar" \in QuitanDuenio
      BY DEF QuitanDuenio
    <3>2. x.archivos = e.archivos /\ x.libres = e.libres
      BY <1>5, <2>1, <2>4
    <3>3. QED
      BY <2>1, <2>3, <2>4, <3>1, <3>2, SucioHecho
  <2>5. CASE Len(e.libres) = 1 /\ x.libres = l /\ e.formateado
    <3>1. "impar" \in QuitanDuenio /\ "impar" \in x.culpas
      BY <1>5, <2>1, <2>5 DEF QuitanDuenio, Recuerda
    <3>2. QED
      BY <2>3, <2>5, <3>1, SucioHecho
  <2>6. CASE x.libres = l /\ e.formateado /\ Len(e.libres) # 1
    <3>1. Len(e.libres) >= 2
      BY <1>11, <2>6
    <3>2. x.rta = <<Rta("DOS", m, <<e.libres[1], e.libres[2]>>)>>
      BY <1>3, <1>6, <2>1, <3>1
    <3>3. DaDos(e, m, x)
      BY <1>5, <2>1, <2>6, <3>1, <3>2 DEF DaDos, l
    <3>4. PorAlgo(m, x)
      BY DEF PorAlgo
    <3>5. QED
      BY <2>3, <2>6, <3>3, <3>4 DEF Hecho, Cuentas
  <2>7. QED
    BY <2>4, <2>5, <2>6
<1>10. QED
  BY <1>1, <1>8, <1>9

LEMMA DosSectoresLibresHecho ==
    ASSUME NEW e, EsEstado(e), e.rta = <<>>, NEW m, m.t = "DOS", NEW x \in DosSectoresLibres(e, m)
    PROVE  Hecho(e, m, x)
<1> DEFINE y == Responde(Culpa(e, "libres"), "DOS", m, e.ucBuf)
           z == Responde([e EXCEPT !.ucBuf = <<Otra, Otra>>], "ERROR", m, <<>>)
           A == IF e.formateado /\ e.libres # <<>> THEN DarDosSectores(e, m) ELSE {z}
           B == QuitarDosSectoresDA(y, <<>>)
<1>1. x \in Ldap(e, "libres", TRUE, A, B)
  BY DEF DosSectoresLibres
<1> HIDE DEF A, B
<1>2. (x \in A /\ e.sesion = "viva") \/ x \in B \/ x = Muere(e)
  BY <1>1 DEF Ldap
<1>3. CASE x \in A /\ e.sesion = "viva"
  <2>1. CASE e.formateado /\ e.libres # <<>>
    BY <1>3, <2>1, DarDosSectoresHecho DEF A
  <2>2. CASE x = z
    <3>1. /\ DOMAIN x = CamposSfs /\ x.libres = e.libres /\ x.archivos = e.archivos
          /\ x.lista = e.lista /\ x.ucBuf = <<Otra, Otra>>
          /\ x.formateado = e.formateado /\ x.culpas = e.culpas
          /\ x.rta = Append(<<>>, Rta("ERROR", m, <<>>))
      BY <2>2 DEF Responde, EsEstado, CamposSfs
    <3>2. x.rta = <<Rta("ERROR", m, <<>>)>>
      BY <3>1, Sola
    <3>3. Contesta(m, x)
      BY <3>2 DEF Contesta
    <3>4. QED
      BY <3>1, <3>3, OtraPar, QuietoHecho DEF Quieto, Recuerda, PorAlgo
  <2>3. QED
    BY <1>3, <2>1, <2>2 DEF A
<1>4. CASE x \in B
  <2>1. /\ DOMAIN y = CamposSfs /\ y.libres = e.libres /\ y.archivos = e.archivos
        /\ y.lista = e.lista /\ y.ucBuf = e.ucBuf /\ y.formateado = e.formateado
        /\ y.rta = Append(<<>>, Rta("DOS", m, e.ucBuf)) /\ y.culpas = e.culpas \union {"libres"}
    BY DEF Responde, Culpa, EsEstado, CamposSfs
  <2> HIDE DEF y
  <2>2. y.rta = <<Rta("DOS", m, e.ucBuf)>>
    BY <2>1, Sola
  <2>3. /\ DOMAIN x = CamposSfs /\ x.archivos = y.archivos /\ x.formateado = y.formateado
        /\ x.ucBuf = y.ucBuf /\ x.lista = y.lista /\ x.rta = y.rta /\ Recuerda(y, x)
        /\ (x.libres = <<>> /\ y.formateado) \/ x.libres = y.libres
    BY <1>4, <2>1, QuitarEfecto DEF B
  <2>4. EsEstado(x) /\ Recuerda(e, x) /\ Unas(m, x)
    <3>1. e.libres \in Seq(Int) /\ <<>> \in Seq(Int) /\ e.ucBuf \in Pares
      BY DEF EsEstado
    <3>2. EsEstado(x)
      BY <2>1, <2>3, <3>1 DEF EsEstado
    <3>3. Recuerda(e, x)
      BY <2>1, <2>3 DEF Recuerda
    <3>4. x.rta = <<Rta("DOS", m, e.ucBuf)>>
      BY <2>2, <2>3
    <3>5. Unas(m, x)
      BY <3>1, <3>4 DEF Unas
    <3>6. QED
      BY <3>2, <3>3, <3>5
  <2>5. "libres" \in QuitanDuenio /\ "libres" \in x.culpas
    BY <2>1, <2>3 DEF QuitanDuenio, Recuerda
  <2>6. ~e.formateado => x.archivos = e.archivos /\ x.libres = e.libres
    BY <2>1, <2>3
  <2>7. QED
    BY <2>4, <2>5, <2>6, SucioHecho
<1>5. QED
  BY <1>2, <1>3, <1>4, ElMismo, SoloMuere

\* What was freed when the deletion begins: the sectors of the file, before the
\* others, if nobody is to blame.
Liberado(e, a, y) ==
    /\ DOMAIN y = CamposSfs /\ y.archivos = e.archivos /\ y.formateado = e.formateado
    /\ y.ucBuf = e.ucBuf /\ y.rta = <<>> /\ Recuerda(e, y)
    /\ y.lista \in Seq(Int) /\ y.libres \in Seq(Int) /\ y.fin = "sigue"
    /\ Limpio(y) => y.libres = e.archivos[a].sec \o e.libres /\ y.sesion = "viva"

LEMMA LiberaSectores ==
    ASSUME NEW e, EsEstado(e), e.rta = <<>>, e.fin = "sigue", e.sesion = "viva",
           NEW a \in Archivos, NEW y0,
           y0 = IF e.archivos[a].sec = <<>> THEN Culpa([e EXCEPT !.nombre = a], "vacio")
                ELSE [e EXCEPT !.nombre = a],
           NEW w \in SectoresLibresDEL(y0),
           NEW y, y \in IF w.fin = "muere" THEN {w} ELSE QuitarDosSectoresDA(w, SectoresLiberados(w, a))
    PROVE  Liberado(e, a, y)
<1>1. /\ DOMAIN y0 = CamposSfs /\ y0.archivos = e.archivos /\ y0.formateado = e.formateado
      /\ y0.ucBuf = e.ucBuf /\ y0.rta = <<>> /\ Recuerda(e, y0) /\ y0.libres = e.libres
      /\ y0.sesion = "viva" /\ y0.fin = "sigue"
      /\ e.archivos[a].sec = <<>> => "vacio" \in y0.culpas
  <2>1. CASE e.archivos[a].sec = <<>>
    BY <2>1 DEF EsEstado, CamposSfs, Culpa, Recuerda
  <2>2. CASE e.archivos[a].sec # <<>>
    BY <2>2 DEF EsEstado, CamposSfs, Recuerda
  <2>3. QED
    BY <2>1, <2>2
<1>2. \/ w = [y0 EXCEPT !.lista = y0.libres]
      \/ w = [Culpa(y0, "libres") EXCEPT !.lista = <<>>]
  BY <1>1 DEF SectoresLibresDEL, Ldap
<1>3. /\ DOMAIN w = CamposSfs /\ w.archivos = e.archivos /\ w.formateado = e.formateado
      /\ w.ucBuf = e.ucBuf /\ w.rta = <<>> /\ w.libres = e.libres
      /\ w.sesion = "viva" /\ w.fin = "sigue"
      /\ \A c \in y0.culpas : c \in w.culpas
      /\ w.lista = e.libres \/ (w.lista = <<>> /\ "libres" \in w.culpas)
  <2>1. CASE w = [y0 EXCEPT !.lista = y0.libres]
    BY <1>1, <2>1 DEF CamposSfs
  <2>2. CASE w = [Culpa(y0, "libres") EXCEPT !.lista = <<>>]
    BY <1>1, <2>2 DEF CamposSfs, Culpa
  <2>3. QED
    BY <1>2, <2>1, <2>2
<1> DEFINE l == SectoresLiberados(w, a)
<1>4. e.archivos[a].sec \in Seq(Int) /\ w.lista \in Seq(Int) /\ e.libres \in Seq(Int)
  <2>1. e.archivos[a].sec \in Seq(Int) /\ e.libres \in Seq(Int) /\ <<>> \in Seq(Int)
    BY DEF EsEstado, EsTabla
  <2>2. w.lista = e.libres \/ w.lista = <<>>
    BY <1>3
  <2>3. QED
    BY <2>1, <2>2
<1>5. l = (IF e.archivos[a].sec = <<>> THEN <<0>> ELSE e.archivos[a].sec) \o w.lista
  BY <1>3 DEF SectoresLiberados
<1>6. l \in Seq(Int)
  <2>1. <<0>> \in Seq(Int)
    OBVIOUS
  <2>2. QED
    BY <1>4, <1>5, <2>1, LargoDeDos
<1> HIDE DEF l
<1>7. y \in QuitarDosSectoresDA(w, l)
  BY <1>3 DEF l
<1>8. /\ DOMAIN y = CamposSfs /\ y.archivos = w.archivos /\ y.formateado = w.formateado
      /\ y.ucBuf = w.ucBuf /\ y.lista = w.lista /\ y.rta = w.rta /\ Recuerda(w, y)
      /\ \/ y.libres = l /\ w.formateado /\ y.sesion = w.sesion /\ y.fin = w.fin
         \/ y.libres = w.libres /\ "quitar" \in y.culpas /\ y.fin = w.fin
         \/ y.libres = w.libres /\ w.sesion = "perdida" /\ y.fin = "muere" /\ y.culpas = w.culpas
  BY <1>3, <1>7, QuitarEfecto
<1>9. w.sesion # "perdida"
  BY <1>3
<1>10. Recuerda(e, y)
  BY <1>1, <1>3, <1>8 DEF Recuerda
<1>11. y.libres \in Seq(Int) /\ y.lista \in Seq(Int) /\ y.fin = "sigue"
  BY <1>3, <1>4, <1>6, <1>8, <1>9
<1>12. ASSUME Limpio(y) PROVE y.libres = e.archivos[a].sec \o e.libres /\ y.sesion = "viva"
  <2>1. "quitar" \notin y.culpas /\ "libres" \notin y.culpas /\ "vacio" \notin y.culpas
    BY <1>12 DEF Limpio, QuitanDuenio
  <2>2. e.archivos[a].sec # <<>> /\ w.lista = e.libres
    BY <1>1, <1>3, <1>8, <2>1 DEF Recuerda
  <2>3. y.libres = l /\ y.sesion = "viva"
    BY <1>3, <1>8, <1>9, <2>1
  <2>4. QED
    BY <1>5, <2>2, <2>3
<1>13. QED
  BY <1>3, <1>8, <1>10, <1>11, <1>12 DEF Liberado

LEMMA BorraArchivo ==
    ASSUME NEW e, EsEstado(e), NEW m, m.t = "ELIMINA", Hay(e, m.a), NEW y, Liberado(e, m.a, y),
           NEW z, z \in Ldap(y, "borrar", TRUE,
                             {Responde([y EXCEPT !.archivos[m.a] = NoHay], "ELIMINADO", m, <<>>)},
                             {Responde(Culpa(y, "borrar"), "ERROR SOLO", m, <<>>)}),
           NEW x, x = z \/ x = Muere(z)
    PROVE  Hecho(e, m, x)
<1> DEFINE f == [e.archivos EXCEPT ![m.a] = NoHay]
<1>1. \/ z = Responde([y EXCEPT !.archivos[m.a] = NoHay], "ELIMINADO", m, <<>>)
      \/ z = Responde(Culpa(y, "borrar"), "ERROR SOLO", m, <<>>)
      \/ z = Muere(y) /\ y.sesion = "perdida"
  BY DEF Ldap
<1>2. /\ DOMAIN z = CamposSfs /\ z.libres = y.libres /\ z.formateado = e.formateado
      /\ z.lista = y.lista /\ z.ucBuf = e.ucBuf /\ \A c \in y.culpas : c \in z.culpas
      /\ \/ z.archivos = f /\ z.rta = Append(<<>>, Rta("ELIMINADO", m, <<>>))
         \/ /\ z.archivos = e.archivos /\ "borrar" \in z.culpas
            /\ z.rta = Append(<<>>, Rta("ERROR SOLO", m, <<>>))
         \/ z.archivos = e.archivos /\ z.rta = <<>> /\ y.sesion = "perdida"
  <2>1. CASE z = Responde([y EXCEPT !.archivos[m.a] = NoHay], "ELIMINADO", m, <<>>)
    BY <2>1 DEF Liberado, CamposSfs, Responde
  <2>2. CASE z = Responde(Culpa(y, "borrar"), "ERROR SOLO", m, <<>>)
    BY <2>2 DEF Liberado, CamposSfs, Responde, Culpa
  <2>3. CASE z = Muere(y) /\ y.sesion = "perdida"
    BY <2>3 DEF Liberado, CamposSfs, Muere
  <2>4. QED
    BY <1>1, <2>1, <2>2, <2>3
<1>3. EsTabla(f) /\ f[m.a].sec = <<>> /\ \A b \in Archivos \ {m.a} : f[b].sec = e.archivos[b].sec
  <2>1. m.a \in Archivos
    BY DEF Hay
  <2>2. NoHay.sec = <<>> /\ DOMAIN NoHay = {"sec", "tam"}
    BY DEF NoHay
  <2>3. <<>> \in Seq(Int)
    BY EmptySeq
  <2>4. QED
    BY <2>1, <2>2, <2>3 DEF EsEstado, EsTabla
<1> HIDE DEF f
<1>4. /\ DOMAIN x = CamposSfs /\ x.libres = z.libres /\ x.formateado = z.formateado
      /\ x.lista = z.lista /\ x.ucBuf = z.ucBuf /\ x.culpas = z.culpas
      /\ x.archivos = z.archivos /\ x.rta = z.rta
  BY <1>2 DEF Muere, CamposSfs
<1>5. EsEstado(x) /\ Recuerda(e, x)
  BY <1>2, <1>3, <1>4 DEF EsEstado, Recuerda, Liberado
<1>6. Append(<<>>, Rta("ELIMINADO", m, <<>>)) = <<Rta("ELIMINADO", m, <<>>)>>
  BY Sola
<1>7. Append(<<>>, Rta("ERROR SOLO", m, <<>>)) = <<Rta("ERROR SOLO", m, <<>>)>>
  BY Sola
<1>8. \/ x.rta = <<>>
      \/ x.rta = <<Rta("ELIMINADO", m, <<>>)>>
      \/ x.rta = <<Rta("ERROR SOLO", m, <<>>)>>
  BY <1>2, <1>4, <1>6, <1>7
<1>9. Contesta(m, x) /\ Unas(m, x)
  <2>1. CASE x.rta = <<>>
    BY <2>1 DEF Contesta, Unas
  <2>2. ASSUME NEW t \in {"ELIMINADO", "ERROR SOLO"}, x.rta = <<Rta(t, m, <<>>)>>
        PROVE  Contesta(m, x) /\ Unas(m, x)
    <3>1. t # "DOS" /\ t # "FORMATEADO"
      OBVIOUS
    <3>2. Contesta(m, x)
      BY <2>2, <3>1, Zenon DEF Contesta
    <3>3. Unas(m, x)
      BY <2>2, <3>1, Zenon DEF Unas
    <3>4. QED
      BY <3>2, <3>3
  <2>3. QED
    BY <1>8, <2>1, <2>2
<1>10. PorAlgo(m, x)
  BY DEF PorAlgo
<1>12. ASSUME Limpio(x) PROVE Libera(e, m, x)
  <2>1. Limpio(y) /\ "borrar" \notin x.culpas
    BY <1>2, <1>4, <1>12 DEF Limpio, QuitanDuenio
  <2>2. y.libres = e.archivos[m.a].sec \o e.libres /\ y.sesion = "viva"
    BY <2>1 DEF Liberado
  <2>3. x.archivos = f
    BY <1>2, <1>4, <2>1, <2>2
  <2>4. m.a \in Archivos
    BY DEF Hay
  <2>5. QED
    BY <1>2, <1>3, <1>4, <1>9, <2>2, <2>3, <2>4 DEF Libera, Ajenas
<1>13. QED
  BY <1>5, <1>9, <1>10, <1>12 DEF Hecho, Cuentas

LEMMA CortaEliminar ==
    ASSUME NEW e, EsEstado(e), NEW m, Hay(e, m.a), NEW y, Liberado(e, m.a, y),
           NEW x \in Corte(y, "eliminar")
    PROVE  Hecho(e, m, x)
<1>1. x = Muere(Culpa(y, "corte"))
  BY DEF Corte
<1>2. /\ DOMAIN x = CamposSfs /\ x.libres = y.libres /\ x.formateado = e.formateado
      /\ x.lista = y.lista /\ x.ucBuf = e.ucBuf /\ x.culpas = y.culpas \union {"corte"}
      /\ x.archivos = e.archivos /\ x.rta = <<>>
  BY <1>1 DEF Muere, Culpa, CamposSfs, Liberado
<1>3. EsEstado(x) /\ Recuerda(e, x) /\ Unas(m, x)
  BY <1>2 DEF EsEstado, Recuerda, Unas, Liberado
<1>4. ~Limpio(x)
  BY <1>2 DEF Limpio, QuitanDuenio
<1>5. QED
  BY <1>3, <1>4 DEF Hecho

LEMMA EliminaArchivoHecho ==
    ASSUME NEW e, EsEstado(e), e.rta = <<>>, e.fin = "sigue", NEW m, m.t = "ELIMINA",
           NEW x \in EliminaArchivo(e, m)
    PROVE  Hecho(e, m, x)
<1> DEFINE x0 == [e EXCEPT !.nombre = m.a]
           y0 == IF x0.archivos[m.a].sec = <<>> THEN Culpa(x0, "vacio") ELSE x0
           L == UNION {IF y.fin = "muere" THEN {y}
                       ELSE QuitarDosSectoresDA(y, SectoresLiberados(y, m.a)) : y \in SectoresLibresDEL(y0)}
           B(y) == Ldap(y, "borrar", TRUE,
                        {Responde([y EXCEPT !.archivos[m.a] = NoHay], "ELIMINADO", m, <<>>)},
                        {Responde(Culpa(y, "borrar"), "ERROR SOLO", m, <<>>)})
           A == UNION {IF y.fin = "muere" THEN {y} ELSE Corte(y, "eliminar") \union
                       UNION {IF z.fin = "muere" THEN {z} ELSE Indefinido(z, "bfr") : z \in B(y)} : y \in L}
<1>1. x \in Ldap(x0, "buscar", Hay(x0, m.a), A, {Muere(x0)})
  BY DEF EliminaArchivo
<1>2. /\ x0.archivos = e.archivos /\ x0.sesion = e.sesion
  BY DEF EsEstado, CamposSfs
<1> HIDE DEF A
<1>3. (x \in A /\ Hay(e, m.a) /\ e.sesion = "viva") \/ x = Muere(x0)
  BY <1>1, <1>2 DEF Ldap, Hay
<1>4. CASE x = Muere(x0)
  BY <1>4, ElMismo, SoloMuere
<1>5. CASE x \in A /\ Hay(e, m.a) /\ e.sesion = "viva"
  <2> HIDE DEF B
  <2>1. PICK y \in L : x \in IF y.fin = "muere" THEN {y} ELSE Corte(y, "eliminar") \union
                           UNION {IF z.fin = "muere" THEN {z} ELSE Indefinido(z, "bfr") : z \in B(y)}
    <3> HIDE DEF L
    <3>1. QED
      BY <1>5 DEF A
  <2>2. Liberado(e, m.a, y)
    <3> DEFINE LD == SectoresLibresDEL(y0)
    <3>1. y0 = IF e.archivos[m.a].sec = <<>> THEN Culpa([e EXCEPT !.nombre = m.a], "vacio")
               ELSE [e EXCEPT !.nombre = m.a]
      BY <1>2
    <3> HIDE DEF y0, LD
    <3>2. PICK w \in LD : y \in IF w.fin = "muere" THEN {w}
                                ELSE QuitarDosSectoresDA(w, SectoresLiberados(w, m.a))
      BY <2>1 DEF LD
    <3>3. w \in SectoresLibresDEL(y0) /\ m.a \in Archivos
      BY <1>5, <3>2 DEF LD, Hay
    <3>4. QED
      BY <1>5, <3>1, <3>2, <3>3, LiberaSectores
  <2>3. y.fin # "muere"
    BY <2>2 DEF Liberado
  <2>4. CASE x \in Corte(y, "eliminar")
    BY <1>5, <2>2, <2>4, CortaEliminar
  <2>5. CASE x \notin Corte(y, "eliminar")
    <3>1. PICK z \in B(y) : x \in IF z.fin = "muere" THEN {z} ELSE Indefinido(z, "bfr")
      BY <2>1, <2>3, <2>5
    <3>2. x = z \/ x = Muere(z)
      BY <3>1 DEF Indefinido
    <3>3. QED
      BY <1>5, <2>2, <3>1, <3>2, BorraArchivo DEF B
  <2>6. QED
    BY <2>4, <2>5
<1>6. QED
  BY <1>3, <1>4, <1>5

LEMMA AtenderHecho ==
    ASSUME NEW e, EsEstado(e), e.rta = <<>>, e.fin = "sigue", NEW m, PedidoBien(m),
           NEW x \in Atender(e, m)
    PROVE  Hecho(e, m, x)
<1>1. m.t \in TiposSfs /\ (m.t = "AGREGAR" => m.s \in Pares)
      /\ (m.t = "FORMATEAR" => m.s[1] \in {NumSectores, Otra})
  BY DEF PedidoBien
<1>2. CASE m.t = "EXISTE"
  BY <1>2, ExisteArchivoHecho DEF Atender
<1>3. CASE m.t = "INFO"
  BY <1>3, InfoArchivoHecho DEF Atender
<1>4. CASE m.t = "ELIMINA"
  BY <1>4, EliminaArchivoHecho DEF Atender
<1>5. CASE m.t = "CREAR"
  BY <1>5, CrearArchivoHecho DEF Atender
<1>6. CASE m.t = "TAMANIO"
  BY <1>6, ActualizarTamanioHecho DEF Atender
<1>7. CASE m.t = "DOS"
  BY <1>7, DosSectoresLibresHecho DEF Atender
<1>8. CASE m.t = "AGREGAR"
  BY <1>1, <1>8, AgregarSectoresHecho DEF Atender
<1>9. CASE m.t = "LISTAR"
  BY <1>9, ListarDirectorioHecho DEF Atender
<1>10. CASE m.t = "FORMATEAR"
  BY <1>1, <1>10, FormatearHecho DEF Atender
<1>11. QED
  BY <1>1, <1>2, <1>3, <1>4, <1>5, <1>6, <1>7, <1>8, <1>9, <1>10 DEF TiposSfs

-----------------------------------------------------------------------------
(* What a handler of the VSK may ask the SFS for *)

Campos == {"vsk", "fds", "oft", "cab", "aux", "con", "montado", "basura", "da", "aSfs", "aDa", "cache",
           "cant", "cl", "ped", "escrito", "ajena", "culpas"}

Llamadas == {"OPEN", "CLOSE", "LIST", "READ", "WRITE"}

\* The two lists, as far as the handlers choose by them: the call a descriptor is in
\* and its file, and how a file was opened.
EsFds(f, n) == /\ EsSec(f)
               /\ \A k \in DOMAIN f : /\ {"sys", "oft"} \subseteq DOMAIN f[k]
                                      /\ f[k].sys \in Llamadas /\ f[k].oft \in 0..n

EsOft(o) == /\ EsSec(o)
            /\ \A n \in DOMAIN o : "modo" \in DOMAIN o[n] /\ o[n].modo \in {"W", "R", "D"}

EsPed(p) == DOMAIN p = Sockets /\ \A c \in Sockets : p[c].t \in Llamadas \union {Nada}

EsVsk(e) == /\ DOMAIN e = Campos
            /\ EsOft(e.oft) /\ EsFds(e.fds, Len(e.oft)) /\ EsPed(e.ped)

\* Sequences that change.
LEMMA SecEs ==
    ASSUME NEW S, NEW q \in Seq(S)
    PROVE  EsSec(q)
<1> DEFINE T == {q[j] : j \in DOMAIN q}
<1>1. \A j \in 1..Len(q) : q[j] \in T
  OBVIOUS
<1> HIDE DEF T
<1>2. q \in Seq(T)
  BY <1>1
<1>3. QED
  BY <1>2 DEF EsSec, T

LEMMA CambiaSec ==
    ASSUME NEW q, EsSec(q), NEW k, NEW g
    PROVE  /\ EsSec([q EXCEPT ![k] = g]) /\ DOMAIN [q EXCEPT ![k] = g] = DOMAIN q
           /\ Len([q EXCEPT ![k] = g]) = Len(q) /\ Len(q) \in Nat
<1> DEFINE S == {q[j] : j \in DOMAIN q} \union {g}
<1>1. q \in Seq(S)
  BY DEF EsSec
<1> HIDE DEF S
<1>2. g \in S
  BY DEF S
<1> DEFINE c == [q EXCEPT ![k] = g]
<1>3. Len(q) \in Nat /\ DOMAIN q = 1..Len(q) /\ \A j \in 1..Len(q) : q[j] \in S
  BY <1>1
<1>4. c = [j \in 1..Len(q) |-> IF j = k THEN g ELSE q[j]]
  BY <1>3
<1>5. c \in Seq(S) /\ Len(c) = Len(q)
  <2>1. \A j \in 1..Len(q) : (IF j = k THEN g ELSE q[j]) \in S
    BY <1>2, <1>3
  <2> HIDE DEF c
  <2>2. QED
    BY <1>3, <1>4, <2>1
<1>6. QED
  BY <1>3, <1>4, <1>5, SecEs

LEMMA CambiaFd ==
    ASSUME NEW f, NEW n, EsFds(f, n), NEW k, NEW g,
           k \in DOMAIN f => {"sys", "oft"} \subseteq DOMAIN g /\ g.sys \in Llamadas /\ g.oft \in 0..n
    PROVE  EsFds([f EXCEPT ![k] = g], n)
BY CambiaSec DEF EsFds

LEMMA MasFds ==
    ASSUME NEW f, NEW n \in Nat, EsFds(f, n)
    PROVE  EsFds(f, n + 1)
<1>1. \A i \in 0..n : i \in 0..n + 1
  OBVIOUS
<1>2. QED
  BY <1>1 DEF EsFds

LEMMA CambiaOft ==
    ASSUME NEW o, EsOft(o), NEW k, NEW g,
           k \in DOMAIN o => "modo" \in DOMAIN g /\ g.modo \in {"W", "R", "D"}
    PROVE  EsOft([o EXCEPT ![k] = g]) /\ Len([o EXCEPT ![k] = g]) = Len(o) /\ Len(o) \in Nat
           /\ DOMAIN [o EXCEPT ![k] = g] = DOMAIN o
BY CambiaSec DEF EsOft

LEMMA AlPrincipio ==
    ASSUME NEW f, NEW n, EsFds(f, n), NEW g,
           {"sys", "oft"} \subseteq DOMAIN g, g.sys \in Llamadas, g.oft \in 0..n
    PROVE  EsFds(<<g>> \o f, n)
<1> DEFINE S == {f[j] : j \in DOMAIN f} \union {g}
           c == <<g>> \o f
<1>1. f \in Seq(S) /\ g \in S /\ <<g>> \in Seq(S)
  BY DEF EsFds, EsSec
<1>2. \A v \in S : {"sys", "oft"} \subseteq DOMAIN v /\ v.sys \in Llamadas /\ v.oft \in 0..n
  BY DEF EsFds
<1> HIDE DEF S
<1>3. c \in Seq(S)
  BY <1>1, ConcatProperties
<1> HIDE DEF c
<1>4. EsSec(c) /\ \A k \in DOMAIN c : c[k] \in S
  BY <1>3, SecEs
<1>5. QED
  BY <1>2, <1>4 DEF EsFds, c

LEMMA SinUno ==
    ASSUME NEW f, NEW n, EsFds(f, n), NEW k \in DOMAIN f
    PROVE  EsFds(RemoveAt(f, k), n)
<1> DEFINE S == {f[j] : j \in DOMAIN f}
           a == SubSeq(f, 1, k - 1)
           b == SubSeq(f, k + 1, Len(f))
           c == a \o b
<1>1. f \in Seq(S)
  BY DEF EsFds, EsSec
<1>2. \A v \in S : {"sys", "oft"} \subseteq DOMAIN v /\ v.sys \in Llamadas /\ v.oft \in 0..n
  BY DEF EsFds
<1> HIDE DEF S
<1>3. Len(f) \in Nat /\ k \in 1..Len(f) /\ \A j \in 1..Len(f) : f[j] \in S
  BY <1>1
<1>4. a \in Seq(S)
  <2>1. \A j \in 1..(k - 1) : f[j] \in S
    BY <1>3
  <2>2. QED
    BY <1>3, <2>1, SubSeqProperties
<1>5. b \in Seq(S)
  <2>1. \A j \in (k + 1)..Len(f) : f[j] \in S
    BY <1>3
  <2>2. QED
    BY <1>3, <2>1, SubSeqProperties
<1> HIDE DEF a, b
<1>6. c \in Seq(S)
  BY <1>4, <1>5, ConcatProperties
<1> HIDE DEF c
<1>7. EsSec(c) /\ \A j \in DOMAIN c : c[j] \in S
  BY <1>6, SecEs
<1>8. RemoveAt(f, k) = c
  BY DEF RemoveAt, c, a, b
<1>9. QED
  BY <1>2, <1>7, <1>8 DEF EsFds

\* The search of a descriptor gives one of those it looks among.
LEMMA Primero ==
    ASSUME NEW K, K \subseteq Nat \ {0}
    PROVE  PrimeroDe(K) # 0 => PrimeroDe(K) \in K
<1>1. CASE K = {}
  BY <1>1 DEF PrimeroDe
<1>2. CASE K # {}
  <2> DEFINE R == {ss \in Nat \X Nat : ss[1] < ss[2]}
  <2>1. OpToRel(<, Nat) = R
    BY Zenon DEF OpToRel
  <2>2. IsWellFoundedOn(R, Nat) /\ K \subseteq Nat
    BY <2>1, NatLessThanWellFounded, Zenon
  <2> HIDE DEF R
  <2>3. PICK n \in K : \A k \in K : <<k, n>> \notin R
    BY <1>2, <2>2, WFMin, Zenon
  <2>4. ASSUME NEW k \in K PROVE n <= k
    <3>1. <<k, n>> \notin R /\ k \in Nat /\ n \in Nat
      BY <2>3
    <3>2. QED
      BY <3>1 DEF R
  <2>5. \E m \in K : \A k \in K : m <= k
    BY <2>4
  <2>6. QED
    BY <1>2, <2>5 DEF PrimeroDe
<1>3. QED
  BY <1>1, <1>2

Perdida == {"muerta", "buscando", "bloqueada"}

\* The VSK goes on, ends, or takes a payload for a header, and then it is to blame.
Camina(e, x) == \/ x.vsk = e.vsk
                \/ x.vsk \in Perdida
                \/ x.vsk = "desfasada" /\ "descartada" \in x.culpas

\* A handler that asks the SFS for nothing, one that asks for r, and one that asks
\* for something that is neither to add sectors nor to format.
Igual(e, x) == /\ EsVsk(x) /\ x.aSfs = e.aSfs /\ x.con = e.con
               /\ Recuerda(e, x) /\ Camina(e, x)

PideUno(e, x, r) == /\ EsVsk(x) /\ x.aSfs = Append(e.aSfs, r) /\ x.con = e.con
                    /\ Recuerda(e, x) /\ Camina(e, x)

Llano(r) == r.t \in TiposSfs \ {"AGREGAR", "FORMATEAR"}

Pide(e, x) == Igual(e, x) \/ \E r : PideUno(e, x, r) /\ Llano(r)

LEMMA IgualMismo ==
    ASSUME NEW e, EsVsk(e)
    PROVE  Igual(e, e)
BY DEF Igual, Recuerda, Camina

LEMMA IgualIgual ==
    ASSUME NEW e, NEW y, Igual(e, y), NEW x, Igual(y, x)
    PROVE  Igual(e, x)
<1>1. Recuerda(e, x)
  BY DEF Igual, Recuerda
<1>2. Camina(e, x)
  BY DEF Igual, Recuerda, Camina
<1>3. QED
  BY <1>1, <1>2 DEF Igual

LEMMA IgualUno ==
    ASSUME NEW e, NEW y, Igual(e, y), NEW r, NEW x, PideUno(y, x, r)
    PROVE  PideUno(e, x, r)
<1>1. Recuerda(e, x)
  BY DEF Igual, PideUno, Recuerda
<1>2. Camina(e, x)
  BY DEF Igual, PideUno, Recuerda, Camina
<1>3. QED
  BY <1>1, <1>2 DEF Igual, PideUno

LEMMA UnoIgual ==
    ASSUME NEW e, NEW y, NEW r, PideUno(e, y, r), NEW x, Igual(y, x)
    PROVE  PideUno(e, x, r)
<1>1. Recuerda(e, x)
  BY DEF Igual, PideUno, Recuerda
<1>2. Camina(e, x)
  BY DEF Igual, PideUno, Recuerda, Camina
<1>3. QED
  BY <1>1, <1>2 DEF Igual, PideUno

LEMMA IgualEsPide ==
    ASSUME NEW e, NEW x, Igual(e, x)
    PROVE  Pide(e, x)
BY DEF Pide

LEMMA IgualPide ==
    ASSUME NEW e, NEW y, Igual(e, y), NEW x, Pide(y, x)
    PROVE  Pide(e, x)
<1>1. CASE Igual(y, x)
  BY <1>1, IgualIgual DEF Pide
<1>2. ASSUME NEW r, PideUno(y, x, r), Llano(r) PROVE Pide(e, x)
  BY <1>2, IgualUno DEF Pide
<1>3. QED
  BY <1>1, <1>2 DEF Pide

LEMMA FinIgual ==
    ASSUME NEW e, EsVsk(e)
    PROVE  /\ \A c \in Perdida : Igual(e, Fin(e, c))
           /\ Igual(e, Desfasa(e)) /\ "descartada" \in Desfasa(e).culpas
<1>1. ASSUME NEW c \in Perdida PROVE Igual(e, Fin(e, c))
  BY DEF Fin, Igual, EsVsk, Campos, Recuerda, Camina
<1>2. /\ DOMAIN Desfasa(e) = Campos /\ Desfasa(e).aSfs = e.aSfs /\ Desfasa(e).con = e.con
      /\ Desfasa(e).culpas = e.culpas \union {"descartada"} /\ Desfasa(e).vsk = "desfasada"
      /\ Desfasa(e).oft = e.oft /\ Desfasa(e).fds = e.fds /\ Desfasa(e).ped = e.ped
  BY DEF Desfasa, Fin, EsVsk, Campos
<1>3. Igual(e, Desfasa(e))
  BY <1>2 DEF Igual, EsVsk, Recuerda, Camina
<1>4. QED
  BY <1>1, <1>2, <1>3

LEMMA PuedeMorirIgual ==
    ASSUME NEW e, EsVsk(e), NEW a, NEW x \in PuedeMorir(e, a)
    PROVE  x = Fin(e, "muerta") /\ Igual(e, x)
BY FinIgual DEF PuedeMorir, Perdida

LEMMA UsaArchivoIgual ==
    ASSUME NEW e, EsVsk(e), NEW k, NEW x \in UsaArchivo(e, k)
    PROVE  Igual(e, x) /\ (x = e \/ x = Fin(e, "muerta"))
<1>1. x = e \/ x = Fin(e, "muerta")
  BY DEF UsaArchivo, PuedeMorir
<1>2. QED
  BY <1>1, FinIgual, IgualMismo DEF Perdida

LEMMA EntregaIgual ==
    ASSUME NEW e, EsVsk(e), NEW k, NEW t, NEW v, NEW x \in Entrega(e, k, t, v)
    PROVE  Igual(e, x)
<1>1. \/ x = e
      \/ x = [e EXCEPT !.vsk = "muerta"]
      \/ \E r, w : x = [e EXCEPT !.cl[e.fds[k].sock] = r, !.escrito = w]
      \/ x = [e EXCEPT !.cl[e.fds[k].sock].est = "confuso", !.ajena = TRUE]
  BY Zenon DEF Entrega, PuedeMorir, Fin
<1>2. QED
  BY <1>1 DEF Igual, EsVsk, Campos, Recuerda, Camina, Perdida

LEMMA CierraIgual ==
    ASSUME NEW e, EsVsk(e), NEW c
    PROVE  Igual(e, CierraSocket(e, c))
<1> DEFINE x == CierraSocket(e, c)
           p == [e.ped EXCEPT ![c] = NoLlamada]
<1>1. EsPed(p)
  BY DEF EsVsk, EsPed, NoLlamada, Llamada
<1> HIDE DEF p
<1>2. /\ DOMAIN x = Campos /\ x.oft = e.oft /\ x.fds = e.fds /\ x.ped = p
      /\ x.aSfs = e.aSfs /\ x.con = e.con /\ x.vsk = e.vsk /\ x.culpas = e.culpas
  BY DEF CierraSocket, EsVsk, Campos, p
<1> HIDE DEF x
<1>3. Igual(e, x)
  BY <1>1, <1>2 DEF Igual, EsVsk, Recuerda, Camina
<1>4. QED
  BY <1>3 DEF x

LEMMA QuitarFdIgual ==
    ASSUME NEW e, EsVsk(e), NEW c
    PROVE  Igual(e, QuitarFdPorSocket(e, c))
<1> DEFINE K == {j \in DOMAIN e.fds : e.fds[j].sock # c}
           k == PrimeroDe(K)
           x == QuitarFdPorSocket(e, c)
<1>1. K \subseteq Nat \ {0} /\ K \subseteq DOMAIN e.fds
  BY DEF EsVsk, EsFds, EsSec
<1>2. k # 0 => k \in DOMAIN e.fds
  <2> HIDE DEF K
  <2>1. QED
    BY <1>1, Primero
<1>3. CASE k = 0
  <2>1. x = e
    BY <1>3 DEF QuitarFdPorSocket
  <2>2. QED
    BY <2>1, IgualMismo DEF x
<1>4. CASE k # 0
  <2>1. /\ DOMAIN x = Campos /\ x.oft = e.oft /\ x.fds = RemoveAt(e.fds, k) /\ x.ped = e.ped
        /\ x.aSfs = e.aSfs /\ x.con = e.con /\ x.vsk = e.vsk
        /\ \A g \in e.culpas : g \in x.culpas
    BY <1>4 DEF QuitarFdPorSocket, EsVsk, Campos
  <2> HIDE DEF k, x
  <2>2. EsFds(x.fds, Len(x.oft))
    BY <1>2, <1>4, <2>1, SinUno DEF EsVsk
  <2>3. Igual(e, x)
    BY <2>1, <2>2 DEF Igual, EsVsk, Recuerda, Camina
  <2>4. QED
    BY <2>3 DEF x
<1>5. QED
  BY <1>3, <1>4

LEMMA TerminaIgual ==
    ASSUME NEW e, EsVsk(e), NEW k, NEW t, NEW x \in Termina(e, k, t)
    PROVE  Igual(e, x)
<1>1. PICK y \in Entrega(e, k, t, <<>>) :
         \/ x = y
         \/ x = QuitarFdPorSocket(CierraSocket(y, e.fds[k].sock), e.fds[k].sock)
  BY DEF Termina, Luego
<1>2. Igual(e, y) /\ EsVsk(y)
  BY EntregaIgual DEF Igual
<1>3. Igual(y, CierraSocket(y, e.fds[k].sock)) /\ EsVsk(CierraSocket(y, e.fds[k].sock))
  BY <1>2, CierraIgual DEF Igual
<1>4. Igual(CierraSocket(y, e.fds[k].sock), QuitarFdPorSocket(CierraSocket(y, e.fds[k].sock), e.fds[k].sock))
  BY <1>3, QuitarFdIgual
<1>5. QED
  BY <1>1, <1>2, <1>3, <1>4, IgualIgual

LEMMA MeterFdIgual ==
    ASSUME NEW e, EsVsk(e), NEW id, NEW c, NEW sys \in {"OPEN", "LIST"}, NEW a,
           NEW x \in MeterFd(e, id, c, sys, a)
    PROVE  Igual(e, x)
<1>1. PICK p : x = [e EXCEPT !.fds = <<[id |-> id, sock |-> c, sys |-> sys, oft |-> 0, paso |-> p,
                                        pos |-> 0, tot |-> 0, a |-> a, s |-> <<>>]>> \o @]
  BY DEF MeterFd
<1> DEFINE g == [id |-> id, sock |-> c, sys |-> sys, oft |-> 0, paso |-> p,
                 pos |-> 0, tot |-> 0, a |-> a, s |-> <<>>]
<1>2. {"sys", "oft"} \subseteq DOMAIN g /\ g.sys \in Llamadas /\ g.oft = 0
  BY DEF Llamadas
<1>3. /\ DOMAIN x = Campos /\ x.oft = e.oft /\ x.fds = <<g>> \o e.fds /\ x.ped = e.ped
      /\ x.aSfs = e.aSfs /\ x.con = e.con /\ x.vsk = e.vsk /\ x.culpas = e.culpas
  BY <1>1 DEF EsVsk, Campos
<1> HIDE DEF g
<1>4. 0 \in 0..Len(e.oft)
  BY DEF EsVsk, EsOft, EsSec
<1>5. EsFds(x.fds, Len(x.oft))
  BY <1>2, <1>3, <1>4, AlPrincipio DEF EsVsk
<1>6. QED
  BY <1>3, <1>5 DEF Igual, EsVsk, Recuerda, Camina

LEMMA MeterOftIgual ==
    ASSUME NEW e, EsVsk(e), NEW k, NEW modo \in {"W", "R", "D"}, NEW sec,
           NEW x \in MeterOft(e, k, modo, sec)
    PROVE  Igual(e, x)
<1> DEFINE g == [a |-> e.fds[k].a, modo |-> modo, tam |-> 0, buf |-> <<Vacio, Vacio>>,
                 sec |-> sec, sgte |-> e.cab, libre |-> FALSE]
           o == e.oft
           l == Len(o)
<1>1. "modo" \in DOMAIN g /\ g.modo \in {"W", "R", "D"}
  OBVIOUS
<1>2. PICK n \in {l + 1} \union {i \in DOMAIN o : o[i].libre} :
         x = [e EXCEPT !.oft = IF n > Len(@) THEN Append(@, g) ELSE [@ EXCEPT ![n] = g],
                       !.cab = n, !.fds[k].oft = n, !.fds[k].tot = Len(sec)]
  BY DEF MeterOft
<1> DEFINE q == IF n > l THEN Append(o, g) ELSE [o EXCEPT ![n] = g]
           h == [e.fds[k] EXCEPT !.oft = n, !.tot = Len(sec)]
<1>3. /\ DOMAIN x = Campos /\ x.oft = q /\ x.fds = [e.fds EXCEPT ![k] = h] /\ x.ped = e.ped
      /\ x.aSfs = e.aSfs /\ x.con = e.con /\ x.vsk = e.vsk /\ x.culpas = e.culpas
  BY <1>2 DEF EsVsk, Campos
<1> HIDE DEF g
<1>4. EsOft(o) /\ EsSec(o) /\ l \in Nat /\ DOMAIN o = 1..l /\ EsFds(e.fds, l)
  BY CambiaSec DEF EsVsk, EsOft, EsSec
<1>5. EsOft(q) /\ Len(q) \in {l, l + 1} /\ n \in 0..Len(q)
  <2>1. CASE n = l + 1
    <3>1. n > l
      BY <1>4, <2>1
    <3>2. q = Append(o, g)
      BY <3>1
    <3> HIDE DEF q, o, l
    <3>3. EsOft(Append(o, g))
      BY <1>1, <1>4, EsSecMas DEF EsOft
    <3>4. Len(Append(o, g)) = l + 1
      BY <1>4, EsSecMas DEF l
    <3>5. QED
      BY <1>4, <2>1, <3>2, <3>3, <3>4
  <2>2. CASE n \in 1..l
    <3>1. ~(n > l)
      BY <1>4, <2>2
    <3>2. q = [o EXCEPT ![n] = g]
      BY <3>1
    <3> HIDE DEF q, o, l
    <3>3. EsOft([o EXCEPT ![n] = g]) /\ Len([o EXCEPT ![n] = g]) = l
      BY <1>1, <1>4, CambiaOft DEF l
    <3>4. QED
      BY <1>4, <2>2, <3>2, <3>3
  <2>3. QED
    BY <1>2, <1>4, <2>1, <2>2
<1>6. EsFds(e.fds, Len(q))
  <2> HIDE DEF q, o, l
  <2>1. QED
    BY <1>4, <1>5, MasFds
<1>7. k \in DOMAIN e.fds => {"sys", "oft"} \subseteq DOMAIN h /\ h.sys \in Llamadas /\ h.oft = n
  BY DEF EsVsk, EsFds
<1> HIDE DEF q, h, o, l
<1>8. EsFds([e.fds EXCEPT ![k] = h], Len(q))
  BY <1>5, <1>6, <1>7, CambiaFd
<1>9. QED
  BY <1>3, <1>5, <1>8 DEF Igual, EsVsk, Recuerda, Camina

LEMMA QuitarOftIgual ==
    ASSUME NEW e, EsVsk(e), NEW guarda, NEW x \in QuitarOft(e, guarda)
    PROVE  Igual(e, x)
<1>1. \/ x = e
      \/ \E n, c : x = [e EXCEPT !.oft[n].libre = TRUE, !.cab = c]
      \/ x = Fin(e, "muerta") \/ x = Fin(e, "buscando")
      \/ \E s, n : x = [e EXCEPT !.oft[s].libre = TRUE, !.oft[n].sgte = e.oft[s].sgte]
  BY DEF QuitarOft, PuedeMorir
<1>2. CASE x = e \/ x = Fin(e, "muerta") \/ x = Fin(e, "buscando")
  BY <1>2, IgualMismo, FinIgual DEF Perdida
<1>3. ASSUME NEW n, NEW c, x = [e EXCEPT !.oft[n].libre = TRUE, !.cab = c] PROVE Igual(e, x)
  <2> DEFINE g == [e.oft[n] EXCEPT !.libre = TRUE]
  <2>1. n \in DOMAIN e.oft => "modo" \in DOMAIN g /\ g.modo \in {"W", "R", "D"}
    BY DEF EsVsk, EsOft
  <2>2. /\ DOMAIN x = Campos /\ x.oft = [e.oft EXCEPT ![n] = g] /\ x.fds = e.fds /\ x.ped = e.ped
        /\ x.aSfs = e.aSfs /\ x.con = e.con /\ x.vsk = e.vsk /\ x.culpas = e.culpas
    BY <1>3 DEF EsVsk, Campos
  <2> HIDE DEF g
  <2>3. EsOft(x.oft) /\ Len(x.oft) = Len(e.oft)
    BY <2>1, <2>2, CambiaOft DEF EsVsk
  <2>4. QED
    BY <2>2, <2>3 DEF Igual, EsVsk, Recuerda, Camina
<1>4. ASSUME NEW s, NEW n, x = [e EXCEPT !.oft[s].libre = TRUE, !.oft[n].sgte = e.oft[s].sgte]
      PROVE  Igual(e, x)
  <2> DEFINE g == [e.oft[s] EXCEPT !.libre = TRUE]
             o == [e.oft EXCEPT ![s] = g]
             h == [o[n] EXCEPT !.sgte = e.oft[s].sgte]
  <2>1. s \in DOMAIN e.oft => "modo" \in DOMAIN g /\ g.modo \in {"W", "R", "D"}
    BY DEF EsVsk, EsOft
  <2>2. /\ DOMAIN x = Campos /\ x.oft = [o EXCEPT ![n] = h] /\ x.fds = e.fds /\ x.ped = e.ped
        /\ x.aSfs = e.aSfs /\ x.con = e.con /\ x.vsk = e.vsk /\ x.culpas = e.culpas
    BY <1>4 DEF EsVsk, Campos
  <2> HIDE DEF g
  <2>3. EsOft(o) /\ Len(o) = Len(e.oft)
    BY <2>1, CambiaOft DEF EsVsk
  <2> HIDE DEF o
  <2>4. n \in DOMAIN o => "modo" \in DOMAIN h /\ h.modo \in {"W", "R", "D"}
    BY <2>3 DEF EsOft
  <2> HIDE DEF h
  <2>5. EsOft(x.oft) /\ Len(x.oft) = Len(e.oft)
    BY <2>2, <2>3, <2>4, CambiaOft
  <2>6. QED
    BY <2>2, <2>5 DEF Igual, EsVsk, Recuerda, Camina
<1>5. QED
  BY <1>1, <1>2, <1>3, <1>4

LEMMA PideDaIgual ==
    ASSUME NEW e, EsVsk(e), NEW t, NEW id, NEW s, NEW v, NEW x \in PideDa(e, t, id, s, v)
    PROVE  Igual(e, x)
<1>1. x = [e EXCEPT !.aDa = Append(@, DePedido(t, id, s, v))] \/ x = e \/ x = Fin(e, "muerta")
  BY DEF PideDa
<1>2. QED
  BY <1>1, IgualMismo, FinIgual DEF Igual, EsVsk, Campos, Recuerda, Camina, Perdida

LEMMA GuardarIgual ==
    ASSUME NEW e, EsVsk(e), NEW s, NEW v, NEW x \in GuardarEnCache(e, s, v)
    PROVE  Igual(e, x)
<1>1. CASE e.cant = -1
  <2>1. x = e \/ x = Fin(e, "muerta")
    BY <1>1 DEF GuardarEnCache, PuedeMorir
  <2>2. QED
    BY <2>1, IgualMismo, FinIgual DEF Perdida
<1>2. CASE e.cant # -1 /\ e.cant < MaxCache
  <2>1. x = CargarCache(e, s, v)
    BY <1>2 DEF GuardarEnCache
  <2>2. QED
    BY <2>1 DEF CargarCache, Igual, EsVsk, Campos, Recuerda, Camina
<1>3. CASE e.cant # -1 /\ ~(e.cant < MaxCache)
  <2> DEFINE y == [e EXCEPT !.culpas = @ \union {"victima"}]
  <2>1. x \in PisarVictima(e, v)
    BY <1>3 DEF GuardarEnCache
  <2>2. \/ x = [y EXCEPT !.cant = -1]
        \/ x = Fin(e, "muerta")
        \/ \E n : x = [y EXCEPT !.cache[n].v = v]
    BY <2>1 DEF PisarVictima, PuedeMorir
  <2>3. EsVsk(y) /\ y.aSfs = e.aSfs /\ y.con = e.con /\ y.vsk = e.vsk
        /\ \A c \in e.culpas : c \in y.culpas
    BY DEF EsVsk, Campos
  <2> HIDE DEF y
  <2>4. QED
    BY <2>2, <2>3, FinIgual DEF Igual, EsVsk, Campos, Recuerda, Camina, Perdida
<1>4. QED
  BY <1>1, <1>2, <1>3

LEMMA InvalidarIgual ==
    ASSUME NEW e, EsVsk(e), NEW ss, NEW x \in Invalidar(e, ss)
    PROVE  Igual(e, x)
<1>1. \/ x = e \/ x = Fin(e, "muerta")
      \/ \E c : x = [e EXCEPT !.cache = c]
  BY DEF Invalidar, PuedeMorir
<1>2. QED
  BY <1>1, IgualMismo, FinIgual DEF Igual, EsVsk, Campos, Recuerda, Camina, Perdida

\* A request leaves if both ends attend.
LEMMA PideSfsUno ==
    ASSUME NEW e, EsVsk(e), NEW t, NEW modo, NEW id, NEW a, NEW s,
           NEW x \in PideSfs(e, t, modo, id, a, s)
    PROVE  \/ PideUno(e, x, Pedido(t, modo, id, a, s)) /\ x.vsk = e.vsk
           \/ Igual(e, x) /\ ~(e.con = "si" /\ sfs = "atendiendo")
<1>1. CASE e.con = "si" /\ sfs = "atendiendo"
  <2>1. x = [e EXCEPT !.aSfs = Append(@, Pedido(t, modo, id, a, s))]
    BY <1>1 DEF PideSfs
  <2>2. QED
    BY <2>1 DEF PideUno, EsVsk, Campos, Recuerda, Camina
<1>2. CASE ~(e.con = "si" /\ sfs = "atendiendo")
  <2>1. x = e \/ x = Fin(e, "muerta")
    BY <1>2 DEF PideSfs, PuedeMorir
  <2>2. QED
    BY <1>2, <2>1, IgualMismo, FinIgual DEF Perdida
<1>3. QED
  BY <1>1, <1>2

LEMMA PideSfsPide ==
    ASSUME NEW e, EsVsk(e), NEW t \in TiposSfs \ {"AGREGAR", "FORMATEAR"}, NEW modo, NEW id,
           NEW a, NEW s, NEW x \in PideSfs(e, t, modo, id, a, s)
    PROVE  Pide(e, x)
<1>1. Llano(Pedido(t, modo, id, a, s))
  BY DEF Llano, Pedido
<1>2. QED
  BY <1>1, PideSfsUno DEF Pide

LEMMA BuscaSfsIgual ==
    ASSUME NEW e, EsVsk(e)
    PROVE  Igual(e, BuscaSfs(e)) /\ (BuscaSfs(e).vsk = "atendiendo" => BuscaSfs(e).fds = e.fds
                                     /\ BuscaSfs(e).oft = e.oft)
<1>1. CASE e.con = "no"
  <2>1. BuscaSfs(e) = Fin(e, "muerta") /\ Fin(e, "muerta").vsk = "muerta"
    BY <1>1 DEF BuscaSfs, Fin, EsVsk, Campos
  <2>2. QED
    BY <2>1, FinIgual DEF Perdida
<1>2. CASE e.con # "no"
  BY <1>2 DEF BuscaSfs, Igual, EsVsk, Campos, Recuerda, Camina
<1>3. QED
  BY <1>1, <1>2

-----------------------------------------------------------------------------
(* The system calls *)

\* A handler that changes only what a descriptor remembers.
LEMMA CambiaPaso ==
    ASSUME NEW e, EsVsk(e), NEW k, NEW p
    PROVE  Igual(e, [e EXCEPT !.fds[k].paso = p])
<1> DEFINE x == [e EXCEPT !.fds[k].paso = p]
           g == [e.fds[k] EXCEPT !.paso = p]
<1>1. k \in DOMAIN e.fds => {"sys", "oft"} \subseteq DOMAIN g /\ g.sys \in Llamadas /\ g.oft \in 0..Len(e.oft)
  BY DEF EsVsk, EsFds
<1>2. /\ DOMAIN x = Campos /\ x.oft = e.oft /\ x.fds = [e.fds EXCEPT ![k] = g] /\ x.ped = e.ped
      /\ x.aSfs = e.aSfs /\ x.con = e.con /\ x.vsk = e.vsk /\ x.culpas = e.culpas
  BY DEF EsVsk, Campos
<1> HIDE DEF g, x
<1>3. EsFds([e.fds EXCEPT ![k] = g], Len(e.oft))
  <2>1. EsFds(e.fds, Len(e.oft))
    BY DEF EsVsk
  <2>2. QED
    BY <1>1, <2>1, CambiaFd
<1>4. Igual(e, x)
  BY <1>2, <1>3 DEF Igual, EsVsk, Recuerda, Camina
<1>5. QED
  BY <1>4 DEF x

LEMMA IgualEs == ASSUME NEW e, NEW x, Igual(e, x) PROVE EsVsk(x)
BY DEF Igual

LEMMA AbrirPrimeroPide ==
    ASSUME NEW e, EsVsk(e), NEW k, NEW m, NEW x \in AbrirPrimero(e, k, m)
    PROVE  Pide(e, x)
<1>1. \/ x = e \/ x = Fin(e, "buscando")
      \/ x \in PideSfs(e, "EXISTE", m.s.modo, m.id, m.s.a, <<>>)
  BY DEF AbrirPrimero, VerificarAbierto
<1>2. CASE x = e \/ x = Fin(e, "buscando")
  BY <1>2, IgualMismo, FinIgual DEF Perdida, Pide
<1>3. CASE x \in PideSfs(e, "EXISTE", m.s.modo, m.id, m.s.a, <<>>)
  BY <1>3, PideSfsPide DEF TiposSfs
<1>4. QED
  BY <1>1, <1>2, <1>3

LEMMA AbrirPide ==
    ASSUME NEW e, EsVsk(e), NEW k, NEW m, NEW x \in Abrir(e, k, m)
    PROVE  /\ Pide(e, x)
           /\ m.t = "DOS" => x = Desfasa(e)
<1> DEFINE P(t) == PideSfs(e, t, m.modo, m.id, e.fds[k].a, <<>>)
           Q(modo, sec) == UNION {Entrega(y, k, "OPEN_OK", <<>>) : y \in MeterOft(e, k, modo, sec)}
<1>1. /\ \/ \E t \in {"ELIMINA", "CREAR", "INFO"} : x \in P(t)
         \/ \E modo \in {"W", "R", "D"} : \E sec : x \in Q(modo, sec)
         \/ x \in Entrega(e, k, "OPEN_FAILED", <<>>)
         \/ x = Desfasa(e) \/ x = e
      /\ m.t = "DOS" => x = Desfasa(e)
  BY DEF Abrir, ConPayload
<1>2. ASSUME NEW t \in {"ELIMINA", "CREAR", "INFO"}, x \in P(t) PROVE Pide(e, x)
  <2>1. t \in TiposSfs \ {"AGREGAR", "FORMATEAR"}
    BY DEF TiposSfs
  <2>2. QED
    BY <1>2, <2>1, PideSfsPide
<1>3. ASSUME NEW modo \in {"W", "R", "D"}, NEW sec, x \in Q(modo, sec) PROVE Pide(e, x)
  <2>1. PICK y \in MeterOft(e, k, modo, sec) : x \in Entrega(y, k, "OPEN_OK", <<>>)
    BY <1>3
  <2>2. Igual(e, y) /\ EsVsk(y)
    BY MeterOftIgual DEF Igual
  <2>3. QED
    BY <2>1, <2>2, EntregaIgual, IgualIgual DEF Pide
<1>4. ASSUME x \in Entrega(e, k, "OPEN_FAILED", <<>>) PROVE Pide(e, x)
  BY <1>4, EntregaIgual, IgualEsPide
<1>5. ASSUME x = Desfasa(e) \/ x = e PROVE Pide(e, x)
  BY <1>5, FinIgual, IgualMismo, IgualEsPide
<1> HIDE DEF P, Q
<1>6. QED
  BY <1>1, <1>2, <1>3, <1>4, <1>5

LEMMA CerrarPrimeroPide ==
    ASSUME NEW e, EsVsk(e), NEW k \in DOMAIN e.fds, NEW m, NEW x \in CerrarPrimero(e, k, m)
    PROVE  Pide(e, x)
<1> DEFINE f == e.oft[e.fds[k].oft]
           w == [e EXCEPT !.fds[k].paso = 1]
           P(modo, t, s) == PideSfs(w, t, modo, m.id, f.a, s)
<1>1. Igual(e, w) /\ EsVsk(w)
  BY CambiaPaso, IgualEs
<1>2. \/ x = w
      \/ e.fds[k].oft # 0 /\ x \in Luego(UsaArchivo(e, k), LAMBDA y :
            CASE f.modo = "R" -> Luego(QuitarOft(y, FALSE), LAMBDA z : Termina(z, k, "CLOSE_OK"))
              [] f.modo = "W" -> P("W", "TAMANIO", <<f.tam>>)
              [] f.modo = "D" -> P("D", "ELIMINA", <<>>))
  BY DEF CerrarPrimero
<1>3. CASE x = w
  BY <1>1, <1>3 DEF Pide
<1>4. ASSUME NEW t \in {"TAMANIO", "ELIMINA"}, NEW modo, NEW s, x \in P(modo, t, s) PROVE Pide(e, x)
  <2>1. t \in TiposSfs \ {"AGREGAR", "FORMATEAR"}
    BY DEF TiposSfs
  <2>2. Pide(w, x)
    BY <1>1, <1>4, <2>1, PideSfsPide
  <2>3. QED
    BY <1>1, <2>2, IgualPide
<1> HIDE DEF P, f, w
<1>5. CASE x # w
  <2>1. PICK y \in UsaArchivo(e, k) :
           \/ x = y
           \/ x \in CASE f.modo = "R" -> Luego(QuitarOft(y, FALSE), LAMBDA z : Termina(z, k, "CLOSE_OK"))
                      [] f.modo = "W" -> P("W", "TAMANIO", <<f.tam>>)
                      [] f.modo = "D" -> P("D", "ELIMINA", <<>>)
    BY <1>2, <1>5 DEF Luego
  <2>2. Igual(e, y) /\ EsVsk(y)
    BY UsaArchivoIgual DEF Igual
  <2>3. CASE x \in Luego(QuitarOft(y, FALSE), LAMBDA z : Termina(z, k, "CLOSE_OK"))
    <3>1. PICK z \in QuitarOft(y, FALSE) : x = z \/ x \in Termina(z, k, "CLOSE_OK")
      BY <2>3 DEF Luego
    <3>2. Igual(e, z) /\ EsVsk(z)
      BY <2>2, QuitarOftIgual, IgualIgual DEF Igual
    <3>3. QED
      BY <3>1, <3>2, TerminaIgual, IgualIgual DEF Pide
  <2>4. f.modo \in {"W", "R", "D"}
    <3>1. e.fds[k].oft \in 0..Len(e.oft) /\ e.fds[k].oft # 0
      BY <1>2, <1>5 DEF EsVsk, EsFds
    <3>2. DOMAIN e.oft = 1..Len(e.oft)
      BY DEF EsVsk, EsOft, EsSec
    <3>3. e.fds[k].oft \in DOMAIN e.oft
      BY <3>1, <3>2
    <3>4. QED
      BY <3>3 DEF EsVsk, EsOft, f
  <2>5. CASE x = y
    BY <2>2, <2>5, IgualEsPide
  <2>6. QED
    BY <1>4, <2>1, <2>3, <2>4, <2>5
<1>6. QED
  BY <1>3, <1>5

LEMMA CerrarIgual ==
    ASSUME NEW e, EsVsk(e), NEW k, NEW m, NEW x \in Cerrar(e, k, m)
    PROVE  /\ Igual(e, x)
           /\ m.t = "DOS" /\ e.vsk = "atendiendo" => x.vsk \in Perdida \/ "descartada" \in x.culpas
<1>1. \/ x = Desfasa(e)
      \/ x = e /\ m.t # "DOS"
      \/ x \in Luego(UsaArchivo(e, k), LAMBDA w :
               Luego(QuitarOft(w, TRUE), LAMBDA y :
               Luego(Termina(y, k, "CLOSE_OK"), LAMBDA z :
               {IF m.t \in ConPayload THEN Desfasa(z) ELSE z})))
  BY DEF Cerrar, ConPayload
<1>2. CASE x = Desfasa(e) \/ (x = e /\ m.t # "DOS")
  BY <1>2, FinIgual, IgualMismo
<1>3. ASSUME NEW y, Igual(e, y), y.vsk # "atendiendo"
      PROVE  e.vsk = "atendiendo" => y.vsk \in Perdida \/ "descartada" \in y.culpas
  BY <1>3 DEF Igual, Camina
<1>4. CASE x \in Luego(UsaArchivo(e, k), LAMBDA w :
               Luego(QuitarOft(w, TRUE), LAMBDA y :
               Luego(Termina(y, k, "CLOSE_OK"), LAMBDA z :
               {IF m.t \in ConPayload THEN Desfasa(z) ELSE z})))
  <2>1. PICK w \in UsaArchivo(e, k) :
           \/ x = w /\ w.vsk # "atendiendo"
           \/ x \in Luego(QuitarOft(w, TRUE), LAMBDA y :
                    Luego(Termina(y, k, "CLOSE_OK"), LAMBDA z :
                    {IF m.t \in ConPayload THEN Desfasa(z) ELSE z}))
    BY <1>4 DEF Luego
  <2>2. Igual(e, w) /\ EsVsk(w)
    BY UsaArchivoIgual DEF Igual
  <2>3. CASE x = w /\ w.vsk # "atendiendo"
    BY <1>3, <2>2, <2>3
  <2>4. CASE x \in Luego(QuitarOft(w, TRUE), LAMBDA y :
                   Luego(Termina(y, k, "CLOSE_OK"), LAMBDA z :
                   {IF m.t \in ConPayload THEN Desfasa(z) ELSE z}))
    <3>1. PICK y \in QuitarOft(w, TRUE) :
             \/ x = y /\ y.vsk # "atendiendo"
             \/ x \in Luego(Termina(y, k, "CLOSE_OK"), LAMBDA z :
                      {IF m.t \in ConPayload THEN Desfasa(z) ELSE z})
      BY <2>4 DEF Luego
    <3>2. Igual(e, y) /\ EsVsk(y)
      BY <2>2, QuitarOftIgual, IgualIgual DEF Igual
    <3>3. CASE x = y /\ y.vsk # "atendiendo"
      BY <1>3, <3>2, <3>3
    <3>4. CASE x \in Luego(Termina(y, k, "CLOSE_OK"), LAMBDA z :
                     {IF m.t \in ConPayload THEN Desfasa(z) ELSE z})
      <4>1. PICK z \in Termina(y, k, "CLOSE_OK") :
               \/ x = z /\ z.vsk # "atendiendo"
               \/ x = IF m.t \in ConPayload THEN Desfasa(z) ELSE z
        BY <3>4 DEF Luego
      <4>2. Igual(e, z) /\ EsVsk(z)
        BY <3>2, TerminaIgual, IgualIgual DEF Igual
      <4>3. Igual(e, Desfasa(z)) /\ "descartada" \in Desfasa(z).culpas
        BY <4>2, FinIgual, IgualIgual
      <4>4. QED
        BY <1>3, <4>1, <4>2, <4>3 DEF ConPayload
    <3>5. QED
      BY <3>1, <3>3, <3>4
  <2>5. QED
    BY <2>1, <2>3, <2>4
<1>5. QED
  BY <1>1, <1>2, <1>4

\* A handler that changes what a descriptor or a file of the list remembers.
LEMMA CambiaFdIgual ==
    ASSUME NEW e, EsVsk(e), NEW k, NEW g, {"sys", "oft"} \subseteq DOMAIN g, g.sys \in Llamadas,
           k \in DOMAIN e.fds => g.oft = e.fds[k].oft, NEW x, x = [e EXCEPT !.fds[k] = g]
    PROVE  Igual(e, x) /\ DOMAIN x.fds = DOMAIN e.fds
<1>1. EsFds(e.fds, Len(e.oft))
  BY DEF EsVsk
<1>2. k \in DOMAIN e.fds => g.oft \in 0..Len(e.oft)
  BY <1>1 DEF EsFds
<1>3. EsFds([e.fds EXCEPT ![k] = g], Len(e.oft))
  BY <1>1, <1>2, CambiaFd
<1>4. /\ DOMAIN x = Campos /\ x.oft = e.oft /\ x.fds = [e.fds EXCEPT ![k] = g] /\ x.ped = e.ped
      /\ x.aSfs = e.aSfs /\ x.con = e.con /\ x.vsk = e.vsk /\ x.culpas = e.culpas
  BY DEF EsVsk, Campos
<1>5. QED
  BY <1>3, <1>4 DEF Igual, EsVsk, Recuerda, Camina

LEMMA CambiaOftIgual ==
    ASSUME NEW e, EsVsk(e), NEW n, NEW h, n \in DOMAIN e.oft => h.modo = e.oft[n].modo /\ "modo" \in DOMAIN h,
           NEW x, x = [e EXCEPT !.oft[n] = h]
    PROVE  Igual(e, x) /\ x.fds = e.fds
<1>1. EsOft(e.oft)
  BY DEF EsVsk
<1>2. n \in DOMAIN e.oft => "modo" \in DOMAIN h /\ h.modo \in {"W", "R", "D"}
  BY <1>1 DEF EsOft
<1>3. EsOft([e.oft EXCEPT ![n] = h]) /\ Len([e.oft EXCEPT ![n] = h]) = Len(e.oft)
  BY <1>1, <1>2, CambiaOft
<1>4. /\ DOMAIN x = Campos /\ x.fds = e.fds /\ x.oft = [e.oft EXCEPT ![n] = h] /\ x.ped = e.ped
      /\ x.aSfs = e.aSfs /\ x.con = e.con /\ x.vsk = e.vsk /\ x.culpas = e.culpas
  BY DEF EsVsk, Campos
<1>5. QED
  BY <1>3, <1>4 DEF Igual, EsVsk, Recuerda, Camina

LEMMA CambiaPos ==
    ASSUME NEW e, EsVsk(e), NEW k \in DOMAIN e.fds, NEW p, NEW x,
           \/ x = [e EXCEPT !.fds[k].pos = p]
           \/ x = [e EXCEPT !.fds[k].s = p]
           \/ x = [e EXCEPT !.fds[k].paso = p]
    PROVE  Igual(e, x) /\ EsVsk(x) /\ DOMAIN x.fds = DOMAIN e.fds
<1>1. {"sys", "oft"} \subseteq DOMAIN e.fds[k] /\ e.fds[k].sys \in Llamadas
  BY DEF EsVsk, EsFds
<1>2. CASE x = [e EXCEPT !.fds[k].pos = p]
  <2> DEFINE g == [e.fds[k] EXCEPT !.pos = p]
  <2>1. {"sys", "oft"} \subseteq DOMAIN g /\ g.sys \in Llamadas /\ g.oft = e.fds[k].oft
    BY <1>1
  <2>2. x = [e EXCEPT !.fds[k] = g]
    BY <1>2
  <2>3. DOMAIN x.fds = DOMAIN e.fds
    BY <2>2 DEF EsVsk, Campos
  <2> HIDE DEF g
  <2>4. Igual(e, x)
    BY <2>1, <2>2, CambiaFdIgual
  <2>5. QED
    BY <2>3, <2>4 DEF Igual
<1>3. CASE x = [e EXCEPT !.fds[k].s = p]
  <2> DEFINE g == [e.fds[k] EXCEPT !.s = p]
  <2>1. {"sys", "oft"} \subseteq DOMAIN g /\ g.sys \in Llamadas /\ g.oft = e.fds[k].oft
    BY <1>1
  <2>2. x = [e EXCEPT !.fds[k] = g]
    BY <1>3
  <2>3. DOMAIN x.fds = DOMAIN e.fds
    BY <2>2 DEF EsVsk, Campos
  <2> HIDE DEF g
  <2>4. Igual(e, x)
    BY <2>1, <2>2, CambiaFdIgual
  <2>5. QED
    BY <2>3, <2>4 DEF Igual
<1>4. CASE x = [e EXCEPT !.fds[k].paso = p]
  <2> DEFINE g == [e.fds[k] EXCEPT !.paso = p]
  <2>1. {"sys", "oft"} \subseteq DOMAIN g /\ g.sys \in Llamadas /\ g.oft = e.fds[k].oft
    BY <1>1
  <2>2. x = [e EXCEPT !.fds[k] = g]
    BY <1>4
  <2>3. DOMAIN x.fds = DOMAIN e.fds
    BY <2>2 DEF EsVsk, Campos
  <2> HIDE DEF g
  <2>4. Igual(e, x)
    BY <2>1, <2>2, CambiaFdIgual
  <2>5. QED
    BY <2>3, <2>4 DEF Igual
<1>5. QED
  BY <1>2, <1>3, <1>4

LEMMA CambiaBuf ==
    ASSUME NEW e, EsVsk(e), NEW n, NEW b, NEW x,
           x = [e EXCEPT !.oft[n].buf = b] \/ x = [e EXCEPT !.oft[n].tam = b]
    PROVE  Igual(e, x) /\ EsVsk(x) /\ x.fds = e.fds
<1>1. n \in DOMAIN e.oft => "modo" \in DOMAIN e.oft[n]
  BY DEF EsVsk, EsOft
<1>2. CASE x = [e EXCEPT !.oft[n].buf = b]
  <2> DEFINE h == [e.oft[n] EXCEPT !.buf = b]
  <2>1. n \in DOMAIN e.oft => h.modo = e.oft[n].modo /\ "modo" \in DOMAIN h
    BY <1>1
  <2>2. x = [e EXCEPT !.oft[n] = h]
    BY <1>2
  <2>3. x.fds = e.fds
    BY <2>2 DEF EsVsk, Campos
  <2> HIDE DEF h
  <2>4. Igual(e, x)
    BY <2>1, <2>2, CambiaOftIgual
  <2>5. QED
    BY <2>3, <2>4 DEF Igual
<1>3. CASE x = [e EXCEPT !.oft[n].tam = b]
  <2> DEFINE h == [e.oft[n] EXCEPT !.tam = b]
  <2>1. n \in DOMAIN e.oft => h.modo = e.oft[n].modo /\ "modo" \in DOMAIN h
    BY <1>1
  <2>2. x = [e EXCEPT !.oft[n] = h]
    BY <1>3
  <2>3. x.fds = e.fds
    BY <2>2 DEF EsVsk, Campos
  <2> HIDE DEF h
  <2>4. Igual(e, x)
    BY <2>1, <2>2, CambiaOftIgual
  <2>5. QED
    BY <2>3, <2>4 DEF Igual
<1>4. QED
  BY <1>2, <1>3

LEMMA EscribirPrimeroPide ==
    ASSUME NEW e, EsVsk(e), NEW k \in DOMAIN e.fds, NEW m, NEW x \in EscribirPrimero(e, k, m)
    PROVE  Pide(e, x)
<1> DEFINE n == e.fds[k].oft
           w1 == [e EXCEPT !.oft[n].buf = m.s]
           w2 == [w1 EXCEPT !.oft[n].tam = w1.oft[n].tam + 1]
           w3 == [w2 EXCEPT !.fds[k].paso = 2]
           w == [e EXCEPT !.oft[n].buf = m.s, !.oft[n].tam = @ + 1, !.fds[k].paso = 2]
<1>1. w = w3
  OBVIOUS
<1>2. w1 = [e EXCEPT !.oft[n].buf = m.s]
  OBVIOUS
<1>3. \E b : w2 = [w1 EXCEPT !.oft[n].tam = b]
  OBVIOUS
<1>4. w3 = [w2 EXCEPT !.fds[k].paso = 2]
  OBVIOUS
<1> HIDE DEF w1, w2, w3, w, n
<1>5. Igual(e, w1) /\ EsVsk(w1) /\ w1.fds = e.fds
  BY <1>2, CambiaBuf
<1>6. Igual(w1, w2) /\ EsVsk(w2) /\ w2.fds = e.fds
  BY <1>3, <1>5, CambiaBuf
<1>7. Igual(e, w) /\ EsVsk(w)
  <2>1. Igual(e, w2)
    BY <1>5, <1>6, IgualIgual
  <2>2. Igual(w2, w3)
    BY <1>4, <1>6, CambiaPos
  <2>3. Igual(e, w3)
    BY <2>1, <2>2, IgualIgual
  <2>4. QED
    BY <1>1, <2>3 DEF Igual
<1>8. PICK y \in UsaArchivo(e, k) :
         \/ x = y
         \/ x = Desfasa(e) \/ x = Fin(e, "muerta") \/ x = w
         \/ x \in PideSfs(w, "DOS", "-", m.id, Nada, <<>>)
         \/ x \in PideDa(w, "DOS", m.id, <<>>, <<>>)
  BY DEF EscribirPrimero, Luego, w, n
<1>9. CASE x = y \/ x = Desfasa(e) \/ x = Fin(e, "muerta") \/ x = w
  BY <1>7, <1>9, UsaArchivoIgual, FinIgual, IgualEsPide DEF Perdida
<1>10. CASE x \in PideSfs(w, "DOS", "-", m.id, Nada, <<>>)
  <2>1. Pide(w, x)
    BY <1>7, <1>10, PideSfsPide DEF TiposSfs
  <2>2. QED
    BY <1>7, <2>1, IgualPide
<1>11. CASE x \in PideDa(w, "DOS", m.id, <<>>, <<>>)
  BY <1>7, <1>11, PideDaIgual, IgualIgual, IgualEsPide
<1>12. QED
  BY <1>8, <1>9, <1>10, <1>11

\* What becomes of the pair m that arrives: it is asked to be added, or somebody is
\* to blame, or one of the two processes ends.
Pasado(e, m, x) ==
    \/ \E r : PideUno(e, x, r) /\ r.t = "AGREGAR" /\ r.s = m.s
    \/ /\ Igual(e, x)
       /\ x.vsk \in Perdida \/ "descartada" \in x.culpas \/ ~(e.con = "si" /\ sfs = "atendiendo")

LEMMA AntesDePasar ==
    ASSUME NEW e, NEW y, Igual(e, y), NEW m, NEW x, Pasado(y, m, x)
    PROVE  Pasado(e, m, x)
<1>1. y.con = e.con
  BY DEF Igual
<1>2. ASSUME NEW r, PideUno(y, x, r), r.t = "AGREGAR", r.s = m.s PROVE Pasado(e, m, x)
  <2>1. PideUno(e, x, r)
    BY <1>2, IgualUno
  <2>2. QED
    BY <1>2, <2>1 DEF Pasado
<1>3. Igual(y, x) => Igual(e, x)
  BY IgualIgual
<1>4. QED
  BY <1>1, <1>2, <1>3 DEF Pasado

LEMMA EscribirPasa ==
    ASSUME NEW e, EsVsk(e), e.vsk = "atendiendo", NEW k \in DOMAIN e.fds, NEW m, NEW x \in Escribir(e, k, m)
    PROVE  IF m.t = "DOS" THEN Pasado(e, m, x) ELSE Igual(e, x)
<1> DEFINE f == e.oft[e.fds[k].oft]
           w == [e EXCEPT !.fds[k].paso = 3]
           G(z) == PideDa(z, "PUT", m.id, m.s, f.buf)
           H(y) == Luego(Invalidar(y, m.s), LAMBDA z : G(z))
           A == PideSfs(w, "AGREGAR", "-", m.id, f.a, m.s)
<1>1. Igual(e, w) /\ EsVsk(w) /\ w.con = e.con
  <2>1. w = [e EXCEPT !.fds[k].paso = 3]
    OBVIOUS
  <2> HIDE DEF w
  <2>2. QED
    BY <2>1, CambiaPos DEF Igual
<1>2. PICK y \in UsaArchivo(e, k) :
         \/ x = y /\ y.vsk # "atendiendo"
         \/ m.t = "DOS" /\ x \in Luego(A, LAMBDA v : H(v))
         \/ x \in Luego(Entrega(e, k, "WRITE_OK", <<>>), LAMBDA v :
                        {IF m.t \in ConPayload THEN Desfasa(v) ELSE v})
         \/ x = Desfasa(e)
  BY DEF Escribir, Luego
<1>3. CASE x = y /\ y.vsk # "atendiendo"
  BY <1>3, UsaArchivoIgual DEF Pasado, Igual, Camina
<1>4. CASE x = Desfasa(e)
  BY <1>4, FinIgual DEF Pasado
<1>5. CASE x \in Luego(Entrega(e, k, "WRITE_OK", <<>>), LAMBDA v :
                       {IF m.t \in ConPayload THEN Desfasa(v) ELSE v})
  <2>1. PICK v \in Entrega(e, k, "WRITE_OK", <<>>) :
           \/ x = v /\ v.vsk # "atendiendo"
           \/ x = IF m.t \in ConPayload THEN Desfasa(v) ELSE v
    BY <1>5 DEF Luego
  <2>2. Igual(e, v) /\ EsVsk(v)
    BY EntregaIgual DEF Igual
  <2>3. Igual(e, Desfasa(v)) /\ "descartada" \in Desfasa(v).culpas
    BY <2>2, FinIgual, IgualIgual
  <2>4. v.vsk # "atendiendo" => v.vsk \in Perdida \/ "descartada" \in v.culpas
    BY <2>2 DEF Igual, Camina
  <2>5. QED
    BY <2>1, <2>2, <2>3, <2>4 DEF ConPayload, Pasado
<1>6. CASE m.t = "DOS" /\ x \in Luego(A, LAMBDA v : H(v))
  <2> HIDE DEF H, A
  <2>1. PICK v \in A : x = v \/ x \in H(v)
    BY <1>6 DEF Luego
  <2> HIDE DEF w, f, G
  <2>2. \/ PideUno(w, v, Pedido("AGREGAR", "-", m.id, f.a, m.s))
        \/ Igual(w, v) /\ ~(w.con = "si" /\ sfs = "atendiendo")
    BY <1>1, <2>1, PideSfsUno DEF A
  <2>3. EsVsk(v)
    BY <2>2 DEF PideUno, Igual
  <2>4. Igual(v, x)
    <3>1. CASE x = v
      BY <2>3, <3>1, IgualMismo
    <3>2. CASE x \in H(v)
      <4>1. PICK z \in Invalidar(v, m.s) : x = z \/ x \in G(z)
        BY <3>2 DEF H, Luego
      <4>2. Igual(v, z) /\ EsVsk(z)
        BY <2>3, InvalidarIgual DEF Igual
      <4>3. QED
        BY <4>1, <4>2, PideDaIgual, IgualIgual DEF G
    <3>3. QED
      BY <2>1, <3>1, <3>2
  <2>5. Pedido("AGREGAR", "-", m.id, f.a, m.s).t = "AGREGAR" /\ Pedido("AGREGAR", "-", m.id, f.a, m.s).s = m.s
    BY DEF Pedido
  <2>6. CASE PideUno(w, v, Pedido("AGREGAR", "-", m.id, f.a, m.s))
    <3>1. PideUno(e, x, Pedido("AGREGAR", "-", m.id, f.a, m.s))
      BY <1>1, <2>4, <2>6, IgualUno, UnoIgual
    <3>2. QED
      BY <1>6, <2>5, <3>1 DEF Pasado
  <2>7. CASE Igual(w, v) /\ ~(w.con = "si" /\ sfs = "atendiendo")
    <3>1. Igual(e, x)
      BY <1>1, <2>4, <2>7, IgualIgual
    <3>2. QED
      BY <1>1, <1>6, <2>7, <3>1 DEF Pasado
  <2>8. QED
    BY <2>2, <2>6, <2>7
<1> HIDE DEF A, H, G, w, f
<1>7. QED
  BY <1>2, <1>3, <1>4, <1>5, <1>6

LEMMA LeerPrimeroIgual ==
    ASSUME NEW e, EsVsk(e), NEW k \in DOMAIN e.fds, NEW m, NEW x \in LeerPrimero(e, k, m)
    PROVE  Igual(e, x)
<1> DEFINE n == e.fds[k].oft
           f == e.oft[n]
           p == e.fds[k].pos
           dos == <<f.sec[p + 1], f.sec[p + 2]>>
           w == [e EXCEPT !.oft[n].buf = IF HayCache THEN [i \in 1..2 |-> BuscarCache(e, dos[i], @[i])] ELSE @]
           P(y, t, s) == PideDa([y EXCEPT !.fds[k].paso = 1, !.fds[k].s = s], t, m.id, s, <<>>)
<1>1. PICK y \in UsaArchivo(e, k) :
         \/ x = y \/ x = e \/ x = w
         \/ \E t, s : x \in P(Avanza(w, k, 2), t, s)
         \/ \E t, s : x \in P(Avanza(e, k, 1), t, s)
         \/ \E v : x \in Entrega(Avanza(w, k, 2), k, "READ_OK", v)
         \/ x \in PuedeMorir(e, "cache")
         \/ x \in Entrega([e EXCEPT !.fds[k].paso = 2], k, "READ_OK", <<>>)
  <2> DEFINE U == UsaArchivo(e, k)
             C == {i \in 1..2 : HayCache /\ Acierta(e, dos[i])}
             B == e.fds[k].tot - p
  <2>1. PICK y \in U : x \in IF y.vsk # "atendiendo" THEN {y} ELSE
           CASE f.modo # "R" -> {e}
             [] B >= 2 /\ C = {} -> P(Avanza(w, k, 2), "GET", dos)
             [] B >= 2 /\ C = {1, 2} -> Entrega(Avanza(w, k, 2), k, "READ_OK", w.oft[n].buf)
             [] B >= 2 /\ Cardinality(C) = 1 -> {w}
             [] B = 1 /\ HayCache /\ e.cant = -1 -> {e}
             [] B = 1 -> P(Avanza(e, k, 1), "GET1", <<f.sec[p + 1]>>)
                              \union (IF HayCache THEN {} ELSE PuedeMorir(e, "cache"))
             [] OTHER -> Entrega([e EXCEPT !.fds[k].paso = 2], k, "READ_OK", <<>>)
    BY DEF LeerPrimero, Luego
  <2> HIDE DEF w, U, C, B, P, dos, f, p, n
  <2>2. QED
    BY <2>1, Zenon DEF U
<1>2. Igual(e, w) /\ w.fds = e.fds
  <2> DEFINE b == IF HayCache THEN [i \in 1..2 |-> BuscarCache(e, dos[i], e.oft[n].buf[i])] ELSE e.oft[n].buf
  <2>1. w = [e EXCEPT !.oft[n].buf = b]
    OBVIOUS
  <2> HIDE DEF b, w, dos, f, p, n
  <2>2. QED
    BY <2>1, CambiaBuf
<1> HIDE DEF w, n, f, p, dos
<1>3. ASSUME NEW z, Igual(e, z), z.fds = e.fds, NEW c
      PROVE  /\ Igual(e, Avanza(z, k, c)) /\ EsVsk(Avanza(z, k, c))
             /\ DOMAIN Avanza(z, k, c).fds = DOMAIN e.fds
  <2>1. EsVsk(z)
    BY <1>3 DEF Igual
  <2>2. Igual(z, Avanza(z, k, c)) /\ DOMAIN Avanza(z, k, c).fds = DOMAIN z.fds
    <3>1. \E b : Avanza(z, k, c) = [z EXCEPT !.fds[k].pos = b]
      BY DEF Avanza
    <3>2. QED
      BY <1>3, <2>1, <3>1, CambiaPos
  <2>3. QED
    BY <1>3, <2>2, IgualIgual DEF Igual
<1>4. ASSUME NEW z, Igual(e, z), EsVsk(z), DOMAIN z.fds = DOMAIN e.fds, NEW t, NEW s, x \in P(z, t, s)
      PROVE  Igual(e, x)
  <2> DEFINE z1 == [z EXCEPT !.fds[k].paso = 1]
             z2 == [z1 EXCEPT !.fds[k].s = s]
  <2>1. x \in PideDa(z2, t, m.id, s, <<>>)
    BY <1>4
  <2>2. z1 = [z EXCEPT !.fds[k].paso = 1] /\ z2 = [z1 EXCEPT !.fds[k].s = s]
    OBVIOUS
  <2> HIDE DEF z1, z2
  <2>3. Igual(z, z1) /\ EsVsk(z1) /\ k \in DOMAIN z1.fds
    <3>1. EsVsk(z) /\ k \in DOMAIN z.fds /\ z1 = [z EXCEPT !.fds[k].paso = 1]
      BY <1>4, <2>2
    <3>2. Igual(z, z1) /\ EsVsk(z1) /\ DOMAIN z1.fds = DOMAIN z.fds
      BY <3>1, CambiaPos
    <3>3. QED
      BY <3>1, <3>2
  <2>4. Igual(z1, z2)
    BY <2>2, <2>3, CambiaPos
  <2>5. Igual(e, z2) /\ EsVsk(z2)
    BY <1>4, <2>3, <2>4, IgualIgual DEF Igual
  <2>6. QED
    BY <2>1, <2>5, PideDaIgual, IgualIgual
<1>5. ASSUME NEW z, Igual(e, z), EsVsk(z), NEW v, x \in Entrega(z, k, "READ_OK", v) PROVE Igual(e, x)
  BY <1>5, EntregaIgual, IgualIgual
<1>6. Igual(e, e) /\ Igual(e, y)
  BY IgualMismo, UsaArchivoIgual
<1>7. Igual(e, [e EXCEPT !.fds[k].paso = 2]) /\ EsVsk([e EXCEPT !.fds[k].paso = 2])
  BY CambiaPos
<1>8. x \in PuedeMorir(e, "cache") => Igual(e, x)
  BY PuedeMorirIgual
<1> HIDE DEF P
<1>9. QED
  BY <1>1, <1>2, <1>3, <1>4, <1>5, <1>6, <1>7, <1>8

LEMMA LeerIgual ==
    ASSUME NEW e, EsVsk(e), e.vsk = "atendiendo", NEW k \in DOMAIN e.fds, NEW m, NEW x \in Leer(e, k, m)
    PROVE  /\ Igual(e, x)
           /\ m.t = "DOS" => x.vsk \in Perdida \/ "descartada" \in x.culpas
<1> DEFINE n == e.fds[k].oft
           s == e.fds[k].s
           w == [e EXCEPT !.oft[n].buf = m.v, !.fds[k].paso = 0]
           D(y, i) == IF HayCache /\ i \in DOMAIN e.fds[k].s THEN GuardarEnCache(y, s[i], m.v[i]) ELSE {y}
<1>1. PICK y \in UsaArchivo(e, k) :
         \/ x = y /\ y.vsk # "atendiendo"
         \/ m.t = "GET" /\ x \in Luego(D(w, 1), LAMBDA v : Luego(D(v, 2), LAMBDA z : Entrega(z, k, "READ_OK", m.v)))
         \/ x = Fin(e, "bloqueada")
         \/ x = Desfasa(e)
  BY DEF Leer, Luego
<1>2. CASE x = y /\ y.vsk # "atendiendo"
  BY <1>2, UsaArchivoIgual DEF Igual, Camina
<1>3. CASE x = Fin(e, "bloqueada") \/ x = Desfasa(e)
  <2>1. Fin(e, "bloqueada").vsk = "bloqueada"
    BY DEF Fin, EsVsk, Campos
  <2>2. QED
    BY <1>3, <2>1, FinIgual DEF Perdida
<1>4. Igual(e, w) /\ EsVsk(w)
  <2> DEFINE w1 == [e EXCEPT !.oft[n].buf = m.v]
             w2 == [w1 EXCEPT !.fds[k].paso = 0]
  <2>1. w = w2
    OBVIOUS
  <2>2. w1 = [e EXCEPT !.oft[n].buf = m.v] /\ w2 = [w1 EXCEPT !.fds[k].paso = 0]
    OBVIOUS
  <2> HIDE DEF w, n, w1, w2
  <2>3. Igual(e, w1) /\ EsVsk(w1) /\ k \in DOMAIN w1.fds
    BY <2>2, CambiaBuf
  <2>4. Igual(w1, w2)
    BY <2>2, <2>3, CambiaPos
  <2>5. QED
    BY <2>1, <2>3, <2>4, IgualIgual DEF Igual
<1>5. ASSUME NEW y1, Igual(e, y1), NEW i, NEW z \in D(y1, i) PROVE Igual(e, z) /\ EsVsk(z)
  <2>1. Igual(y1, z)
    BY <1>5, GuardarIgual, IgualMismo DEF Igual
  <2>2. QED
    BY <1>5, <2>1, IgualIgual DEF Igual
<1> HIDE DEF D, w, n
<1>6. CASE m.t = "GET" /\ x \in Luego(D(w, 1), LAMBDA v : Luego(D(v, 2), LAMBDA z : Entrega(z, k, "READ_OK", m.v)))
  <2>1. PICK v \in D(w, 1) : \/ x = v
                             \/ x \in Luego(D(v, 2), LAMBDA z : Entrega(z, k, "READ_OK", m.v))
    BY <1>6 DEF Luego
  <2>2. Igual(e, v)
    BY <1>4, <1>5
  <2>3. CASE x \in Luego(D(v, 2), LAMBDA z : Entrega(z, k, "READ_OK", m.v))
    <3>1. PICK z \in D(v, 2) : x = z \/ x \in Entrega(z, k, "READ_OK", m.v)
      BY <2>3 DEF Luego
    <3>2. Igual(e, z) /\ EsVsk(z)
      BY <1>5, <2>2
    <3>3. QED
      BY <1>6, <3>1, <3>2, EntregaIgual, IgualIgual
  <2>4. QED
    BY <1>6, <2>1, <2>2, <2>3
<1>7. QED
  BY <1>1, <1>2, <1>3, <1>6

LEMMA ListarPrimeroPide ==
    ASSUME NEW e, EsVsk(e), NEW k \in DOMAIN e.fds, NEW m, NEW x \in ListarPrimero(e, k, m)
    PROVE  Pide(e, x)
<1> DEFINE w == [e EXCEPT !.fds[k].paso = 1]
<1>1. \/ x = Fin(e, "bloqueada") \/ x = Desfasa(e)
      \/ x \in PideSfs(w, "LISTAR", "-", m.id, Nada, <<>>)
  BY DEF ListarPrimero
<1>2. Igual(e, w) /\ EsVsk(w)
  BY CambiaPos
<1> HIDE DEF w
<1>3. CASE x \in PideSfs(w, "LISTAR", "-", m.id, Nada, <<>>)
  <2>1. Pide(w, x)
    BY <1>2, <1>3, PideSfsPide DEF TiposSfs
  <2>2. QED
    BY <1>2, <2>1, IgualPide
<1>4. QED
  BY <1>1, <1>3, FinIgual, IgualEsPide DEF Perdida

LEMMA ListarIgual ==
    ASSUME NEW e, EsVsk(e), NEW k, NEW m, NEW x \in Listar(e, k, m)
    PROVE  /\ Igual(e, x)
           /\ m.t = "DOS" => "descartada" \in x.culpas
<1>1. \/ m.t # "DOS" /\ (x \in Termina(e, k, "LIST_OK") \/ x = e)
      \/ x = Desfasa(e)
  BY DEF Listar, ConPayload
<1>2. QED
  BY <1>1, TerminaIgual, FinIgual, IgualMismo

-----------------------------------------------------------------------------
(* The loop of the VSK *)

LEMMA PorSocket ==
    ASSUME NEW e, EsVsk(e), NEW c
    PROVE  /\ FdPorSocket(e, c) # 0 => FdPorSocket(e, c) \in DOMAIN e.fds
           /\ FdPorId(e, c) # 0 => FdPorId(e, c) \in DOMAIN e.fds
<1> DEFINE K == {k \in DOMAIN e.fds : e.fds[k].sock = c}
           J == {k \in DOMAIN e.fds : e.fds[k].id = c}
<1>1. K \subseteq Nat \ {0} /\ J \subseteq Nat \ {0} /\ K \subseteq DOMAIN e.fds /\ J \subseteq DOMAIN e.fds
  BY DEF EsVsk, EsFds, EsSec
<1>2. FdPorSocket(e, c) = PrimeroDe(K) /\ FdPorId(e, c) = PrimeroDe(J)
  BY DEF FdPorSocket, FdPorId
<1> HIDE DEF K, J
<1>3. QED
  BY <1>1, <1>2, Primero

\* The descriptor that begins a call.
LEMMA EmpiezaIgual ==
    ASSUME NEW e, EsVsk(e), NEW k \in DOMAIN e.fds, NEW sys \in Llamadas,
           NEW x, x = [e EXCEPT !.fds[k].sys = sys, !.fds[k].paso = 0]
    PROVE  Igual(e, x) /\ EsVsk(x) /\ DOMAIN x.fds = DOMAIN e.fds
<1> DEFINE g == [e.fds[k] EXCEPT !.sys = sys, !.paso = 0]
<1>1. {"sys", "oft"} \subseteq DOMAIN e.fds[k]
  BY DEF EsVsk, EsFds
<1>2. {"sys", "oft"} \subseteq DOMAIN g /\ g.sys \in Llamadas /\ g.oft = e.fds[k].oft
  BY <1>1
<1>3. x = [e EXCEPT !.fds[k] = g]
  BY DEF EsVsk, Campos
<1>4. DOMAIN x.fds = DOMAIN e.fds
  BY <1>3 DEF EsVsk, Campos
<1> HIDE DEF g
<1>5. Igual(e, x)
  BY <1>2, <1>3, CambiaFdIgual, ZenonT(40)
<1>6. QED
  BY <1>4, <1>5, IgualEs

LEMMA AtenderClientePide ==
    ASSUME NEW e, EsVsk(e), NEW c, NEW m, m.t \in Llamadas, NEW x \in AtenderCliente(e, c, m)
    PROVE  Pide(e, x)
<1> DEFINE k == FdPorSocket(e, c)
           D(sys) == IF k = 0 THEN Fin(e, "muerta") ELSE [e EXCEPT !.fds[k].sys = sys, !.fds[k].paso = 0]
<1>1. k # 0 => k \in DOMAIN e.fds
  BY PorSocket
<1>2. ASSUME NEW sys \in Llamadas
      PROVE  Igual(e, D(sys)) /\ EsVsk(D(sys)) /\ (D(sys).vsk = "atendiendo" => k \in DOMAIN D(sys).fds)
  <2>1. CASE k = 0
    <3>1. D(sys) = Fin(e, "muerta") /\ Fin(e, "muerta").vsk = "muerta"
      BY <2>1 DEF Fin, EsVsk, Campos
    <3>2. Igual(e, Fin(e, "muerta"))
      BY FinIgual DEF Perdida
    <3>3. QED
      BY <3>1, <3>2, IgualEs
  <2>2. CASE k # 0
    <3> DEFINE w == D(sys)
    <3>1. w = [e EXCEPT !.fds[k].sys = sys, !.fds[k].paso = 0] /\ k \in DOMAIN e.fds
      BY <1>1, <2>2
    <3> HIDE DEF w, D, k
    <3>2. Igual(e, w) /\ EsVsk(w) /\ DOMAIN w.fds = DOMAIN e.fds
      BY <3>1, EmpiezaIgual
    <3>3. QED
      BY <3>1, <3>2 DEF w
  <2>3. QED
    BY <2>1, <2>2
<1> HIDE DEF D, k
<1>3. ASSUME m.t \in {"OPEN", "LIST"} PROVE Pide(e, x)
  <2> DEFINE a == IF m.t = "OPEN" THEN m.s.a ELSE Nada
             M == MeterFd(e, m.id, c, m.t, a)
  <2> HIDE DEF a, M
  <2>1. \/ m.t = "OPEN" /\ x \in Luego({BuscaSfs(y) : y \in M}, LAMBDA y : AbrirPrimero(y, 1, m))
        \/ m.t = "LIST" /\ x \in Luego({BuscaSfs(y) : y \in M}, LAMBDA y : ListarPrimero(y, 1, m))
    BY <1>3 DEF AtenderCliente, M, a
  <2>2. PICK y \in M : \/ x = BuscaSfs(y)
                       \/ x \in AbrirPrimero(BuscaSfs(y), 1, m)
                       \/ BuscaSfs(y).vsk = "atendiendo" /\ x \in ListarPrimero(BuscaSfs(y), 1, m)
    BY <2>1 DEF Luego
  <2>3. Igual(e, y) /\ EsVsk(y) /\ 1 \in DOMAIN y.fds
    <3>1. m.t \in {"OPEN", "LIST"}
      BY <1>3
    <3>2. Igual(e, y)
      BY <3>1, MeterFdIgual DEF M
    <3>3. PICK p : y = [e EXCEPT !.fds = <<[id |-> m.id, sock |-> c, sys |-> m.t, oft |-> 0, paso |-> p,
                                        pos |-> 0, tot |-> 0, a |-> a, s |-> <<>>]>> \o @]
      BY DEF MeterFd, M
    <3> DEFINE g == [id |-> m.id, sock |-> c, sys |-> m.t, oft |-> 0, paso |-> p,
                     pos |-> 0, tot |-> 0, a |-> a, s |-> <<>>]
    <3>4. y.fds = <<g>> \o e.fds
      BY <3>3 DEF EsVsk, Campos
    <3> HIDE DEF g
    <3>5. e.fds \in Seq({e.fds[j] : j \in DOMAIN e.fds} \union {g})
      BY DEF EsVsk, EsFds, EsSec
    <3> DEFINE S == {e.fds[j] : j \in DOMAIN e.fds} \union {g}
    <3>6. g \in S
      OBVIOUS
    <3> HIDE DEF S
    <3>7. e.fds \in Seq(S)
      BY <3>5 DEF S
    <3>8. 1 \in DOMAIN (<<g>> \o e.fds)
      BY <3>6, <3>7
    <3>9. QED
      BY <3>2, <3>4, <3>8, IgualEs
  <2>4. Igual(e, BuscaSfs(y)) /\ EsVsk(BuscaSfs(y))
        /\ (BuscaSfs(y).vsk = "atendiendo" => 1 \in DOMAIN BuscaSfs(y).fds)
    BY <2>3, BuscaSfsIgual, IgualIgual, IgualEs
  <2>5. CASE x = BuscaSfs(y)
    BY <2>4, <2>5, IgualEsPide
  <2>6. CASE x \in AbrirPrimero(BuscaSfs(y), 1, m)
    BY <2>4, <2>6, AbrirPrimeroPide, IgualPide
  <2>7. CASE BuscaSfs(y).vsk = "atendiendo" /\ x \in ListarPrimero(BuscaSfs(y), 1, m)
    BY <2>4, <2>7, ListarPrimeroPide, IgualPide
  <2>8. QED
    BY <2>2, <2>5, <2>6, <2>7
<1>4. ASSUME m.t = "CLOSE" PROVE Pide(e, x)
  <2> DEFINE w == D("CLOSE")
  <2>1. Igual(e, w) /\ EsVsk(w) /\ (w.vsk = "atendiendo" => k \in DOMAIN w.fds)
    BY <1>2 DEF Llamadas
  <2>2. x \in Luego(Luego({w}, LAMBDA y : {BuscaSfs(y)}), LAMBDA y : CerrarPrimero(y, k, m))
    BY <1>4 DEF AtenderCliente, D, k
  <2> HIDE DEF w
  <2>3. PICK y \in Luego({w}, LAMBDA z : {BuscaSfs(z)}) :
           x = y \/ (y.vsk = "atendiendo" /\ x \in CerrarPrimero(y, k, m))
    BY <2>2 DEF Luego
  <2>4. (y = w /\ w.vsk # "atendiendo") \/ (w.vsk = "atendiendo" /\ y = BuscaSfs(w))
    BY DEF Luego
  <2>5. Igual(e, y) /\ EsVsk(y) /\ (y.vsk = "atendiendo" => k \in DOMAIN y.fds)
    BY <2>1, <2>4, BuscaSfsIgual, IgualIgual, IgualEs
  <2>6. CASE x = y
    BY <2>5, <2>6, IgualEsPide
  <2>7. CASE y.vsk = "atendiendo" /\ x \in CerrarPrimero(y, k, m)
    BY <2>5, <2>7, CerrarPrimeroPide, IgualPide
  <2>8. QED
    BY <2>3, <2>6, <2>7
<1>5. ASSUME m.t = "READ" PROVE Pide(e, x)
  <2> DEFINE w == D("READ")
  <2>1. Igual(e, w) /\ EsVsk(w) /\ (w.vsk = "atendiendo" => k \in DOMAIN w.fds)
    BY <1>2 DEF Llamadas
  <2>2. x \in Luego({w}, LAMBDA y : LeerPrimero(y, k, m))
    BY <1>5 DEF AtenderCliente, D, k
  <2> HIDE DEF w
  <2>3. x = w \/ (w.vsk = "atendiendo" /\ x \in LeerPrimero(w, k, m))
    BY <2>2 DEF Luego
  <2>4. Igual(e, x)
    BY <2>1, <2>3, LeerPrimeroIgual, IgualIgual
  <2>5. QED
    BY <2>4, IgualEsPide
<1>6. ASSUME m.t = "WRITE" PROVE Pide(e, x)
  <2> DEFINE w == D("WRITE")
  <2>1. Igual(e, w) /\ EsVsk(w) /\ (w.vsk = "atendiendo" => k \in DOMAIN w.fds)
    BY <1>2 DEF Llamadas
  <2>2. x \in Luego({w}, LAMBDA y : EscribirPrimero(y, k, m))
    BY <1>6 DEF AtenderCliente, D, k
  <2> HIDE DEF w
  <2>3. x = w \/ (w.vsk = "atendiendo" /\ x \in EscribirPrimero(w, k, m))
    BY <2>2 DEF Luego
  <2>4. CASE x = w
    BY <2>1, <2>4, IgualEsPide
  <2>5. CASE w.vsk = "atendiendo" /\ x \in EscribirPrimero(w, k, m)
    BY <2>1, <2>5, EscribirPrimeroPide, IgualPide
  <2>6. QED
    BY <2>3, <2>4, <2>5
<1>7. QED
  BY <1>3, <1>4, <1>5, <1>6 DEF Llamadas

\* An answer that gives no sectors, and one that does.
LEMMA RespuestaPasa ==
    ASSUME NEW e, EsVsk(e), e.vsk = "atendiendo", NEW m, NEW x \in Respuesta(e, m)
    PROVE  IF m.t = "DOS" THEN Pasado(e, m, x) ELSE Pide(e, x)
<1> DEFINE k == FdPorId(e, m.id)
           w == BuscaSfs(e)
<1>1. k # 0 => k \in DOMAIN e.fds
  BY PorSocket
<1>2. Igual(e, w) /\ EsVsk(w) /\ (w.vsk = "atendiendo" => w.fds = e.fds)
  BY BuscaSfsIgual, IgualEs
<1>3. \/ k = 0 /\ x = Desfasa(e)
      \/ k = 0 /\ m.t # "DOS" /\ x = e
      \/ k # 0 /\ x \in Luego({w}, LAMBDA y :
            CASE y.fds[k].sys = "OPEN" -> Abrir(y, k, m)
              [] y.fds[k].sys = "CLOSE" -> Cerrar(y, k, m)
              [] y.fds[k].sys = "LIST" -> Listar(y, k, m)
              [] y.fds[k].sys = "READ" -> Leer(y, k, m)
              [] y.fds[k].sys = "WRITE" -> Escribir(y, k, m))
  BY DEF Respuesta
<1> HIDE DEF k, w
<1>4. CASE k = 0
  BY <1>3, <1>4, FinIgual, IgualMismo, IgualEsPide DEF Pasado
<1>5. CASE k # 0
  <2>1. \/ x = w /\ w.vsk # "atendiendo"
        \/ w.vsk = "atendiendo" /\ x \in CASE w.fds[k].sys = "OPEN" -> Abrir(w, k, m)
                                           [] w.fds[k].sys = "CLOSE" -> Cerrar(w, k, m)
                                           [] w.fds[k].sys = "LIST" -> Listar(w, k, m)
                                           [] w.fds[k].sys = "READ" -> Leer(w, k, m)
                                           [] w.fds[k].sys = "WRITE" -> Escribir(w, k, m)
    BY <1>3, <1>5 DEF Luego
  <2>2. CASE x = w /\ w.vsk # "atendiendo"
    BY <1>2, <2>2, IgualEsPide DEF Pasado, Igual, Camina
  <2>3. CASE w.vsk = "atendiendo" /\ x \in CASE w.fds[k].sys = "OPEN" -> Abrir(w, k, m)
                                           [] w.fds[k].sys = "CLOSE" -> Cerrar(w, k, m)
                                           [] w.fds[k].sys = "LIST" -> Listar(w, k, m)
                                           [] w.fds[k].sys = "READ" -> Leer(w, k, m)
                                           [] w.fds[k].sys = "WRITE" -> Escribir(w, k, m)
    <3>1. k \in DOMAIN w.fds
      BY <1>1, <1>2, <1>5, <2>3
    <3>2. w.fds[k].sys \in Llamadas
      BY <1>2, <3>1 DEF EsVsk, EsFds
    <3>3. w.vsk = "atendiendo"
      BY <2>3
    <3>4. \/ x \in Abrir(w, k, m) \/ x \in Cerrar(w, k, m) \/ x \in Listar(w, k, m)
          \/ x \in Leer(w, k, m) \/ x \in Escribir(w, k, m)
      BY <2>3, <3>2, Zenon DEF Llamadas
    <3>5. IF m.t = "DOS" THEN Pasado(w, m, x) ELSE Pide(w, x)
      <4>1. CASE x \in Abrir(w, k, m)
        BY <1>2, <4>1, AbrirPide, FinIgual DEF Pasado
      <4>2. CASE x \in Cerrar(w, k, m)
        BY <1>2, <3>3, <4>2, CerrarIgual, IgualEsPide DEF Pasado
      <4>3. CASE x \in Listar(w, k, m)
        BY <1>2, <4>3, ListarIgual, IgualEsPide DEF Pasado
      <4>4. CASE x \in Leer(w, k, m)
        BY <1>2, <3>1, <3>3, <4>4, LeerIgual, IgualEsPide DEF Pasado
      <4>5. CASE x \in Escribir(w, k, m)
        BY <1>2, <3>1, <3>3, <4>5, EscribirPasa, IgualEsPide
      <4>6. QED
        BY <3>4, <4>1, <4>2, <4>3, <4>4, <4>5
    <3>6. QED
      BY <1>2, <3>5, AntesDePasar, IgualPide
  <2>4. QED
    BY <2>1, <2>2, <2>3
<1>6. QED
  BY <1>4, <1>5

LEMMA ErrorDelSfsIgual ==
    ASSUME NEW e, EsVsk(e), NEW m, NEW x \in ErrorDelSfs(e, m)
    PROVE  Igual(e, x)
<1> DEFINE k == FdPorId(e, m.id)
           A == IF e.fds[k].oft = 0 THEN {e} ELSE Luego(UsaArchivo(e, k), LAMBDA y : QuitarOft(y, TRUE))
           B(y) == Luego(Entrega(y, k, "ERROR", <<>>), LAMBDA z : {CierraSocket(z, e.fds[k].sock)})
<1>1. x = e \/ x \in Luego(A, LAMBDA y : B(y))
  BY DEF ErrorDelSfs
<1>2. ASSUME NEW y \in A PROVE Igual(e, y) /\ EsVsk(y)
  <2>1. \/ y = e
        \/ y \in Luego(UsaArchivo(e, k), LAMBDA v : QuitarOft(v, TRUE))
    OBVIOUS
  <2>2. CASE y \in Luego(UsaArchivo(e, k), LAMBDA v : QuitarOft(v, TRUE))
    <3>1. PICK v \in UsaArchivo(e, k) : y = v \/ y \in QuitarOft(v, TRUE)
      BY <2>2 DEF Luego
    <3>2. Igual(e, v) /\ EsVsk(v)
      BY UsaArchivoIgual, IgualEs
    <3>3. QED
      BY <3>1, <3>2, QuitarOftIgual, IgualIgual, IgualEs
  <2>3. QED
    BY <2>1, <2>2, IgualMismo
<1> HIDE DEF A, B
<1>3. CASE x \in Luego(A, LAMBDA y : B(y))
  <2>1. PICK y \in A : x = y \/ x \in B(y)
    BY <1>3 DEF Luego
  <2>2. CASE x \in B(y)
    <3>1. PICK z \in Entrega(y, k, "ERROR", <<>>) : x = z \/ x = CierraSocket(z, e.fds[k].sock)
      BY <2>2 DEF B, Luego
    <3>2. Igual(e, z) /\ EsVsk(z)
      BY <1>2, EntregaIgual, IgualIgual, IgualEs
    <3>3. QED
      BY <3>1, <3>2, CierraIgual, IgualIgual
  <2>3. QED
    BY <1>2, <2>1, <2>2
<1>4. QED
  BY <1>1, <1>3, IgualMismo

\* What the loop does with an answer m of the SFS: the connection is broken only
\* by the answer to a format.
AtiendeBien(e, m, x) ==
    CASE m.t = "DOS" -> Pasado(e, m, x)
      [] m.t = "FORMATEADO" -> /\ EsVsk(x) /\ x.aSfs = e.aSfs /\ x.con = "rota" /\ Recuerda(e, x)
                               /\ x.vsk = e.vsk
      [] OTHER -> Pide(e, x)

LEMMA AtenderSfsBien ==
    ASSUME NEW e, EsVsk(e), e.vsk = "atendiendo", NEW m, NEW x \in AtenderSfs(e, m)
    PROVE  AtiendeBien(e, m, x)
<1>1. CASE m.t \in {"ERROR SOLO", "TEXTO"}
  <2>1. x = Desfasa(e) /\ m.t # "DOS" /\ m.t # "FORMATEADO"
    BY <1>1 DEF AtenderSfs
  <2>2. Pide(e, x)
    BY <2>1, FinIgual, IgualEsPide
  <2>3. QED
    BY <2>1, <2>2 DEF AtiendeBien
<1>2. CASE m.t = "FORMATEADO"
  <2>1. x = [e EXCEPT !.con = "rota"]
    BY <1>2 DEF AtenderSfs
  <2>2. EsVsk(x) /\ x.aSfs = e.aSfs /\ x.con = "rota" /\ Recuerda(e, x) /\ x.vsk = e.vsk
    BY <2>1 DEF EsVsk, Campos, Recuerda
  <2>3. QED
    BY <1>2, <2>2 DEF AtiendeBien
<1>3. CASE m.t = "ERROR"
  <2>1. x \in ErrorDelSfs(e, m)
    BY <1>3 DEF AtenderSfs
  <2>2. Pide(e, x)
    BY <2>1, ErrorDelSfsIgual, IgualEsPide
  <2>3. QED
    BY <1>3, <2>2 DEF AtiendeBien
<1>4. CASE m.t \notin {"ERROR SOLO", "TEXTO", "FORMATEADO", "ERROR"}
  <2>1. x \in Respuesta(e, m)
    BY <1>4 DEF AtenderSfs
  <2>2. IF m.t = "DOS" THEN Pasado(e, m, x) ELSE Pide(e, x)
    BY <2>1, RespuestaPasa
  <2>3. QED
    BY <1>4, <2>2 DEF AtiendeBien
<1>5. QED
  BY <1>1, <1>2, <1>3, <1>4

\* The console asks the SFS for nothing.
LEMMA ComandoIgual ==
    ASSUME NEW e, EsVsk(e), NEW t, NEW x \in Comando(e, t), t \in Comandos
    PROVE  /\ EsVsk(x) /\ x.aSfs = e.aSfs /\ x.con = e.con /\ Recuerda(e, x)
           /\ x.vsk = e.vsk \/ x.vsk \in Perdida \union {"espera CHS", "desfasada"}
<1>1. PICK y \in Encuentra(e) :
         \/ x \in {IF y.aux = "DA" THEN [y EXCEPT !.montado = (t = "montar")] ELSE y}
         \/ x \in UNION {PideConsola(Culpa(y, "consola"), t, <<s, s>>, <<Vacio, Vacio>>) : s \in Sectores}
         \/ x \in PideConsola(Culpa(y, "consola"), t, <<>>, <<>>)
         \/ x \in {Fin(z, "espera CHS") : z \in PideConsola(y, "CHS", <<>>, <<>>)}
         \/ x = y
  BY VskAssumption, Zenon DEF Comando
<1>2. Igual(e, y) /\ EsVsk(y)
  <2>1. y = [e EXCEPT !.aux = "DA"] \/ y = [e EXCEPT !.aux = "nulo"]
    BY DEF Encuentra
  <2>2. QED
    BY <2>1 DEF Igual, EsVsk, Campos, Recuerda, Camina
<1> DEFINE c == Culpa(y, "consola")
<1>3. Igual(y, c) /\ EsVsk(c)
  BY <1>2 DEF Culpa, Igual, EsVsk, Campos, Recuerda, Camina
<1> HIDE DEF c
<1>4. ASSUME NEW w, EsVsk(w), NEW s, NEW v, NEW z \in PideConsola(w, t, s, v) PROVE Igual(w, z)
  BY <1>4, PideDaIgual, IgualMismo DEF PideConsola
<1>5. ASSUME NEW z \in PideConsola(y, "CHS", <<>>, <<>>) PROVE Igual(y, z)
  BY <1>2, PideDaIgual, IgualMismo DEF PideConsola
<1>6. \/ Igual(e, x)
      \/ \E z : Igual(e, z) /\ x = Fin(z, "espera CHS")
  <2>1. CASE x \in {IF y.aux = "DA" THEN [y EXCEPT !.montado = (t = "montar")] ELSE y}
    <3>1. CASE x = y
      BY <1>2, <3>1
    <3>2. CASE x = [y EXCEPT !.montado = (t = "montar")]
      <4>1. Igual(y, x)
        BY <1>2, <3>2 DEF Igual, EsVsk, Campos, Recuerda, Camina
      <4>2. QED
        BY <1>2, <4>1, IgualIgual
    <3>3. QED
      BY <2>1, <3>1, <3>2
  <2>2. CASE x \in UNION {PideConsola(c, t, <<s, s>>, <<Vacio, Vacio>>) : s \in Sectores}
    <3>1. Igual(c, x)
      <4>1. PICK s \in Sectores : x \in PideConsola(c, t, <<s, s>>, <<Vacio, Vacio>>)
        BY <2>2
      <4>2. QED
        BY <1>3, <1>4, <4>1
    <3>2. QED
      BY <1>2, <1>3, <3>1, IgualIgual
  <2>3. CASE x \in PideConsola(c, t, <<>>, <<>>)
    <3>1. Igual(c, x)
      BY <1>3, <1>4, <2>3
    <3>2. QED
      BY <1>2, <1>3, <3>1, IgualIgual
  <2>4. CASE x \in {Fin(z, "espera CHS") : z \in PideConsola(y, "CHS", <<>>, <<>>)}
    BY <1>2, <1>5, <2>4, IgualIgual
  <2>5. CASE x = y
    BY <1>2, <2>5
  <2>6. QED
    BY <1>1, <2>1, <2>2, <2>3, <2>4, <2>5 DEF c
<1>7. CASE Igual(e, x)
  BY <1>7 DEF Igual, Camina
<1>8. ASSUME NEW z, Igual(e, z), x = Fin(z, "espera CHS")
      PROVE  EsVsk(x) /\ x.aSfs = e.aSfs /\ x.con = e.con /\ Recuerda(e, x) /\ x.vsk = "espera CHS"
  <2>1. /\ DOMAIN x = Campos /\ x.fds = z.fds /\ x.oft = z.oft /\ x.ped = z.ped
        /\ x.aSfs = z.aSfs /\ x.con = z.con /\ x.culpas = z.culpas /\ x.vsk = "espera CHS"
    BY <1>8 DEF Fin, Igual, EsVsk, Campos
  <2>2. QED
    BY <1>8, <2>1 DEF Igual, EsVsk, Recuerda
<1>9. QED
  BY <1>6, <1>7, <1>8

-----------------------------------------------------------------------------
(* The invariant *)

\* What the variables hold, as far as the accounts need it.
Formas ==
    /\ libres \in Seq(Int) /\ ucBuf \in Pares /\ EsTabla(archivos)
    /\ EsSec(aSfs) /\ \A j \in DOMAIN aSfs : PedidoBien(aSfs[j])
    /\ EsSec(deSfs) /\ \A j \in DOMAIN deSfs : deSfs[j].t = "DOS" => deSfs[j].s \in Pares
    /\ EsSec(deDa) /\ \A j \in DOMAIN deDa : deDa[j].t \in {"GET", "GET1", "PUT", "CHS"}
    /\ EsOft(oft) /\ EsFds(fds, Len(oft)) /\ EsPed(ped)

\* Nobody to blame for what breaks the accounts; nothing lost by the VSK; and
\* nobody to blame for what loses a sector.
Limpias == culpas \intersect QuitanDuenio = {}
Sanas   == culpas \intersect {"caida", "descartada"} = {}
Justas  == culpas \intersect (QuitanDuenio \union {"agregar", "caida", "sin archivo", "descartada"}) = {}

\* Before the format there are no sectors.
SinSectores(l, f, d, q) ==
    /\ l = <<>> /\ \A a \in Archivos : f[a].sec = <<>>
    /\ \A j \in DOMAIN d : d[j].t # "DOS"
    /\ \A j \in DOMAIN q : q[j].t # "AGREGAR"

SinFormatear == Limpias /\ ~formateado => SinSectores(libres, archivos, deSfs, aSfs)

\* A sector has one owner at most, and at least one.
Duenios == Limpias => \A s \in Sectores : UnoSolo(libres, archivos, deSfs, aSfs, s)

Cubiertos == formateado /\ Justas => \A s \in Sectores : Alguno(libres, archivos, deSfs, aSfs, s)

\* The connection is not broken, because a format is asked for only while the VSK
\* waits for it, and nothing is asked after it.
UltimoPedido(q, d, v) ==
    \A j \in DOMAIN q : q[j].t = "FORMATEAR" =>
        v = "espera formato" /\ j = Len(q) /\ \A i \in DOMAIN d : d[i].t # "FORMATEADO"

UltimaRta(q, d, v) ==
    \A j \in DOMAIN d : d[j].t = "FORMATEADO" => v = "espera formato" /\ j = Len(d) /\ q = <<>>

Formatos == Sanas => /\ con = "si" /\ sfs = "atendiendo"
                     /\ UltimoPedido(aSfs, deSfs, vsk) /\ UltimaRta(aSfs, deSfs, vsk)

InvCuentas == Formas /\ SinFormatear /\ Duenios /\ Cubiertos /\ Formatos

-----------------------------------------------------------------------------
(* How the two queues move *)

\* Something is asked, which is not to add sectors.
Pregunta(q, p) == p = q \/ \E r : p = Append(q, r) /\ PedidoBien(r) /\ r.t # "AGREGAR"

\* The pair at the head of the answers is asked to be added.
Pasa(q, d, p, c) == /\ d # <<>> /\ Head(d).t = "DOS" /\ c = Tail(d)
                    /\ \E r : p = Append(q, r) /\ r.t = "AGREGAR" /\ r.s = Head(d).s

Movida(q, d, p, c) == \/ Pregunta(q, p) /\ (c = d \/ (d # <<>> /\ c = Tail(d)))
                      \/ Pasa(q, d, p, c)
                      \/ p = <<>> /\ c = <<>>

\* No pair is lost.
Conservada(q, d, p, c) == \/ Pregunta(q, p) /\ (c = d \/ (d # <<>> /\ c = Tail(d) /\ Head(d).t # "DOS"))
                          \/ Pasa(q, d, p, c)
                          \/ p = q /\ c = d

PedidosBien(q) == EsSec(q) /\ \A j \in DOMAIN q : PedidoBien(q[j])
RtasBien(d) == EsSec(d) /\ \A j \in DOMAIN d : d[j].t = "DOS" => d[j].s \in Pares

LEMMA ParBien ==
    ASSUME NEW d, RtasBien(d), d # <<>>, Head(d).t = "DOS"
    PROVE  Head(d).s \in Pares
<1>1. Head(d) = d[1] /\ 1 \in DOMAIN d
  BY EsSecMenos DEF RtasBien
<1>2. QED
  BY <1>1 DEF RtasBien

LEMMA MasPedidos ==
    ASSUME NEW q, PedidosBien(q), NEW r, PedidoBien(r)
    PROVE  PedidosBien(Append(q, r))
<1> DEFINE p == Append(q, r)
<1>1. EsSec(p) /\ \A j \in DOMAIN p : p[j] = r \/ (j \in DOMAIN q /\ p[j] = q[j])
  BY EsSecMas DEF PedidosBien
<1> HIDE DEF p
<1>2. PedidosBien(p)
  BY <1>1 DEF PedidosBien
<1>3. QED
  BY <1>2 DEF p

LEMMA MenosRtas ==
    ASSUME NEW d, RtasBien(d), d # <<>>
    PROVE  RtasBien(Tail(d))
<1> DEFINE c == Tail(d)
<1>1. EsSec(c) /\ \A j \in DOMAIN c : j + 1 \in DOMAIN d /\ c[j] = d[j + 1]
  BY EsSecMenos DEF RtasBien
<1> HIDE DEF c
<1>2. RtasBien(c)
  BY <1>1 DEF RtasBien
<1>3. QED
  BY <1>2 DEF c

LEMMA MovidaBien ==
    ASSUME NEW q, PedidosBien(q), NEW d, RtasBien(d), NEW p, NEW c, Movida(q, d, p, c)
    PROVE  PedidosBien(p) /\ RtasBien(c)
<1>1. CASE Pregunta(q, p) /\ (c = d \/ (d # <<>> /\ c = Tail(d)))
  BY <1>1, MasPedidos, MenosRtas DEF Pregunta
<1>2. CASE Pasa(q, d, p, c)
  <2>1. PICK r : p = Append(q, r) /\ r.t = "AGREGAR" /\ r.s = Head(d).s
    BY <1>2 DEF Pasa
  <2>2. PedidoBien(r)
    BY <1>2, <2>1, ParBien DEF Pasa, PedidoBien, TiposSfs
  <2>3. QED
    BY <1>2, <2>1, <2>2, MasPedidos, MenosRtas DEF Pasa
<1>3. CASE p = <<>> /\ c = <<>>
  BY <1>3, ColaVacia DEF PedidosBien, RtasBien
<1>4. QED
  BY <1>1, <1>2, <1>3 DEF Movida

LEMMA NoEsPar ==
    ASSUME NEW r, NEW t, r.t # t, NEW s
    PROVE  ~HayPar(r, t, s) /\ UnoPar(r, t, s)
BY DEF HayPar, UnoPar

LEMMA MovidaUno ==
    ASSUME NEW q, EsSec(q), NEW d, EsSec(d), NEW p, NEW c, Movida(q, d, p, c),
           NEW l, NEW f, NEW s, UnoSolo(l, f, d, q, s)
    PROVE  UnoSolo(l, f, c, p, s)
<1>1. CASE Pregunta(q, p) /\ (c = d \/ (d # <<>> /\ c = Tail(d)))
  <2>1. (HayCola(p, "AGREGAR", s) <=> HayCola(q, "AGREGAR", s)) /\ UnoCola(p, "AGREGAR", s)
    <3>1. CASE p = q
      BY <3>1 DEF UnoSolo
    <3>2. ASSUME NEW r, p = Append(q, r), r.t # "AGREGAR"
          PROVE (HayCola(p, "AGREGAR", s) <=> HayCola(q, "AGREGAR", s)) /\ UnoCola(p, "AGREGAR", s)
      BY <3>2, ColaMas, NoEsPar DEF UnoSolo
    <3>3. QED
      BY <1>1, <3>1, <3>2 DEF Pregunta
  <2>2. (HayCola(c, "DOS", s) => HayCola(d, "DOS", s)) /\ UnoCola(c, "DOS", s)
    <3>1. UnoCola(d, "DOS", s)
      BY DEF UnoSolo
    <3>2. ASSUME d # <<>>, c = Tail(d)
          PROVE  (HayCola(c, "DOS", s) => HayCola(d, "DOS", s)) /\ UnoCola(c, "DOS", s)
      BY <3>1, <3>2, ColaMenos
    <3>3. QED
      BY <1>1, <3>1, <3>2
  <2>3. QED
    BY <2>1, <2>2 DEF UnoSolo
<1>2. CASE Pasa(q, d, p, c)
  <2>1. PICK r : p = Append(q, r) /\ r.t = "AGREGAR" /\ r.s = Head(d).s
    BY <1>2 DEF Pasa
  <2>2. d # <<>> /\ c = Tail(d) /\ Head(d).t = "DOS"
    BY <1>2 DEF Pasa
  <2>3. /\ HayPar(r, "AGREGAR", s) <=> HayPar(Head(d), "DOS", s)
        /\ UnoPar(r, "AGREGAR", s) <=> UnoPar(Head(d), "DOS", s)
    BY <2>1, <2>2 DEF HayPar, UnoPar
  <2>4. /\ HayCola(d, "DOS", s) <=> HayCola(c, "DOS", s) \/ HayPar(Head(d), "DOS", s)
        /\ UnoCola(c, "DOS", s) /\ UnoPar(Head(d), "DOS", s)
        /\ ~(HayCola(c, "DOS", s) /\ HayPar(Head(d), "DOS", s))
    BY <2>2, ColaMenos DEF UnoSolo
  <2>5. /\ HayCola(p, "AGREGAR", s) <=> HayCola(q, "AGREGAR", s) \/ HayPar(r, "AGREGAR", s)
        /\ UnoCola(p, "AGREGAR", s) <=> /\ UnoCola(q, "AGREGAR", s) /\ UnoPar(r, "AGREGAR", s)
                                        /\ ~(HayCola(q, "AGREGAR", s) /\ HayPar(r, "AGREGAR", s))
    BY <2>1, ColaMas
  <2>6. QED
    BY <2>3, <2>4, <2>5 DEF UnoSolo
<1>3. CASE p = <<>> /\ c = <<>>
  BY <1>3, ColaVacia DEF UnoSolo
<1>4. QED
  BY <1>1, <1>2, <1>3 DEF Movida

LEMMA ConservadaAlguno ==
    ASSUME NEW q, EsSec(q), NEW d, EsSec(d), NEW p, NEW c, Conservada(q, d, p, c),
           NEW l, NEW f, NEW s, Alguno(l, f, d, q, s)
    PROVE  Alguno(l, f, c, p, s)
<1>1. CASE Pregunta(q, p) /\ (c = d \/ (d # <<>> /\ c = Tail(d) /\ Head(d).t # "DOS"))
  <2>1. HayCola(q, "AGREGAR", s) => HayCola(p, "AGREGAR", s)
    <3>1. ASSUME NEW r, p = Append(q, r) PROVE HayCola(q, "AGREGAR", s) => HayCola(p, "AGREGAR", s)
      BY <3>1, ColaMas
    <3>2. QED
      BY <1>1, <3>1 DEF Pregunta
  <2>2. HayCola(d, "DOS", s) => HayCola(c, "DOS", s)
    <3>1. ASSUME d # <<>>, c = Tail(d), Head(d).t # "DOS"
          PROVE  HayCola(d, "DOS", s) => HayCola(c, "DOS", s)
      <4>1. ~HayPar(Head(d), "DOS", s)
        BY <3>1, NoEsPar
      <4>2. QED
        BY <3>1, <4>1, ColaMenos
    <3>2. QED
      BY <1>1, <3>1
  <2>3. QED
    BY <2>1, <2>2 DEF Alguno
<1>2. CASE Pasa(q, d, p, c)
  <2>1. PICK r : p = Append(q, r) /\ r.t = "AGREGAR" /\ r.s = Head(d).s
    BY <1>2 DEF Pasa
  <2>2. d # <<>> /\ c = Tail(d) /\ Head(d).t = "DOS"
    BY <1>2 DEF Pasa
  <2>3. HayPar(r, "AGREGAR", s) <=> HayPar(Head(d), "DOS", s)
    BY <2>1, <2>2 DEF HayPar
  <2>4. HayCola(d, "DOS", s) <=> HayCola(c, "DOS", s) \/ HayPar(Head(d), "DOS", s)
    BY <2>2, ColaMenos
  <2>5. HayCola(p, "AGREGAR", s) <=> HayCola(q, "AGREGAR", s) \/ HayPar(r, "AGREGAR", s)
    BY <2>1, ColaMas
  <2>6. QED
    BY <2>3, <2>4, <2>5 DEF Alguno
<1>3. CASE p = q /\ c = d
  BY <1>3
<1>4. QED
  BY <1>1, <1>2, <1>3 DEF Conservada

LEMMA MovidaSin ==
    ASSUME NEW q, EsSec(q), NEW d, EsSec(d), NEW p, NEW c, Movida(q, d, p, c),
           NEW l, NEW f, SinSectores(l, f, d, q)
    PROVE  SinSectores(l, f, c, p)
<1>1. CASE Pregunta(q, p) /\ (c = d \/ (d # <<>> /\ c = Tail(d)))
  <2>1. \A j \in DOMAIN p : p[j].t # "AGREGAR"
    <3>1. ASSUME NEW r, p = Append(q, r), r.t # "AGREGAR" PROVE \A j \in DOMAIN p : p[j].t # "AGREGAR"
      <4>1. \A j \in DOMAIN p : p[j] = r \/ (j \in DOMAIN q /\ p[j] = q[j])
        BY <3>1, EsSecMas
      <4>2. QED
        BY <3>1, <4>1 DEF SinSectores
    <3>2. QED
      BY <1>1, <3>1 DEF Pregunta, SinSectores
  <2>2. \A j \in DOMAIN c : c[j].t # "DOS"
    BY <1>1, EsSecMenos DEF SinSectores
  <2>3. QED
    BY <2>1, <2>2 DEF SinSectores
<1>2. CASE Pasa(q, d, p, c)
  <2>1. Head(d) = d[1] /\ 1 \in DOMAIN d
    BY <1>2, EsSecMenos DEF Pasa
  <2>2. QED
    BY <1>2, <2>1 DEF Pasa, SinSectores
<1>3. CASE p = <<>> /\ c = <<>>
  BY <1>3 DEF SinSectores
<1>4. QED
  BY <1>1, <1>2, <1>3 DEF Movida

\* No format on its way.
SinFormato(q, d) == /\ \A j \in DOMAIN q : q[j].t # "FORMATEAR"
                    /\ \A j \in DOMAIN d : d[j].t # "FORMATEADO"

LEMMA SinFormatoUltimos ==
    ASSUME NEW q, NEW d, SinFormato(q, d), NEW v
    PROVE  UltimoPedido(q, d, v) /\ UltimaRta(q, d, v)
BY DEF SinFormato, UltimoPedido, UltimaRta

LEMMA UltimosSinFormato ==
    ASSUME NEW q, NEW d, NEW v, UltimoPedido(q, d, v), UltimaRta(q, d, v), v # "espera formato"
    PROVE  SinFormato(q, d)
BY DEF SinFormato, UltimoPedido, UltimaRta

LEMMA SinFormatoSigue ==
    ASSUME NEW q, EsSec(q), NEW d, EsSec(d), SinFormato(q, d), NEW p, NEW c,
           p = q \/ \E r : p = Append(q, r) /\ r.t # "FORMATEAR",
           c = d \/ (d # <<>> /\ c = Tail(d))
    PROVE  SinFormato(p, c)
<1>1. \A j \in DOMAIN c : c[j].t # "FORMATEADO"
  BY EsSecMenos DEF SinFormato
<1>2. ASSUME NEW r, p = Append(q, r), r.t # "FORMATEAR" PROVE \A j \in DOMAIN p : p[j].t # "FORMATEAR"
  <2>1. \A j \in DOMAIN p : p[j] = r \/ (j \in DOMAIN q /\ p[j] = q[j])
    BY <1>2, EsSecMas
  <2>2. QED
    BY <1>2, <2>1 DEF SinFormato
<1>3. QED
  BY <1>1, <1>2 DEF SinFormato

-----------------------------------------------------------------------------
(* The steps of the VSK *)

\* Requests to add sectors are well formed by what the VSK keeps; the lists of the
\* next state too.
Listas == EsOft(oft) /\ EsFds(fds, Len(oft)) /\ EsPed(ped)
DelDa  == EsSec(deDa) /\ \A j \in DOMAIN deDa : deDa[j].t \in {"GET", "GET1", "PUT", "CHS"}

\* What every step but those of the SFS does: it leaves the free sectors and the
\* files alone, moves the queues, and forgets nobody's fault.
Aparte ==
    /\ libres' = libres /\ archivos' = archivos /\ formateado' = formateado /\ ucBuf' \in Pares
    /\ \A c \in culpas : c \in culpas'
    /\ Movida(aSfs, deSfs, aSfs', deSfs')
    /\ Listas' /\ DelDa'
    /\ Sanas' => Conservada(aSfs, deSfs, aSfs', deSfs')
    /\ Formatos'

LEMMA FormasPartes ==
    ASSUME Formas
    PROVE  PedidosBien(aSfs) /\ RtasBien(deSfs) /\ Listas /\ DelDa /\ ucBuf \in Pares
           /\ EsSec(aSfs) /\ EsSec(deSfs)
BY DEF Formas, PedidosBien, RtasBien, Listas, DelDa

LEMMA CulpasCrecen ==
    ASSUME \A c \in culpas : c \in culpas'
    PROVE  (Limpias' => Limpias) /\ (Sanas' => Sanas) /\ (Justas' => Justas)
BY DEF Limpias, Sanas, Justas

LEMMA AparteConserva ==
    ASSUME InvCuentas, Aparte
    PROVE  InvCuentas'
<1>1. /\ Formas /\ SinFormatear /\ Duenios /\ Cubiertos
      /\ libres' = libres /\ archivos' = archivos /\ formateado' = formateado /\ ucBuf' \in Pares
      /\ Movida(aSfs, deSfs, aSfs', deSfs') /\ Formatos'
  BY DEF InvCuentas, Aparte
<1>2. PedidosBien(aSfs) /\ RtasBien(deSfs) /\ EsSec(aSfs) /\ EsSec(deSfs)
  BY <1>1, FormasPartes
<1>3. (Limpias' => Limpias) /\ (Sanas' => Sanas) /\ (Justas' => Justas)
  BY CulpasCrecen DEF Aparte
<1>4. Formas'
  <2>1. PedidosBien(aSfs') /\ RtasBien(deSfs')
    BY <1>1, <1>2, MovidaBien
  <2>2. Listas' /\ DelDa'
    BY DEF Aparte
  <2>3. libres' \in Seq(Int) /\ EsTabla(archivos')
    BY <1>1 DEF Formas
  <2>4. QED
    BY <1>1, <2>1, <2>2, <2>3 DEF Formas, PedidosBien, RtasBien, Listas, DelDa
<1>5. SinFormatear'
  <2>1. ASSUME Limpias', ~formateado' PROVE SinSectores(libres', archivos', deSfs', aSfs')
    <3>1. SinSectores(libres, archivos, deSfs, aSfs)
      BY <1>1, <1>3, <2>1 DEF SinFormatear
    <3>2. SinSectores(libres, archivos, deSfs', aSfs')
      BY <1>1, <1>2, <3>1, MovidaSin
    <3>3. QED
      BY <1>1, <3>2
  <2>2. QED
    BY <2>1 DEF SinFormatear
<1>6. Duenios'
  <2>1. ASSUME Limpias', NEW s \in Sectores PROVE UnoSolo(libres', archivos', deSfs', aSfs', s)
    <3>1. UnoSolo(libres, archivos, deSfs, aSfs, s)
      BY <1>1, <1>3, <2>1 DEF Duenios
    <3>2. UnoSolo(libres, archivos, deSfs', aSfs', s)
      BY <1>1, <1>2, <3>1, MovidaUno
    <3>3. QED
      BY <1>1, <3>2
  <2>2. QED
    BY <2>1 DEF Duenios, Sectores
<1>7. Cubiertos'
  <2>1. ASSUME formateado', Justas', NEW s \in Sectores PROVE Alguno(libres', archivos', deSfs', aSfs', s)
    <3>1. Alguno(libres, archivos, deSfs, aSfs, s)
      BY <1>1, <1>3, <2>1 DEF Cubiertos
    <3>2. Conservada(aSfs, deSfs, aSfs', deSfs')
      BY <2>1 DEF Aparte, Justas, Sanas
    <3>3. Alguno(libres, archivos, deSfs', aSfs', s)
      BY <1>2, <3>1, <3>2, ConservadaAlguno
    <3>4. QED
      BY <1>1, <3>3
  <2>2. QED
    BY <2>1 DEF Cubiertos, Sectores
<1>8. QED
  BY <1>1, <1>4, <1>5, <1>6, <1>7 DEF InvCuentas

\* What a handler of the VSK finds.
LEMMA EstadoEs ==
    ASSUME Formas
    PROVE  /\ EsVsk(EstadoVsk) /\ EstadoVsk.aSfs = aSfs /\ EstadoVsk.con = con
           /\ EstadoVsk.culpas = culpas /\ EstadoVsk.vsk = vsk
BY DEF Formas, EsVsk, Campos, EstadoVsk

\* A step of the VSK that asks at most for something.
LEMMA PideAparte ==
    ASSUME InvCuentas, vsk = "atendiendo",
           NEW e, e.aSfs = aSfs, e.con = con, e.culpas = culpas, NEW x, Pide(e, x), Aplica(x),
           UNCHANGED <<sfs, formateado, libres, archivos, ucBuf>>,
           deSfs' = deSfs \/ (deSfs # <<>> /\ deSfs' = Tail(deSfs) /\ Head(deSfs).t # "DOS"),
           DelDa'
    PROVE  Aparte
<1>1. PedidosBien(aSfs) /\ RtasBien(deSfs) /\ EsSec(aSfs) /\ EsSec(deSfs) /\ ucBuf \in Pares
  BY FormasPartes DEF InvCuentas
<1>2. EsVsk(x) /\ x.con = e.con /\ Recuerda(e, x)
  BY DEF Pide, Igual, PideUno
<1>3. \/ x.aSfs = aSfs
      \/ \E r : x.aSfs = Append(aSfs, r) /\ r.t \in TiposSfs /\ r.t # "AGREGAR" /\ r.t # "FORMATEAR"
  BY DEF Pide, Igual, PideUno, Llano
<1>4. Listas' /\ aSfs' = x.aSfs /\ con' = con /\ culpas' = x.culpas
  BY <1>2 DEF Aplica, EsVsk, Listas
<1>5. \A c \in culpas : c \in culpas'
  BY <1>2, <1>4 DEF Recuerda
<1>6. Pregunta(aSfs, aSfs')
  <2>1. ASSUME NEW r, x.aSfs = Append(aSfs, r), r.t \in TiposSfs, r.t # "AGREGAR", r.t # "FORMATEAR"
        PROVE  Pregunta(aSfs, aSfs')
    <3>1. PedidoBien(r)
      BY <2>1 DEF PedidoBien
    <3>2. QED
      BY <1>4, <2>1, <3>1 DEF Pregunta
  <2>2. QED
    BY <1>3, <1>4, <2>1 DEF Pregunta
<1>7. Movida(aSfs, deSfs, aSfs', deSfs') /\ Conservada(aSfs, deSfs, aSfs', deSfs')
  BY <1>6 DEF Movida, Conservada
<1>8. ASSUME Sanas' PROVE con' = "si" /\ sfs' = "atendiendo" /\ UltimoPedido(aSfs', deSfs', vsk')
                          /\ UltimaRta(aSfs', deSfs', vsk')
  <2>1. Sanas
    BY <1>5, <1>8, CulpasCrecen
  <2>2. con = "si" /\ sfs = "atendiendo" /\ UltimoPedido(aSfs, deSfs, vsk) /\ UltimaRta(aSfs, deSfs, vsk)
    BY <2>1 DEF InvCuentas, Formatos
  <2>3. SinFormato(aSfs, deSfs)
    BY <2>2, UltimosSinFormato
  <2>4. SinFormato(aSfs', deSfs')
    BY <1>1, <1>3, <1>4, <2>3, SinFormatoSigue
  <2>5. QED
    BY <1>4, <2>2, <2>4, SinFormatoUltimos
<1>9. Formatos'
  BY <1>8 DEF Formatos
<1>10. QED
  BY <1>1, <1>4, <1>5, <1>7, <1>9 DEF Aparte

LEMMA ClienteAparte ==
    ASSUME InvCuentas, NEW c \in Sockets, VskCliente(c)
    PROVE  Aparte
<1> DEFINE e == [EstadoVsk EXCEPT !.ped[c] = NoLlamada]
<1>1. Formas /\ vsk = "atendiendo" /\ DelDa /\ ped[c].t \in Llamadas
  <2>1. Formas
    BY DEF InvCuentas
  <2>2. QED
    BY <2>1, FormasPartes DEF VskCliente, Formas, EsPed
<1>2. EsVsk(EstadoVsk) /\ EstadoVsk.aSfs = aSfs /\ EstadoVsk.con = con
      /\ EstadoVsk.culpas = culpas
  BY <1>1, EstadoEs
<1>3. EsVsk(e) /\ e.aSfs = aSfs /\ e.con = con /\ e.culpas = culpas
  <2> DEFINE p == [EstadoVsk.ped EXCEPT ![c] = NoLlamada]
  <2>1. EsPed(p)
    BY <1>2 DEF EsVsk, EsPed, NoLlamada, Llamada
  <2>2. e = [EstadoVsk EXCEPT !.ped = p]
    OBVIOUS
  <2> HIDE DEF p, e
  <2>3. /\ DOMAIN e = Campos /\ e.fds = EstadoVsk.fds /\ e.oft = EstadoVsk.oft /\ e.ped = p
        /\ e.aSfs = EstadoVsk.aSfs /\ e.con = EstadoVsk.con /\ e.culpas = EstadoVsk.culpas
    <3> DEFINE E == EstadoVsk
    <3>1. DOMAIN E = Campos /\ e = [E EXCEPT !.ped = p]
      BY <1>2, <2>2 DEF EsVsk
    <3> HIDE DEF E
    <3>2. /\ DOMAIN e = Campos /\ e.fds = E.fds /\ e.oft = E.oft /\ e.ped = p
          /\ e.aSfs = E.aSfs /\ e.con = E.con /\ e.culpas = E.culpas
      BY <3>1 DEF Campos
    <3>3. QED
      BY <3>2 DEF E
  <2>4. QED
    BY <1>2, <2>1, <2>3 DEF EsVsk
<1> HIDE DEF e
<1>4. PICK x \in AtenderCliente(e, c, ped[c]) : Aplica(x)
  BY DEF VskCliente, e
<1>5. Pide(e, x)
  BY <1>1, <1>3, AtenderClientePide
<1>6. UNCHANGED <<sfs, formateado, libres, archivos, ucBuf, deSfs, deDa>>
  BY DEF VskCliente
<1>7. DelDa'
  BY <1>1, <1>6 DEF DelDa
<1>8. QED
  BY <1>1, <1>3, <1>4, <1>5, <1>6, <1>7, PideAparte

LEMMA DaAparte ==
    ASSUME InvCuentas, VskDa
    PROVE  Aparte
<1>1. Formas /\ vsk = "atendiendo" /\ DelDa /\ deDa # <<>> /\ deDa' = Tail(deDa)
  BY FormasPartes DEF InvCuentas, VskDa
<1>2. EsVsk(EstadoVsk) /\ EstadoVsk.aSfs = aSfs /\ EstadoVsk.con = con
      /\ EstadoVsk.culpas = culpas /\ EstadoVsk.vsk = vsk
  BY <1>1, EstadoEs
<1>3. PICK x \in Respuesta(EstadoVsk, Head(deDa)) : Aplica(x)
  BY DEF VskDa
<1>4. Head(deDa).t # "DOS" /\ DelDa'
  <2> DEFINE d == deDa
             c == Tail(deDa)
  <2>1. /\ EsSec(c) /\ Head(d) = d[1] /\ 1 \in DOMAIN d
        /\ \A j \in DOMAIN c : j + 1 \in DOMAIN d /\ c[j] = d[j + 1]
    BY <1>1, EsSecMenos DEF DelDa
  <2>2. Head(d).t # "DOS"
    BY <1>1, <2>1 DEF DelDa
  <2> HIDE DEF c
  <2>3. EsSec(c) /\ \A j \in DOMAIN c : c[j].t \in {"GET", "GET1", "PUT", "CHS"}
    BY <1>1, <2>1 DEF DelDa
  <2>4. QED
    BY <1>1, <2>2, <2>3 DEF DelDa, c
<1>5. Pide(EstadoVsk, x)
  BY <1>1, <1>2, <1>4, RespuestaPasa
<1>6. UNCHANGED <<sfs, formateado, libres, archivos, ucBuf, deSfs>>
  BY DEF VskDa
<1>7. QED
  BY <1>1, <1>2, <1>3, <1>4, <1>5, <1>6, PideAparte

LEMMA PierdeClienteAparte ==
    ASSUME InvCuentas, NEW c \in Sockets, VskPierdeCliente(c)
    PROVE  Aparte
<1> DEFINE x == CierraSocket(EstadoVsk, c)
<1>1. Formas /\ vsk = "atendiendo" /\ DelDa
  BY FormasPartes DEF InvCuentas, VskPierdeCliente
<1>2. EsVsk(EstadoVsk) /\ EstadoVsk.aSfs = aSfs /\ EstadoVsk.con = con
      /\ EstadoVsk.culpas = culpas
  BY <1>1, EstadoEs
<1>3. Pide(EstadoVsk, x)
  BY <1>2, CierraIgual, IgualEsPide
<1>4. Aplica(x) /\ UNCHANGED <<sfs, formateado, libres, archivos, ucBuf, deSfs, deDa>>
  BY DEF VskPierdeCliente
<1>5. DelDa'
  BY <1>1, <1>4 DEF DelDa
<1> HIDE DEF x
<1>6. QED
  BY <1>1, <1>2, <1>3, <1>4, <1>5, PideAparte

LEMMA CaeConParIgual ==
    ASSUME NEW x, EsVsk(x), NEW m, NEW z, z = CaeConPar(x, m)
    PROVE  /\ EsVsk(z) /\ z.aSfs = x.aSfs /\ z.con = x.con /\ z.vsk = x.vsk /\ Recuerda(x, z)
           /\ m.t = "DOS" /\ x.vsk \in Perdida => "caida" \in z.culpas
           /\ m.t # "DOS" => z = x
<1>1. CASE m.t = "DOS" /\ x.vsk \notin {"atendiendo", "desfasada"}
  <2>1. z = Culpa(x, "caida")
    BY <1>1 DEF CaeConPar
  <2>2. QED
    BY <1>1, <2>1 DEF Culpa, EsVsk, Campos, Recuerda
<1>2. CASE ~(m.t = "DOS" /\ x.vsk \notin {"atendiendo", "desfasada"})
  <2>1. z = x
    BY <1>2 DEF CaeConPar
  <2>2. QED
    BY <1>2, <2>1 DEF Recuerda, Perdida
<1>3. QED
  BY <1>1, <1>2

LEMMA VskSfsAparte ==
    ASSUME InvCuentas, VskSfs
    PROVE  Aparte
<1> DEFINE m == Head(deSfs)
           e == EstadoVsk
<1>1. /\ Formas /\ vsk = "atendiendo" /\ con = "si" /\ deSfs # <<>> /\ deSfs' = Tail(deSfs)
      /\ UNCHANGED <<sfs, formateado, libres, archivos, ucBuf, deDa>>
  BY DEF InvCuentas, VskSfs
<1>2. EsVsk(e) /\ e.aSfs = aSfs /\ e.con = con /\ e.culpas = culpas /\ e.vsk = vsk
  BY <1>1, EstadoEs
<1>3. PICK x \in AtenderSfs(e, m) : Aplica(CaeConPar(x, m))
  BY DEF VskSfs
<1> DEFINE z == CaeConPar(x, m)
<1>4. AtiendeBien(e, m, x)
  BY <1>1, <1>2, AtenderSfsBien
<1>5. PedidosBien(aSfs) /\ RtasBien(deSfs) /\ EsSec(aSfs) /\ EsSec(deSfs) /\ ucBuf \in Pares /\ DelDa
  BY <1>1, FormasPartes
<1>6. DelDa'
  BY <1>1, <1>5 DEF DelDa
<1>7. Aplica(z)
  BY <1>3
<1> HIDE DEF z, m, e
<1>8. CASE m.t \notin {"DOS", "FORMATEADO"}
  <2>1. Pide(e, x)
    BY <1>4, <1>8 DEF AtiendeBien
  <2>2. z = x
    BY <1>8 DEF CaeConPar, z
  <2>3. Head(deSfs).t # "DOS"
    BY <1>8 DEF m
  <2>4. QED
    BY <1>1, <1>2, <1>6, <1>7, <2>1, <2>2, <2>3, PideAparte
<1>9. CASE m.t = "FORMATEADO"
  <2>1. EsVsk(x) /\ x.aSfs = e.aSfs /\ x.con = "rota" /\ Recuerda(e, x) /\ x.vsk = e.vsk /\ z = x
    BY <1>4, <1>9 DEF AtiendeBien, CaeConPar, z
  <2>2. Listas' /\ aSfs' = aSfs /\ culpas' = x.culpas
    BY <1>2, <1>7, <2>1 DEF Aplica, EsVsk, Listas
  <2>3. \A c \in culpas : c \in culpas'
    BY <1>2, <2>1, <2>2 DEF Recuerda
  <2>4. ~Sanas'
    <3>1. SUFFICES ASSUME Sanas' PROVE FALSE
      OBVIOUS
    <3>2. Sanas
      BY <2>3, <3>1, CulpasCrecen
    <3>3. UltimaRta(aSfs, deSfs, vsk)
      BY <3>2 DEF InvCuentas, Formatos
    <3>4. Head(deSfs) = deSfs[1] /\ 1 \in DOMAIN deSfs
      BY <1>1, <1>5, EsSecMenos
    <3>5. QED
      BY <1>1, <1>9, <3>3, <3>4 DEF UltimaRta, m
  <2>5. Movida(aSfs, deSfs, aSfs', deSfs')
    BY <1>1, <2>2 DEF Movida, Pregunta
  <2>6. QED
    BY <1>1, <1>5, <1>6, <2>2, <2>3, <2>4, <2>5 DEF Aparte, Formatos
<1>10. CASE m.t = "DOS"
  <2>1. Pasado(e, m, x)
    BY <1>4, <1>10 DEF AtiendeBien
  <2>2. EsVsk(x) /\ x.con = e.con /\ Recuerda(e, x)
    BY <2>1 DEF Pasado, Igual, PideUno
  <2>3. /\ EsVsk(z) /\ z.aSfs = x.aSfs /\ z.con = x.con /\ z.vsk = x.vsk /\ Recuerda(x, z)
        /\ x.vsk \in Perdida => "caida" \in z.culpas
    BY <1>10, <2>2, CaeConParIgual DEF z
  <2>4. Listas' /\ aSfs' = x.aSfs /\ con' = con /\ culpas' = z.culpas /\ vsk' = x.vsk
    BY <1>2, <1>7, <2>2, <2>3 DEF Aplica, EsVsk, Listas
  <2>5. \A c \in culpas : c \in culpas'
    BY <1>2, <2>2, <2>3, <2>4 DEF Recuerda
  <2>6. Pasa(aSfs, deSfs, aSfs', deSfs') \/ aSfs' = aSfs
    BY <1>1, <1>2, <1>10, <2>1, <2>4 DEF Pasado, PideUno, Igual, Pasa, m
  <2>7. Movida(aSfs, deSfs, aSfs', deSfs')
    BY <1>1, <2>6 DEF Movida, Pregunta
  <2>8. ASSUME Sanas'
        PROVE  /\ Pasa(aSfs, deSfs, aSfs', deSfs')
               /\ con' = "si" /\ sfs' = "atendiendo" /\ UltimoPedido(aSfs', deSfs', vsk')
               /\ UltimaRta(aSfs', deSfs', vsk')
    <3>1. Sanas
      BY <2>5, <2>8, CulpasCrecen
    <3>2. con = "si" /\ sfs = "atendiendo" /\ UltimoPedido(aSfs, deSfs, vsk) /\ UltimaRta(aSfs, deSfs, vsk)
      BY <3>1 DEF InvCuentas, Formatos
    <3>3. "caida" \notin z.culpas /\ "descartada" \notin z.culpas
      BY <2>4, <2>8 DEF Sanas
    <3>4. x.vsk \notin Perdida /\ "descartada" \notin x.culpas
      BY <2>3, <3>3 DEF Recuerda
    <3>5. PICK r : PideUno(e, x, r) /\ r.t = "AGREGAR" /\ r.s = m.s
      BY <1>2, <2>1, <3>2, <3>4 DEF Pasado
    <3>6. aSfs' = Append(aSfs, r)
      BY <1>2, <2>4, <3>5 DEF PideUno
    <3>7. Pasa(aSfs, deSfs, aSfs', deSfs')
      BY <1>1, <1>10, <3>5, <3>6 DEF Pasa, m
    <3>8. SinFormato(aSfs, deSfs)
      BY <1>1, <3>2, UltimosSinFormato
    <3>9. SinFormato(aSfs', deSfs')
      BY <1>1, <1>5, <3>5, <3>6, <3>8, SinFormatoSigue
    <3>10. QED
      BY <1>1, <2>4, <3>2, <3>7, <3>9, SinFormatoUltimos
  <2>9. QED
    BY <1>1, <1>5, <1>6, <2>4, <2>5, <2>7, <2>8 DEF Aparte, Formatos, Conservada
<1>11. QED
  BY <1>8, <1>9, <1>10

\* A step that moves nothing and does not begin or end a format.
LEMMA NadaAparte ==
    ASSUME InvCuentas, UNCHANGED <<formateado, libres, archivos, aSfs, deSfs, culpas>>,
           ucBuf' = ucBuf, Listas', DelDa',
           Sanas => con' = "si" /\ sfs' = "atendiendo",
           vsk' # vsk => vsk # "espera formato"
    PROVE  Aparte
<1>1. /\ Formas /\ ucBuf \in Pares
  BY FormasPartes DEF InvCuentas
<1>2. Sanas' => Sanas
  BY DEF Sanas
<1>3. ASSUME Sanas' PROVE UltimoPedido(aSfs', deSfs', vsk') /\ UltimaRta(aSfs', deSfs', vsk')
  <2>1. UltimoPedido(aSfs, deSfs, vsk) /\ UltimaRta(aSfs, deSfs, vsk)
    BY <1>2, <1>3 DEF InvCuentas, Formatos
  <2>2. CASE vsk' = vsk
    BY <2>1, <2>2
  <2>3. CASE vsk' # vsk
    BY <2>1, <2>3, UltimosSinFormato, SinFormatoUltimos
  <2>4. QED
    BY <2>2, <2>3
<1>4. Formatos'
  BY <1>2, <1>3 DEF Formatos
<1>5. Movida(aSfs, deSfs, aSfs', deSfs') /\ Conservada(aSfs, deSfs, aSfs', deSfs')
  BY DEF Movida, Conservada, Pregunta
<1>6. QED
  BY <1>1, <1>4, <1>5 DEF Aparte

LEMMA ListasQuietas ==
    ASSUME Formas, UNCHANGED <<fds, oft, ped>>
    PROVE  Listas'
BY DEF Formas, Listas

LEMMA DelDaQuieto ==
    ASSUME Formas, UNCHANGED deDa
    PROVE  DelDa'
BY DEF Formas, DelDa

LEMMA SanasConexion ==
    ASSUME InvCuentas, Sanas
    PROVE  con = "si" /\ sfs = "atendiendo"
BY DEF InvCuentas, Formatos

LEMMA PierdeSfsAparte ==
    ASSUME InvCuentas, VskPierdeSfs
    PROVE  Aparte
<1>1. Formas /\ EsVsk(EstadoVsk)
  BY EstadoEs DEF InvCuentas
<1> DEFINE x == [EstadoVsk EXCEPT !.con = "no", !.aux = IF @ = "SFS" THEN "suelto" ELSE @]
<1>2. /\ Aplica(x) /\ sfs = "muerto" /\ vsk = "atendiendo"
      /\ UNCHANGED <<sfs, formateado, libres, archivos, ucBuf, deSfs, deDa>>
  BY DEF VskPierdeSfs
<1>3. UNCHANGED <<aSfs, culpas, vsk, fds, oft, ped>>
  BY <1>2 DEF Aplica, EstadoVsk
<1>4. ~Sanas
  BY <1>2, SanasConexion
<1>5. QED
  BY <1>1, <1>2, <1>3, <1>4, ListasQuietas, DelDaQuieto, NadaAparte

LEMMA ConsolaAparte ==
    ASSUME InvCuentas, Consola
    PROVE  Aparte
<1>1. Formas /\ DelDa /\ ucBuf \in Pares
  BY FormasPartes DEF InvCuentas
<1>2. EsVsk(EstadoVsk) /\ EstadoVsk.aSfs = aSfs /\ EstadoVsk.con = con
      /\ EstadoVsk.culpas = culpas /\ EstadoVsk.vsk = vsk
  BY <1>1, EstadoEs
<1>0. PICK t \in Comandos : \E y \in Comando(EstadoVsk, t) : Aplica(y)
  BY DEF Consola
<1>3. PICK x \in Comando(EstadoVsk, t) : Aplica(x)
  BY <1>0
<1>4. /\ EsVsk(x) /\ x.aSfs = aSfs /\ x.con = con /\ Recuerda(EstadoVsk, x)
      /\ x.vsk = vsk \/ x.vsk \in Perdida \union {"espera CHS", "desfasada"}
  BY <1>2, ComandoIgual
<1>5. vsk = "atendiendo" /\ UNCHANGED <<sfs, formateado, libres, archivos, ucBuf, deSfs, deDa>>
  BY DEF Consola
<1>6. Listas' /\ aSfs' = aSfs /\ con' = con /\ culpas' = x.culpas
  BY <1>3, <1>4 DEF Aplica, EsVsk, Listas
<1>7. \A c \in culpas : c \in culpas'
  BY <1>2, <1>4, <1>6 DEF Recuerda
<1>8. DelDa'
  BY <1>1, <1>5 DEF DelDa
<1>9. ASSUME Sanas' PROVE /\ con' = "si" /\ sfs' = "atendiendo" /\ UltimoPedido(aSfs', deSfs', vsk')
                          /\ UltimaRta(aSfs', deSfs', vsk')
  <2>1. Sanas
    BY <1>7, <1>9, CulpasCrecen
  <2>2. con = "si" /\ sfs = "atendiendo" /\ UltimoPedido(aSfs, deSfs, vsk) /\ UltimaRta(aSfs, deSfs, vsk)
    BY <2>1 DEF InvCuentas, Formatos
  <2>3. SinFormato(aSfs, deSfs)
    BY <1>5, <2>2, UltimosSinFormato
  <2>4. QED
    BY <1>5, <1>6, <2>2, <2>3, SinFormatoUltimos
<1>10. Movida(aSfs, deSfs, aSfs', deSfs') /\ Conservada(aSfs, deSfs, aSfs', deSfs')
  BY <1>5, <1>6 DEF Movida, Conservada, Pregunta
<1>11. QED
  BY <1>1, <1>5, <1>6, <1>7, <1>8, <1>9, <1>10 DEF Aparte, Formatos

\* One answer of the DA less.
LEMMA DelDaMenos ==
    ASSUME DelDa, deDa # <<>>, deDa' = Tail(deDa)
    PROVE  DelDa'
<1> DEFINE c == Tail(deDa)
<1>1. EsSec(c) /\ \A j \in DOMAIN c : j + 1 \in DOMAIN deDa /\ c[j] = deDa[j + 1]
  BY EsSecMenos DEF DelDa
<1> HIDE DEF c
<1>2. EsSec(c) /\ \A j \in DOMAIN c : c[j].t \in {"GET", "GET1", "PUT", "CHS"}
  BY <1>1 DEF DelDa
<1>3. QED
  BY <1>2 DEF DelDa, c

\* The format asks, and waits, or the process is lost.
PideFormato(e, id, n) ==
    Luego(Luego({BuscaSfs(e)}, LAMBDA y : PideSfs(y, "FORMATEAR", "-", id, Nada, <<n>>)),
          LAMBDA z : {Fin(z, "espera formato")})

LEMMA FormatoPide ==
    ASSUME NEW e, EsVsk(e), e.vsk = "atendiendo", NEW id, NEW n,
           NEW x \in PideFormato(e, id, n)
    PROVE  /\ EsVsk(x) /\ x.con = e.con /\ Recuerda(e, x)
           /\ \/ x.aSfs = e.aSfs
              \/ /\ x.aSfs = Append(e.aSfs, Pedido("FORMATEAR", "-", id, Nada, <<n>>))
                 /\ x.vsk = "espera formato"
<1> DEFINE r == Pedido("FORMATEAR", "-", id, Nada, <<n>>)
           w == BuscaSfs(e)
           A == Luego({w}, LAMBDA y : PideSfs(y, "FORMATEAR", "-", id, Nada, <<n>>))
<1>1. PICK z \in A : (z.vsk = "atendiendo" /\ x = Fin(z, "espera formato"))
                     \/ (z.vsk # "atendiendo" /\ x = z)
  BY DEF PideFormato, Luego
<1>2. z = w \/ (w.vsk = "atendiendo" /\ z \in PideSfs(w, "FORMATEAR", "-", id, Nada, <<n>>))
  BY DEF Luego
<1> HIDE DEF A
<1>3. Igual(e, w) /\ EsVsk(w)
  BY BuscaSfsIgual, IgualEs
<1> HIDE DEF w
<1>4. \/ Igual(e, z)
      \/ PideUno(e, z, r) /\ z.vsk = "atendiendo"
  <2>1. CASE z = w
    BY <1>3, <2>1
  <2>2. CASE w.vsk = "atendiendo" /\ z \in PideSfs(w, "FORMATEAR", "-", id, Nada, <<n>>)
    <3>1. (PideUno(w, z, r) /\ z.vsk = w.vsk) \/ Igual(w, z)
      BY <1>3, <2>2, PideSfsUno
    <3> HIDE DEF r
    <3>2. QED
      BY <1>3, <2>2, <3>1, IgualUno, IgualIgual
  <2>3. QED
    BY <1>2, <2>1, <2>2
<1> HIDE DEF r
<1>5. EsVsk(z) /\ z.con = e.con /\ Recuerda(e, z) /\ (z.aSfs = e.aSfs \/ z.aSfs = Append(e.aSfs, r))
      /\ (z.aSfs = e.aSfs \/ z.vsk = "atendiendo")
  BY <1>4 DEF Igual, PideUno
<1>6. CASE z.vsk # "atendiendo" /\ x = z
  BY <1>5, <1>6
<1>7. CASE z.vsk = "atendiendo" /\ x = Fin(z, "espera formato")
  <2>1. /\ DOMAIN x = Campos /\ x.fds = z.fds /\ x.oft = z.oft /\ x.ped = z.ped
        /\ x.aSfs = z.aSfs /\ x.con = z.con /\ x.culpas = z.culpas /\ x.vsk = "espera formato"
    BY <1>5, <1>7 DEF Fin, EsVsk, Campos
  <2>2. EsVsk(x) /\ Recuerda(e, x)
    BY <1>5, <2>1 DEF EsVsk, Recuerda
  <2>3. QED
    BY <1>5, <2>1, <2>2 DEF r
<1>8. QED
  BY <1>1, <1>6, <1>7

LEMMA FormatoChsAparte ==
    ASSUME InvCuentas, FormatoChs
    PROVE  Aparte
<1> DEFINE m == Head(deDa)
           cs == culpas \union (IF m.t = "CHS" THEN {} ELSE {"descartada"})
           e == [EstadoVsk EXCEPT !.vsk = "atendiendo",
                     !.culpas = @ \union (IF m.t = "CHS" THEN {} ELSE {"descartada"})]
           n == IF m.t = "CHS" THEN NumSectores ELSE Otra
<1>1. PICK x \in PideFormato(e, m.id, n) : Aplica(x)
  BY DEF FormatoChs, PideFormato
<1>2. /\ vsk = "espera CHS" /\ deDa # <<>> /\ deDa' = Tail(deDa)
      /\ UNCHANGED <<sfs, formateado, libres, archivos, ucBuf, deSfs>>
  BY DEF FormatoChs
<1>3. Formas /\ PedidosBien(aSfs) /\ EsSec(aSfs) /\ EsSec(deSfs) /\ ucBuf \in Pares /\ DelDa
  BY FormasPartes DEF InvCuentas
<1>4. EsVsk(EstadoVsk) /\ EstadoVsk.aSfs = aSfs /\ EstadoVsk.con = con /\ EstadoVsk.culpas = culpas
  BY <1>3, EstadoEs
<1>5. EsVsk(e) /\ e.vsk = "atendiendo" /\ e.aSfs = aSfs /\ e.con = con /\ \A c \in culpas : c \in e.culpas
  BY <1>4 DEF EsVsk, Campos
<1>6. DelDa'
  BY <1>2, <1>3, DelDaMenos
<1>7. n \in {NumSectores, Otra}
  OBVIOUS
<1> HIDE DEF e, m, n
<1> DEFINE id == m.id
           r == Pedido("FORMATEAR", "-", id, Nada, <<n>>)
<1>8. /\ EsVsk(x) /\ x.con = e.con /\ Recuerda(e, x)
      /\ x.aSfs = e.aSfs \/ (x.aSfs = Append(e.aSfs, r) /\ x.vsk = "espera formato")
  <2>1. x \in PideFormato(e, id, n)
    BY <1>1
  <2>2. EsVsk(e) /\ e.vsk = "atendiendo"
    BY <1>5
  <2> HIDE DEF id
  <2>3. QED
    BY <2>1, <2>2, FormatoPide
<1>9. PedidoBien(r) /\ r.t = "FORMATEAR"
  BY <1>7 DEF Pedido, PedidoBien, TiposSfs
<1> HIDE DEF r
<1>10. Listas' /\ con' = con /\ culpas' = x.culpas /\ vsk' = x.vsk /\ aSfs' = x.aSfs
  BY <1>1, <1>5, <1>8 DEF Aplica, EsVsk, Listas
<1>11. \A c \in culpas : c \in culpas'
  BY <1>5, <1>8, <1>10 DEF Recuerda
<1>12. Pregunta(aSfs, aSfs')
  BY <1>5, <1>8, <1>9, <1>10 DEF Pregunta
<1>13. Movida(aSfs, deSfs, aSfs', deSfs') /\ Conservada(aSfs, deSfs, aSfs', deSfs')
  BY <1>2, <1>12 DEF Movida, Conservada
<1>14. ASSUME Sanas' PROVE con' = "si" /\ sfs' = "atendiendo" /\ UltimoPedido(aSfs', deSfs', vsk')
                           /\ UltimaRta(aSfs', deSfs', vsk')
  <2>1. Sanas
    BY <1>11, <1>14, CulpasCrecen
  <2>2. con = "si" /\ sfs = "atendiendo" /\ UltimoPedido(aSfs, deSfs, vsk) /\ UltimaRta(aSfs, deSfs, vsk)
    BY <2>1 DEF InvCuentas, Formatos
  <2>3. SinFormato(aSfs, deSfs)
    BY <1>2, <2>2, UltimosSinFormato
  <2>4. CASE aSfs' = aSfs
    BY <1>2, <1>10, <2>2, <2>3, <2>4, SinFormatoUltimos
  <2>5. CASE aSfs' = Append(aSfs, r) /\ vsk' = "espera formato"
    <3>1. /\ Len(aSfs') = Len(aSfs) + 1
          /\ \A j \in DOMAIN aSfs' : (j \in DOMAIN aSfs /\ aSfs'[j] = aSfs[j]) \/ j = Len(aSfs) + 1
      <4> DEFINE p == Append(aSfs, r)
      <4>1. /\ Len(p) = Len(aSfs) + 1
            /\ \A j \in DOMAIN aSfs : p[j] = aSfs[j]
            /\ \A j \in DOMAIN p : j \in DOMAIN aSfs \/ j = Len(aSfs) + 1
        BY <1>3, EsSecMas
      <4>2. aSfs' = p
        BY <2>5
      <4> HIDE DEF p
      <4>3. QED
        BY <4>1, <4>2
    <3>2. UltimoPedido(aSfs', deSfs', vsk')
      BY <1>2, <2>3, <2>5, <3>1 DEF UltimoPedido, SinFormato
    <3>3. UltimaRta(aSfs', deSfs', vsk')
      BY <1>2, <2>3 DEF UltimaRta, SinFormato
    <3>4. QED
      BY <1>2, <1>10, <2>2, <3>2, <3>3
  <2>6. QED
    BY <1>5, <1>8, <1>10, <2>4, <2>5
<1>15. QED
  BY <1>2, <1>3, <1>6, <1>10, <1>11, <1>13, <1>14 DEF Aparte, Formatos

LEMMA FormatoVueltaAparte ==
    ASSUME InvCuentas, FormatoVuelta
    PROVE  Aparte
<1> DEFINE m == Head(deSfs)
           e == [EstadoVsk EXCEPT !.vsk = "atendiendo",
                     !.culpas = @ \union (IF m.t = "FORMATEADO" THEN {} ELSE {"descartada"})]
           x == IF m.t \in ConPayload \union {"ERROR", "ERROR SOLO", "TEXTO"} THEN Desfasa(e) ELSE e
<1>1. /\ Aplica(x) /\ vsk = "espera formato" /\ con = "si" /\ deSfs # <<>> /\ deSfs' = Tail(deSfs)
      /\ UNCHANGED <<sfs, formateado, libres, archivos, ucBuf, deDa>>
  BY DEF FormatoVuelta
<1>2. Formas /\ EsSec(aSfs) /\ EsSec(deSfs) /\ ucBuf \in Pares /\ DelDa
  BY FormasPartes DEF InvCuentas
<1>3. EsVsk(EstadoVsk) /\ EstadoVsk.aSfs = aSfs /\ EstadoVsk.con = con /\ EstadoVsk.culpas = culpas
  BY <1>2, EstadoEs
<1>4. /\ EsVsk(e) /\ e.aSfs = aSfs /\ e.con = con /\ \A c \in culpas : c \in e.culpas
      /\ m.t # "FORMATEADO" => "descartada" \in e.culpas
  BY <1>3 DEF EsVsk, Campos
<1> HIDE DEF e
<1>5. Igual(e, x) /\ EsVsk(x)
  BY <1>4, FinIgual, IgualMismo, IgualEs
<1> HIDE DEF x
<1>6. Listas' /\ aSfs' = aSfs /\ con' = con /\ culpas' = x.culpas
  BY <1>1, <1>4, <1>5 DEF Aplica, EsVsk, Listas, Igual
<1>7. (\A c \in culpas : c \in culpas') /\ (m.t # "FORMATEADO" => ~Sanas')
  BY <1>4, <1>5, <1>6 DEF Recuerda, Igual, Sanas
<1>8. DelDa'
  BY <1>1, <1>2, DelDaQuieto
<1> HIDE DEF m
<1>9. ASSUME Sanas' PROVE /\ Head(deSfs).t = "FORMATEADO"
                          /\ con' = "si" /\ sfs' = "atendiendo" /\ UltimoPedido(aSfs', deSfs', vsk')
                          /\ UltimaRta(aSfs', deSfs', vsk')
  <2>1. Sanas
    BY <1>7, <1>9, CulpasCrecen
  <2>2. con = "si" /\ sfs = "atendiendo" /\ UltimoPedido(aSfs, deSfs, vsk) /\ UltimaRta(aSfs, deSfs, vsk)
    BY <2>1 DEF InvCuentas, Formatos
  <2>3. Head(deSfs).t = "FORMATEADO"
    BY <1>7, <1>9 DEF m
  <2>4. /\ Len(deSfs) \in Nat \ {0} /\ DOMAIN deSfs = 1..Len(deSfs) /\ Head(deSfs) = deSfs[1]
        /\ DOMAIN Tail(deSfs) = 1..Len(deSfs) - 1
    BY <1>1, <1>2, EsSecMenos
  <2>5. Len(deSfs) = 1 /\ aSfs = <<>>
    <3>1. 1 \in DOMAIN deSfs /\ deSfs[1].t = "FORMATEADO"
      BY <2>3, <2>4
    <3>2. QED
      BY <2>2, <3>1 DEF UltimaRta
  <2>6. DOMAIN deSfs' = {} /\ DOMAIN aSfs' = {}
    <3>1. DOMAIN deSfs' = {}
      <4>1. DOMAIN Tail(deSfs) = 1..Len(deSfs) - 1
        BY <2>4
      <4>2. Len(deSfs) - 1 = 0
        BY <2>5
      <4>3. 1..0 = {}
        OBVIOUS
      <4>4. QED
        BY <1>1, <4>1, <4>2, <4>3
    <3>2. DOMAIN aSfs' = {}
      BY <1>6, <2>5
    <3>3. QED
      BY <3>1, <3>2
  <2>7. SinFormato(aSfs', deSfs')
    BY <2>6 DEF SinFormato
  <2>8. QED
    BY <1>1, <1>6, <2>2, <2>3, <2>7, SinFormatoUltimos
<1>10. Movida(aSfs, deSfs, aSfs', deSfs')
  BY <1>1, <1>6 DEF Movida, Pregunta
<1>11. Sanas' => Conservada(aSfs, deSfs, aSfs', deSfs')
  BY <1>1, <1>6, <1>9 DEF Conservada, Pregunta
<1>12. QED
  BY <1>1, <1>2, <1>6, <1>7, <1>8, <1>9, <1>10, <1>11 DEF Aparte, Formatos

LEMMA FormatoSinSfsAparte ==
    ASSUME InvCuentas, FormatoSinSfs
    PROVE  Aparte
<1> DEFINE x == [EstadoVsk EXCEPT !.vsk = "atendiendo"]
<1>1. /\ Aplica(x) /\ (con = "rota" \/ sfs = "muerto")
      /\ UNCHANGED <<sfs, formateado, libres, archivos, ucBuf, deSfs, deDa>>
  BY DEF FormatoSinSfs
<1>2. Formas /\ ucBuf \in Pares
  BY FormasPartes DEF InvCuentas
<1>3. UNCHANGED <<aSfs, culpas, fds, oft, ped>>
  BY <1>1 DEF Aplica, EstadoVsk
<1>4. ~Sanas /\ ~Sanas'
  BY <1>1, <1>3, SanasConexion DEF Sanas
<1>5. Listas' /\ DelDa'
  BY <1>1, <1>2, <1>3, ListasQuietas, DelDaQuieto
<1>6. Movida(aSfs, deSfs, aSfs', deSfs')
  BY <1>1, <1>3 DEF Movida, Pregunta
<1>7. QED
  BY <1>1, <1>2, <1>3, <1>4, <1>5, <1>6 DEF Aparte, Formatos

LEMMA SfsTerminaAparte ==
    ASSUME InvCuentas, SfsTermina
    PROVE  Aparte
<1>1. /\ con # "si"
      /\ UNCHANGED <<formateado, libres, archivos, ucBuf, aSfs, deSfs, culpas, vsk, fds, oft, ped, deDa>>
  BY DEF SfsTermina, varsVsk
<1>2. Formas /\ ~Sanas
  BY <1>1, SanasConexion DEF InvCuentas
<1>3. QED
  BY <1>1, <1>2, ListasQuietas, DelDaQuieto, NadaAparte

LEMMA DaContesta ==
    ASSUME InvCuentas, Da
    PROVE  Aparte
<1> DEFINE m == Head(aDa)
<1>1. UNCHANGED <<sfs, con, formateado, libres, archivos, ucBuf, aSfs, deSfs, culpas, vsk, fds, oft, ped>>
  BY DEF Da, varsSfs
<1>2. Formas /\ DelDa
  BY FormasPartes DEF InvCuentas
<1>3. \/ deDa' = deDa
      \/ \E r : deDa' = Append(deDa, r) /\ r.t \in {"GET", "GET1", "PUT", "CHS"}
  <2> DEFINE R(t, v) == [t |-> t, modo |-> "-", id |-> m.id, s |-> <<>>, v |-> v]
  <2>1. \/ deDa' = deDa
        \/ m.t \in {"GET", "GET1"} /\ deDa' = Append(deDa, R(m.t, [i \in DOMAIN m.s |-> disco[m.s[i]]]))
        \/ deDa' = Append(deDa, R("PUT", <<>>))
        \/ deDa' = Append(deDa, R("CHS", <<>>))
    BY Zenon DEF Da
  <2>2. \A t, v : R(t, v).t = t
    OBVIOUS
  <2> HIDE DEF R, m
  <2>3. ASSUME NEW t \in {"GET", "GET1", "PUT", "CHS"}, NEW v, deDa' = Append(deDa, R(t, v))
        PROVE  \E r : deDa' = Append(deDa, r) /\ r.t \in {"GET", "GET1", "PUT", "CHS"}
    BY <2>2, <2>3
  <2>4. QED
    BY <2>1, <2>3
<1>4. DelDa'
  <2>1. ASSUME NEW r, deDa' = Append(deDa, r), r.t \in {"GET", "GET1", "PUT", "CHS"}
        PROVE  DelDa'
    <3>1. EsSec(deDa') /\ \A j \in DOMAIN deDa' : deDa'[j] = r \/ (j \in DOMAIN deDa /\ deDa'[j] = deDa[j])
      BY <1>2, <2>1, EsSecMas DEF DelDa
    <3>2. QED
      BY <1>2, <2>1, <3>1 DEF DelDa
  <2>2. QED
    BY <1>2, <1>3, <2>1, DelDaQuieto
<1>5. QED
  BY <1>1, <1>2, <1>4, ListasQuietas, SanasConexion, NadaAparte

LEMMA ReiniciaSfsAparte ==
    ASSUME InvCuentas, ReiniciaSfs
    PROVE  Aparte
<1>1. /\ sfs = "muerto" /\ aSfs' = <<>> /\ deSfs' = <<>> /\ ucBuf' = <<Otra, Otra>>
      /\ UNCHANGED <<formateado, libres, archivos, culpas, fds, oft, ped, deDa>>
  BY DEF ReiniciaSfs, SfsArranca
<1>2. Formas
  BY DEF InvCuentas
<1>3. ~Sanas'
  BY <1>1, SanasConexion DEF Sanas
<1>4. Listas' /\ DelDa'
  BY <1>1, <1>2, ListasQuietas, DelDaQuieto
<1>5. Movida(aSfs, deSfs, aSfs', deSfs')
  BY <1>1 DEF Movida
<1>6. QED
  BY <1>1, <1>3, <1>4, <1>5, OtraPar DEF Aparte, Formatos

LEMMA ReiniciaTodoAparte ==
    ASSUME InvCuentas, ReiniciaTodo
    PROVE  Aparte
<1>1. /\ aSfs' = <<>> /\ deSfs' = <<>> /\ ucBuf' = <<Otra, Otra>> /\ sfs' = "atendiendo"
      /\ con' = "si" /\ UNCHANGED <<formateado, libres, archivos>>
      /\ fds' = <<>> /\ oft' = <<>> /\ deDa' = <<>> /\ ped' = [c \in Sockets |-> NoLlamada]
      /\ culpas' = culpas \union (IF EnCurso THEN {"caida"} ELSE {})
  BY DEF ReiniciaTodo, SfsArranca
<1>2. EsSec(<<>>) /\ DOMAIN <<>> = {} /\ Len(<<>>) = 0
  BY ColaVacia
<1>3. Listas'
  <2>1. EsOft(oft')
    BY <1>1, <1>2 DEF EsOft
  <2>2. EsFds(fds', Len(oft'))
    BY <1>1, <1>2 DEF EsFds
  <2>3. EsPed(ped')
    BY <1>1 DEF EsPed, NoLlamada, Llamada
  <2>4. QED
    BY <2>1, <2>2, <2>3 DEF Listas
<1>4. DelDa'
  BY <1>1, <1>2 DEF DelDa
<1>5. Movida(aSfs, deSfs, aSfs', deSfs')
  BY <1>1 DEF Movida
<1>6. Sanas' => Conservada(aSfs, deSfs, aSfs', deSfs')
  BY <1>1 DEF Sanas, EnCurso, Conservada
<1>7. SinFormato(aSfs', deSfs')
  BY <1>1, <1>2 DEF SinFormato
<1>8. Formatos'
  BY <1>1, <1>7, SinFormatoUltimos DEF Formatos
<1>9. QED
  BY <1>1, <1>3, <1>4, <1>5, <1>6, <1>8, OtraPar DEF Aparte

\* A step of a client: only what it asks the VSK changes.
LEMMA LlamaAparte ==
    ASSUME InvCuentas, UNCHANGED SinCliente, EsPed(ped')
    PROVE  Aparte
<1>1. UNCHANGED <<sfs, formateado, libres, archivos, ucBuf, aSfs, deSfs, culpas, vsk, fds, oft, con, deDa>>
  BY DEF SinCliente, varsSfs
<1>2. Formas
  BY DEF InvCuentas
<1>3. Listas'
  BY <1>1, <1>2 DEF Formas, Listas
<1>4. QED
  BY <1>1, <1>2, <1>3, DelDaQuieto, SanasConexion, NadaAparte

LEMMA ClientesAparte ==
    ASSUME InvCuentas, NEW c \in Sockets, Abre(c) \/ Lee(c) \/ Escribe(c) \/ Cierra(c) \/ Corta(c)
    PROVE  Aparte
<1>1. EsPed(ped)
  BY DEF InvCuentas, Formas
<1>2. ASSUME NEW r, NEW t \in Llamadas, NEW id, NEW s, Llama(c, r, Llamada(t, id, s))
      PROVE  EsPed(ped')
  <2>1. ped' = [ped EXCEPT ![c] = Llamada(t, id, s)] /\ Llamada(t, id, s).t = t
    BY <1>2 DEF Llama, Llamada
  <2>2. QED
    BY <1>1, <2>1 DEF EsPed
<1>3. ASSUME NEW est, NEW t \in Llamadas, NEW s, Sigue(c, est, t, s)
      PROVE  UNCHANGED SinCliente /\ EsPed(ped')
  BY <1>2, <1>3 DEF Sigue
<1>4. UNCHANGED SinCliente /\ EsPed(ped')
  <2>1. CASE Abre(c)
    <3>1. PICK modo \in Modos : \E a \in Archivos \union {Nada} :
             Llama(c, [Fuera EXCEPT !.est = IF modo = "L" THEN "listando" ELSE "abriendo",
                                    !.id = cuenta.s + 1, !.modo = modo, !.a = a],
                   Llamada(IF modo = "L" THEN "LIST" ELSE "OPEN", cuenta.s + 1, [modo |-> modo, a |-> a]))
      BY <2>1 DEF Abre
    <3>2. PICK a \in Archivos \union {Nada} :
             Llama(c, [Fuera EXCEPT !.est = IF modo = "L" THEN "listando" ELSE "abriendo",
                                    !.id = cuenta.s + 1, !.modo = modo, !.a = a],
                   Llamada(IF modo = "L" THEN "LIST" ELSE "OPEN", cuenta.s + 1, [modo |-> modo, a |-> a]))
      BY <3>1
    <3>3. (IF modo = "L" THEN "LIST" ELSE "OPEN") \in Llamadas
      BY DEF Llamadas
    <3>4. EsPed(ped')
      BY <1>2, <3>2, <3>3
    <3>5. UNCHANGED SinCliente
      BY <2>1 DEF Abre
    <3>6. QED
      BY <3>4, <3>5
  <2>2. CASE Lee(c)
    BY <1>3, <2>2 DEF Lee, Llamadas
  <2>3. CASE Escribe(c)
    BY <1>3, <2>3 DEF Escribe, Llamadas
  <2>4. CASE Cierra(c)
    BY <1>3, <2>4 DEF Cierra, Llamadas
  <2>5. CASE Corta(c)
    BY <1>1, <2>5 DEF Corta
  <2>6. QED
    BY <2>1, <2>2, <2>3, <2>4, <2>5
<1>5. QED
  BY <1>4, LlamaAparte

-----------------------------------------------------------------------------
(* The steps of the SFS *)

\* A request less.
LEMMA MenosPedidos ==
    ASSUME NEW q, PedidosBien(q), q # <<>>
    PROVE  PedidosBien(Tail(q)) /\ PedidoBien(Head(q))
<1> DEFINE p == Tail(q)
<1>1. /\ EsSec(p) /\ Head(q) = q[1] /\ 1 \in DOMAIN q
      /\ \A j \in DOMAIN p : j + 1 \in DOMAIN q /\ p[j] = q[j + 1]
  BY EsSecMenos DEF PedidosBien
<1> HIDE DEF p
<1>2. PedidosBien(p) /\ PedidoBien(Head(q))
  BY <1>1 DEF PedidosBien
<1>3. QED
  BY <1>2 DEF p

\* An answer more, if it is a pair or not one.
LEMMA MasRtas ==
    ASSUME NEW d, RtasBien(d), NEW r, r.t = "DOS" => r.s \in Pares
    PROVE  RtasBien(Append(d, r))
<1> DEFINE c == Append(d, r)
<1>1. EsSec(c) /\ \A j \in DOMAIN c : c[j] = r \/ (j \in DOMAIN d /\ c[j] = d[j])
  BY EsSecMas DEF RtasBien
<1> HIDE DEF c
<1>2. RtasBien(c)
  BY <1>1 DEF RtasBien
<1>3. QED
  BY <1>2 DEF c

\* What is sent goes to the end.
LEMMA AlFinal ==
    ASSUME NEW d, EsSec(d), NEW r
    PROVE  d \o <<r>> = Append(d, r) /\ d \o <<>> = d
<1> DEFINE S == {d[j] : j \in DOMAIN d} \union {r}
<1>1. d \in Seq(S) /\ r \in S
  BY DEF EsSec
<1> HIDE DEF S
<1>2. QED
  BY <1>1

\* A sector has one owner at most, and what m carries has no other.
UnoConPedido(l, f, d, p, m, s) ==
    /\ UnoSolo(l, f, d, p, s) /\ UnoPar(m, "AGREGAR", s)
    /\ HayPar(m, "AGREGAR", s) =>
         ~HayEn(l, s) /\ ~HayTabla(f, s) /\ ~HayCola(d, "DOS", s) /\ ~HayCola(p, "AGREGAR", s)

LEMMA SacaPedido ==
    ASSUME NEW q, EsSec(q), q # <<>>, NEW l, NEW f, NEW d, NEW s, UnoSolo(l, f, d, q, s),
           NEW p, p = Tail(q) \/ p = <<>>
    PROVE  UnoConPedido(l, f, d, p, Head(q), s)
<1> DEFINE m == Head(q)
<1>1. /\ HayCola(q, "AGREGAR", s) <=> HayCola(Tail(q), "AGREGAR", s) \/ HayPar(m, "AGREGAR", s)
      /\ UnoCola(Tail(q), "AGREGAR", s) /\ UnoPar(m, "AGREGAR", s)
      /\ ~(HayCola(Tail(q), "AGREGAR", s) /\ HayPar(m, "AGREGAR", s))
  BY ColaMenos DEF UnoSolo
<1>2. ~HayCola(<<>>, "AGREGAR", s) /\ UnoCola(<<>>, "AGREGAR", s)
  BY ColaVacia
<1>3. /\ HayCola(p, "AGREGAR", s) => HayCola(q, "AGREGAR", s) /\ ~HayPar(m, "AGREGAR", s)
      /\ UnoCola(p, "AGREGAR", s)
  <2>1. CASE p = Tail(q)
    BY <1>1, <2>1
  <2>2. CASE p = <<>>
    BY <1>2, <2>2
  <2>3. QED
    BY <2>1, <2>2
<1> HIDE DEF m
<1>4. UnoConPedido(l, f, d, p, m, s)
  BY <1>1, <1>3 DEF UnoSolo, UnoConPedido
<1>5. QED
  BY <1>4 DEF m

\* An answer without a pair.
LEMMA ContestaSinPar ==
    ASSUME NEW m, NEW x, Contesta(m, x), NEW d, EsSec(d), NEW s
    PROVE  /\ HayCola(d \o x.rta, "DOS", s) <=> HayCola(d, "DOS", s)
           /\ UnoCola(d, "DOS", s) => UnoCola(d \o x.rta, "DOS", s)
<1>1. CASE x.rta = <<>>
  BY <1>1, AlFinal
<1>2. ASSUME NEW r, x.rta = <<r>>, r.t # "DOS"
      PROVE  /\ HayCola(d \o x.rta, "DOS", s) <=> HayCola(d, "DOS", s)
             /\ UnoCola(d, "DOS", s) => UnoCola(d \o x.rta, "DOS", s)
  <2>1. d \o x.rta = Append(d, r)
    BY <1>2, AlFinal
  <2>2. ~HayPar(r, "DOS", s) /\ UnoPar(r, "DOS", s)
    BY <1>2, NoEsPar
  <2>3. /\ HayCola(Append(d, r), "DOS", s) <=> HayCola(d, "DOS", s)
        /\ UnoCola(d, "DOS", s) => UnoCola(Append(d, r), "DOS", s)
    BY <2>2, ColaMas
  <2>4. QED
    BY <2>1, <2>3
<1>3. x.rta = <<>> \/ \E r : x.rta = <<r>> /\ r.t # "DOS"
  <2>1. ASSUME NEW t, NEW v, x.rta = <<Rta(t, m, v)>>, t # "DOS"
        PROVE  \E r : x.rta = <<r>> /\ r.t # "DOS"
    <3> DEFINE r == Rta(t, m, v)
    <3>1. r.t # "DOS"
      BY <2>1 DEF Rta
    <3>2. x.rta = <<r>>
      BY <2>1
    <3> HIDE DEF r
    <3>3. QED
      BY <3>1, <3>2
  <2>2. QED
    BY <2>1 DEF Contesta
<1>4. QED
  BY <1>1, <1>2, <1>3

\* The five things, one by one: who had a sector and who has it.
LEMMA NoTocaCuentas ==
    ASSUME NEW e, NEW m, NEW x, NoToca(e, m, x), NEW d, EsSec(d), NEW p, NEW s
    PROVE  /\ UnoSolo(e.libres, e.archivos, d, p, s) => UnoSolo(x.libres, x.archivos, d \o x.rta, p, s)
           /\ Alguno(e.libres, e.archivos, d, p, s) => Alguno(x.libres, x.archivos, d \o x.rta, p, s)
<1> DEFINE c == d \o x.rta
<1>1. x.libres = e.libres /\ Contesta(m, x) /\ \A b \in Archivos : x.archivos[b].sec = e.archivos[b].sec
  BY DEF NoToca
<1>2. (HayCola(c, "DOS", s) <=> HayCola(d, "DOS", s)) /\ (UnoCola(d, "DOS", s) => UnoCola(c, "DOS", s))
  BY <1>1, ContestaSinPar
<1>3. (HayTabla(x.archivos, s) <=> HayTabla(e.archivos, s)) /\ (UnoTabla(x.archivos, s) <=> UnoTabla(e.archivos, s))
  BY <1>1, TablaIgual
<1> HIDE DEF c
<1>4. UnoSolo(e.libres, e.archivos, d, p, s) => UnoSolo(x.libres, x.archivos, c, p, s)
  BY <1>1, <1>2, <1>3 DEF UnoSolo
<1>5. Alguno(e.libres, e.archivos, d, p, s) => Alguno(x.libres, x.archivos, c, p, s)
  BY <1>1, <1>2, <1>3 DEF Alguno
<1>6. QED
  BY <1>4, <1>5 DEF c

LEMMA DaDosCuentas ==
    ASSUME NEW e, EsEstado(e), NEW m, NEW x, DaDos(e, m, x), NEW d, EsSec(d), NEW p, NEW s
    PROVE  /\ UnoSolo(e.libres, e.archivos, d, p, s) => UnoSolo(x.libres, x.archivos, d \o x.rta, p, s)
           /\ Alguno(e.libres, e.archivos, d, p, s) => Alguno(x.libres, x.archivos, d \o x.rta, p, s)
<1> DEFINE c == d \o x.rta
           w == <<e.libres[1], e.libres[2]>>
           l == SubSeq(e.libres, 3, Len(e.libres))
           r == Rta("DOS", m, w)
<1>1. x.libres = l /\ x.archivos = e.archivos /\ x.rta = <<r>> /\ e.libres \in Seq(Int) /\ Len(e.libres) >= 2
  BY DEF DaDos, EsEstado
<1>2. w \in Seq(Int) /\ l \in Seq(Int) /\ e.libres = w \o l
  BY <1>1, SinLosDosPrimeros
<1>3. r.t = "DOS" /\ r.s = w
  BY DEF Rta
<1> HIDE DEF w, l, r
<1>4. c = Append(d, r)
  BY <1>1, AlFinal
<1> HIDE DEF c
<1>5. /\ HayEn(e.libres, s) <=> HayEn(w, s) \/ HayEn(l, s)
      /\ UnoEn(e.libres, s) <=> UnoEn(w, s) /\ UnoEn(l, s) /\ ~(HayEn(w, s) /\ HayEn(l, s))
  BY <1>2, Seguidas
<1>6. (HayPar(r, "DOS", s) <=> HayEn(w, s)) /\ (UnoPar(r, "DOS", s) <=> UnoEn(w, s))
  BY <1>3 DEF HayPar, UnoPar
<1>7. /\ HayCola(c, "DOS", s) <=> HayCola(d, "DOS", s) \/ HayPar(r, "DOS", s)
      /\ UnoCola(c, "DOS", s) <=> /\ UnoCola(d, "DOS", s) /\ UnoPar(r, "DOS", s)
                                  /\ ~(HayCola(d, "DOS", s) /\ HayPar(r, "DOS", s))
  BY <1>4, ColaMas
<1>8. UnoSolo(e.libres, e.archivos, d, p, s) => UnoSolo(x.libres, x.archivos, c, p, s)
  BY <1>1, <1>5, <1>6, <1>7 DEF UnoSolo
<1>9. Alguno(e.libres, e.archivos, d, p, s) => Alguno(x.libres, x.archivos, c, p, s)
  BY <1>1, <1>5, <1>6, <1>7 DEF Alguno
<1>10. QED
  BY <1>8, <1>9 DEF c

LEMMA LiberaCuentas ==
    ASSUME NEW e, EsEstado(e), NEW m, NEW x, Libera(e, m, x), NEW d, EsSec(d), NEW p, NEW s
    PROVE  /\ UnoSolo(e.libres, e.archivos, d, p, s) => UnoSolo(x.libres, x.archivos, d \o x.rta, p, s)
           /\ Alguno(e.libres, e.archivos, d, p, s) => Alguno(x.libres, x.archivos, d \o x.rta, p, s)
<1> DEFINE c == d \o x.rta
           a == m.a
           h == e.archivos[a].sec
<1>1. /\ a \in Archivos /\ x.libres = h \o e.libres /\ x.archivos[a].sec = <<>>
      /\ \A b \in Archivos \ {a} : x.archivos[b].sec = e.archivos[b].sec
      /\ Contesta(m, x) /\ e.libres \in Seq(Int) /\ h \in Seq(Int)
  BY DEF Libera, Ajenas, EsEstado, EsTabla
<1>2. (HayCola(c, "DOS", s) <=> HayCola(d, "DOS", s)) /\ (UnoCola(d, "DOS", s) => UnoCola(c, "DOS", s))
  BY <1>1, ContestaSinPar
<1>3. /\ HayTabla(e.archivos, s) <=> HayEn(h, s) \/ HayResto(e.archivos, a, s)
      /\ UnoTabla(e.archivos, s) <=> /\ UnoEn(h, s) /\ UnoResto(e.archivos, a, s)
                                     /\ ~(HayEn(h, s) /\ HayResto(e.archivos, a, s))
  BY <1>1, TablaDeUno
<1>4. /\ HayTabla(x.archivos, s) <=> HayEn(<<>>, s) \/ HayResto(x.archivos, a, s)
      /\ UnoTabla(x.archivos, s) <=> /\ UnoEn(<<>>, s) /\ UnoResto(x.archivos, a, s)
                                     /\ ~(HayEn(<<>>, s) /\ HayResto(x.archivos, a, s))
  BY <1>1, TablaDeUno
<1>5. ~HayEn(<<>>, s) /\ UnoEn(<<>>, s)
  BY DEF HayEn, UnoEn
<1> HIDE DEF a, h, c
<1>6. /\ HayResto(x.archivos, a, s) <=> HayResto(e.archivos, a, s)
      /\ UnoResto(x.archivos, a, s) <=> UnoResto(e.archivos, a, s)
  BY <1>1, RestoIgual
<1>7. /\ HayEn(x.libres, s) <=> HayEn(h, s) \/ HayEn(e.libres, s)
      /\ UnoEn(x.libres, s) <=> UnoEn(h, s) /\ UnoEn(e.libres, s) /\ ~(HayEn(h, s) /\ HayEn(e.libres, s))
  BY <1>1, Seguidas
<1>8. UnoSolo(e.libres, e.archivos, d, p, s) => UnoSolo(x.libres, x.archivos, c, p, s)
  BY <1>2, <1>3, <1>4, <1>5, <1>6, <1>7 DEF UnoSolo
<1>9. Alguno(e.libres, e.archivos, d, p, s) => Alguno(x.libres, x.archivos, c, p, s)
  BY <1>2, <1>3, <1>4, <1>5, <1>6, <1>7 DEF Alguno
<1>10. QED
  BY <1>8, <1>9 DEF c

LEMMA AgregaCuentas ==
    ASSUME NEW e, EsEstado(e), NEW m, PedidoBien(m), NEW x, Agrega(e, m, x), NEW d, EsSec(d), NEW p, NEW s
    PROVE  /\ UnoConPedido(e.libres, e.archivos, d, p, m, s) => UnoSolo(x.libres, x.archivos, d \o x.rta, p, s)
           /\ Alguno(e.libres, e.archivos, d, p, s) \/ HayPar(m, "AGREGAR", s)
                => Alguno(x.libres, x.archivos, d \o x.rta, p, s)
<1> DEFINE c == d \o x.rta
           a == m.a
           h == e.archivos[a].sec
<1>1. /\ a \in Archivos /\ x.libres = e.libres /\ x.archivos[a].sec = h \o m.s
      /\ \A b \in Archivos \ {a} : x.archivos[b].sec = e.archivos[b].sec
      /\ x.rta = <<>> /\ h \in Seq(Int) /\ m.t = "AGREGAR"
  BY DEF Agrega, Ajenas, EsEstado, EsTabla
<1>2. m.s \in Seq(Int)
  BY <1>1 DEF PedidoBien, Pares
<1>3. c = d
  BY <1>1, AlFinal
<1>4. /\ HayTabla(e.archivos, s) <=> HayEn(h, s) \/ HayResto(e.archivos, a, s)
      /\ UnoTabla(e.archivos, s) <=> /\ UnoEn(h, s) /\ UnoResto(e.archivos, a, s)
                                     /\ ~(HayEn(h, s) /\ HayResto(e.archivos, a, s))
  BY <1>1, TablaDeUno
<1>5. /\ HayTabla(x.archivos, s) <=> HayEn(h \o m.s, s) \/ HayResto(x.archivos, a, s)
      /\ UnoTabla(x.archivos, s) <=> /\ UnoEn(h \o m.s, s) /\ UnoResto(x.archivos, a, s)
                                     /\ ~(HayEn(h \o m.s, s) /\ HayResto(x.archivos, a, s))
  BY <1>1, TablaDeUno, ZenonT(40)
<1> HIDE DEF a, h, c
<1>6. /\ HayResto(x.archivos, a, s) <=> HayResto(e.archivos, a, s)
      /\ UnoResto(x.archivos, a, s) <=> UnoResto(e.archivos, a, s)
  BY <1>1, RestoIgual
<1>7. /\ HayEn(h \o m.s, s) <=> HayEn(h, s) \/ HayEn(m.s, s)
      /\ UnoEn(h \o m.s, s) <=> UnoEn(h, s) /\ UnoEn(m.s, s) /\ ~(HayEn(h, s) /\ HayEn(m.s, s))
  BY <1>1, <1>2, Seguidas
<1>8. (HayPar(m, "AGREGAR", s) <=> HayEn(m.s, s)) /\ (UnoPar(m, "AGREGAR", s) <=> UnoEn(m.s, s))
  BY <1>1 DEF HayPar, UnoPar
<1>9. UnoConPedido(e.libres, e.archivos, d, p, m, s) => UnoSolo(x.libres, x.archivos, c, p, s)
  BY <1>1, <1>3, <1>4, <1>5, <1>6, <1>7, <1>8 DEF UnoSolo, UnoConPedido
<1>10. Alguno(e.libres, e.archivos, d, p, s) \/ HayPar(m, "AGREGAR", s) => Alguno(x.libres, x.archivos, c, p, s)
  BY <1>1, <1>3, <1>4, <1>5, <1>6, <1>7, <1>8 DEF Alguno
<1>11. QED
  BY <1>9, <1>10 DEF c

LEMMA ListaDeTodos ==
    ASSUME NEW s \in Sectores
    PROVE  HayEn([k \in 1..NumSectores |-> k - 1], s) /\ UnoEn([k \in 1..NumSectores |-> k - 1], s)
<1> DEFINE l == [k \in 1..NumSectores |-> k - 1]
<1>1. NumSectores \in Nat \ {0} /\ s \in 0..NumSectores - 1
  BY SfsAssumption DEF Sectores
<1>2. DOMAIN l = 1..NumSectores /\ \A k \in 1..NumSectores : l[k] = k - 1
  OBVIOUS
<1>3. s + 1 \in 1..NumSectores /\ (s + 1) - 1 = s
  BY <1>1
<1> HIDE DEF l
<1>4. HayEn(l, s)
  BY <1>2, <1>3 DEF HayEn
<1>5. UnoEn(l, s)
  BY <1>1, <1>2 DEF UnoEn
<1>6. QED
  BY <1>4, <1>5 DEF l

LEMMA SinSectoresNadie ==
    ASSUME NEW l, NEW f, NEW d, NEW p, SinSectores(l, f, d, p), NEW s
    PROVE  ~HayEn(l, s) /\ ~HayTabla(f, s) /\ ~HayCola(d, "DOS", s) /\ ~HayCola(p, "AGREGAR", s)
           /\ UnoTabla(f, s) /\ UnoCola(d, "DOS", s) /\ UnoCola(p, "AGREGAR", s)
BY DEF SinSectores, HayEn, HayTabla, HayCola, HayPar, UnoTabla, UnoEn, UnoCola, UnoPar

LEMMA FormateaCuentas ==
    ASSUME NEW e, NEW m, NEW x, Formatea(e, m, x), NEW d, EsSec(d), NEW p, NEW s \in Sectores
    PROVE  /\ SinSectores(e.libres, e.archivos, d, p) => UnoSolo(x.libres, x.archivos, d \o x.rta, p, s)
           /\ Alguno(x.libres, x.archivos, d \o x.rta, p, s)
<1> DEFINE c == d \o x.rta
<1>1. x.libres = [k \in 1..NumSectores |-> k - 1] /\ x.archivos = e.archivos /\ Contesta(m, x)
  BY DEF Formatea
<1>2. HayEn(x.libres, s) /\ UnoEn(x.libres, s)
  BY <1>1, ListaDeTodos
<1>3. (HayCola(c, "DOS", s) <=> HayCola(d, "DOS", s)) /\ (UnoCola(d, "DOS", s) => UnoCola(c, "DOS", s))
  BY <1>1, ContestaSinPar
<1> HIDE DEF c
<1>4. ASSUME SinSectores(e.libres, e.archivos, d, p) PROVE UnoSolo(x.libres, x.archivos, c, p, s)
  BY <1>1, <1>2, <1>3, <1>4, SinSectoresNadie DEF UnoSolo
<1>5. Alguno(x.libres, x.archivos, c, p, s)
  BY <1>2 DEF Alguno
<1>6. QED
  BY <1>4, <1>5 DEF c

\* What the SFS finds, and what it leaves.
LEMMA EstadoSfsEs ==
    ASSUME Formas
    PROVE  /\ EsEstado(Estado) /\ Estado.libres = libres /\ Estado.archivos = archivos
           /\ Estado.formateado = formateado /\ Estado.culpas = culpas /\ Estado.rta = <<>>
           /\ Estado.fin = "sigue"
BY DEF Formas, EsEstado, CamposSfs, Estado

\* A request is taken from the queue, or all of them are if the process ends.
Deja(x) ==
    /\ formateado' = x.formateado /\ libres' = x.libres /\ archivos' = x.archivos
    /\ ucBuf' = x.ucBuf /\ deSfs' = deSfs \o x.rta
    /\ \/ x.fin = "muere" /\ aSfs' = <<>> /\ "caida" \in culpas'
       \/ x.fin # "muere" /\ sfs' = sfs /\ aSfs' = Tail(aSfs)
    /\ \A c \in x.culpas : c \in culpas'

LEMMA SfsDeja ==
    ASSUME Formas, SfsAtiende
    PROVE  /\ aSfs # <<>>
           /\ \E x : Hecho(Estado, Head(aSfs), x) /\ Deja(x)
<1> DEFINE m == Head(aSfs)
           e == Estado
<1>1. aSfs # <<>>
  BY DEF SfsAtiende
<1>2. PICK x \in Atender(e, m) :
         /\ formateado' = x.formateado /\ libres' = x.libres /\ archivos' = x.archivos
         /\ sesionSfs' = x.sesion /\ ucBuf' = x.ucBuf /\ nombreInfo' = x.nombre
         /\ deSfs' = deSfs \o x.rta
         /\ IF x.fin = "muere"
              THEN /\ sfs' = "muerto" /\ aSfs' = <<>>
                   /\ culpas' = x.culpas \union {"caida"}
              ELSE sfs' = sfs /\ aSfs' = Tail(aSfs) /\ culpas' = x.culpas
  BY DEF SfsAtiende
<1>3. PedidoBien(m)
  BY <1>1, FormasPartes, MenosPedidos
<1>4. EsEstado(e) /\ e.rta = <<>> /\ e.fin = "sigue"
  BY EstadoSfsEs
<1> HIDE DEF e, m
<1>5. Hecho(e, m, x)
  BY <1>3, <1>4, AtenderHecho
<1>6. Deja(x)
  BY <1>2 DEF Deja
<1>7. QED
  BY <1>1, <1>5, <1>6 DEF e, m

\* What a handler leaves has the forms it found.
LEMMA SfsFormas ==
    ASSUME Formas, aSfs # <<>>, NEW x, Hecho(Estado, Head(aSfs), x), Deja(x), UNCHANGED varsVsk
    PROVE  Formas'
<1> DEFINE m == Head(aSfs)
<1>1. EsEstado(x) /\ Unas(m, x)
  BY DEF Hecho
<1>2. PedidosBien(aSfs) /\ RtasBien(deSfs) /\ EsSec(deSfs) /\ Listas /\ DelDa
  BY FormasPartes
<1> HIDE DEF m
<1>3. PedidosBien(aSfs')
  <2>1. aSfs' = <<>> \/ aSfs' = Tail(aSfs)
    BY DEF Deja
  <2>2. PedidosBien(<<>>)
    BY ColaVacia DEF PedidosBien
  <2>3. QED
    BY <1>2, <2>1, <2>2, MenosPedidos
<1>4. RtasBien(deSfs')
  <2>1. deSfs' = deSfs \o x.rta
    BY DEF Deja
  <2>2. CASE x.rta = <<>>
    BY <1>2, <2>1, <2>2, AlFinal
  <2>3. ASSUME NEW t, NEW s, x.rta = <<Rta(t, m, s)>>, t = "DOS" => s \in Pares PROVE RtasBien(deSfs')
    <3> DEFINE r == Rta(t, m, s)
    <3>1. r.t = "DOS" => r.s \in Pares
      BY <2>3 DEF Rta
    <3>2. x.rta = <<r>>
      BY <2>3
    <3> HIDE DEF r
    <3>3. deSfs' = Append(deSfs, r)
      BY <1>2, <2>1, <3>2, AlFinal
    <3>4. QED
      BY <1>2, <3>1, <3>3, MasRtas
  <2>4. QED
    BY <1>1, <2>2, <2>3 DEF Unas
<1>5. libres' \in Seq(Int) /\ ucBuf' \in Pares /\ EsTabla(archivos')
  BY <1>1 DEF Deja, EsEstado
<1>6. Listas' /\ DelDa'
  BY <1>2 DEF Listas, DelDa, varsVsk
<1>7. QED
  BY <1>3, <1>4, <1>5, <1>6 DEF Formas, PedidosBien, RtasBien, Listas, DelDa

\* What is said of a handler whose process is not to blame for a loss of owner.
LEMMA SfsCuentas ==
    ASSUME Formas, aSfs # <<>>, NEW x, Hecho(Estado, Head(aSfs), x), Deja(x)
    PROVE  /\ \A c \in culpas : c \in culpas'
           /\ Limpias' => /\ Limpias /\ Cuentas(Estado, Head(aSfs), x)
                          /\ NoToca(Estado, Head(aSfs), x) => PorAlgo(Head(aSfs), x)
<1>1. Estado.culpas = culpas
  BY EstadoSfsEs
<1>2. \A c \in culpas : c \in culpas'
  BY <1>1 DEF Hecho, Recuerda, Deja
<1>3. Limpias' => Limpias /\ Limpio(x)
  BY <1>2 DEF Deja, Limpias, Limpio
<1>4. QED
  BY <1>2, <1>3 DEF Hecho

LEMMA SfsSinFormatear ==
    ASSUME InvCuentas, aSfs # <<>>, NEW x, Hecho(Estado, Head(aSfs), x), Deja(x),
           Limpias', ~formateado'
    PROVE  SinSectores(libres', archivos', deSfs', aSfs')
<1> DEFINE m == Head(aSfs)
           e == Estado
<1>1. Formas /\ PedidosBien(aSfs) /\ EsSec(aSfs) /\ EsSec(deSfs)
  BY FormasPartes DEF InvCuentas
<1>2. Limpias /\ Cuentas(e, m, x)
  BY <1>1, SfsCuentas
<1>3. e.libres = libres /\ e.archivos = archivos /\ e.formateado = formateado /\ EsEstado(e)
  BY <1>1, EstadoSfsEs
<1>4. /\ libres' = x.libres /\ archivos' = x.archivos /\ formateado' = x.formateado
      /\ deSfs' = deSfs \o x.rta /\ (aSfs' = <<>> \/ aSfs' = Tail(aSfs))
  BY DEF Deja
<1>5. Head(aSfs) = aSfs[1] /\ 1 \in DOMAIN aSfs
      /\ \A j \in DOMAIN Tail(aSfs) : j + 1 \in DOMAIN aSfs /\ Tail(aSfs)[j] = aSfs[j + 1]
  BY <1>1, EsSecMenos
<1>6. m = aSfs[1]
  BY <1>5
<1> HIDE DEF e, m
<1>7. ~Formatea(e, m, x)
  BY <1>4, Zenon DEF Formatea
<1>8. x.formateado = e.formateado
  BY <1>2, <1>7, Zenon DEF Cuentas, NoToca, DaDos, Libera, Agrega
<1>9. ~formateado
  BY <1>3, <1>4, <1>8, Zenon
<1>10. SinSectores(libres, archivos, deSfs, aSfs)
  BY <1>2, <1>9, Zenon DEF InvCuentas, SinFormatear
<1>11. \A j \in DOMAIN aSfs' : aSfs'[j].t # "AGREGAR"
  <2>1. CASE aSfs' = <<>>
    BY <2>1
  <2>2. CASE aSfs' = Tail(aSfs)
    BY <1>5, <1>10, <2>2 DEF SinSectores
  <2>3. QED
    BY <1>4, <2>1, <2>2
<1>12. ~Agrega(e, m, x)
  BY <1>5, <1>6, <1>10 DEF Agrega, SinSectores
<1>13. ~DaDos(e, m, x)
  BY <1>3, <1>10 DEF DaDos, SinSectores
<1>14. ASSUME Contesta(m, x) PROVE \A j \in DOMAIN deSfs' : deSfs'[j].t # "DOS"
  <2>1. CASE x.rta = <<>>
    BY <1>1, <1>4, <1>10, <2>1, AlFinal DEF SinSectores
  <2>2. ASSUME NEW t, NEW v, x.rta = <<Rta(t, m, v)>>, t # "DOS"
        PROVE  \A j \in DOMAIN deSfs' : deSfs'[j].t # "DOS"
    <3> DEFINE r == Rta(t, m, v)
    <3>1. r.t # "DOS"
      BY <2>2 DEF Rta
    <3>2. x.rta = <<r>>
      BY <2>2
    <3> HIDE DEF r
    <3>3. deSfs' = Append(deSfs, r)
      BY <1>1, <1>4, <3>2, AlFinal
    <3>4. \A j \in DOMAIN Append(deSfs, r) : Append(deSfs, r)[j] = r
                                             \/ (j \in DOMAIN deSfs /\ Append(deSfs, r)[j] = deSfs[j])
      BY <1>1, EsSecMas
    <3>5. \A j \in DOMAIN deSfs' : deSfs'[j] = r \/ (j \in DOMAIN deSfs /\ deSfs'[j] = deSfs[j])
      BY <3>3, <3>4
    <3>6. QED
      BY <1>10, <3>1, <3>5 DEF SinSectores
  <2>3. QED
    BY <1>14, <2>1, <2>2 DEF Contesta
<1>15. CASE NoToca(e, m, x)
  <2>1. libres' = <<>> /\ \A b \in Archivos : archivos'[b].sec = <<>>
    BY <1>3, <1>4, <1>10, <1>15 DEF NoToca, SinSectores
  <2>2. Contesta(m, x)
    BY <1>15 DEF NoToca
  <2>3. QED
    BY <1>11, <1>14, <2>1, <2>2 DEF SinSectores
<1>16. CASE Libera(e, m, x)
  <2>1. x.libres = e.archivos[m.a].sec \o e.libres /\ m.a \in Archivos /\ Contesta(m, x)
        /\ x.archivos[m.a].sec = <<>>
        /\ \A b \in Archivos \ {m.a} : x.archivos[b].sec = e.archivos[b].sec
    BY <1>16 DEF Libera, Ajenas
  <2>2. e.archivos[m.a].sec = <<>> /\ e.libres = <<>>
    BY <1>3, <1>10, <2>1 DEF SinSectores
  <2>3. libres' = <<>>
    BY <1>4, <2>1, <2>2
  <2>4. \A b \in Archivos : archivos'[b].sec = <<>>
    BY <1>3, <1>4, <1>10, <2>1 DEF SinSectores
  <2>5. QED
    BY <1>11, <1>14, <2>1, <2>3, <2>4 DEF SinSectores
<1>17. QED
  BY <1>2, <1>7, <1>12, <1>13, <1>15, <1>16 DEF Cuentas

LEMMA SfsDuenios ==
    ASSUME InvCuentas, aSfs # <<>>, NEW x, Hecho(Estado, Head(aSfs), x), Deja(x),
           Limpias', NEW s \in Sectores
    PROVE  UnoSolo(libres', archivos', deSfs', aSfs', s)
<1> DEFINE m == Head(aSfs)
           e == Estado
           q == aSfs'
           c == deSfs \o x.rta
<1>1. Formas /\ PedidosBien(aSfs) /\ EsSec(aSfs) /\ EsSec(deSfs)
  BY FormasPartes DEF InvCuentas
<1>2. Limpias /\ Cuentas(e, m, x)
  BY <1>1, SfsCuentas
<1>3. e.libres = libres /\ e.archivos = archivos /\ e.formateado = formateado /\ EsEstado(e)
  BY <1>1, EstadoSfsEs
<1>4. /\ libres' = x.libres /\ archivos' = x.archivos
      /\ deSfs' = c /\ (q = <<>> \/ q = Tail(aSfs))
  BY DEF Deja
<1>5. PedidoBien(m)
  BY <1>1, MenosPedidos
<1>6. UnoSolo(libres, archivos, deSfs, aSfs, s)
  BY <1>2 DEF InvCuentas, Duenios
<1>7. UnoConPedido(libres, archivos, deSfs, q, m, s)
  BY <1>1, <1>4, <1>6, SacaPedido
<1>8. UnoSolo(libres, archivos, deSfs, q, s)
  BY <1>7 DEF UnoConPedido
<1> HIDE DEF e, m, q
<1>9. UnoSolo(x.libres, x.archivos, c, q, s)
  <2>1. CASE NoToca(e, m, x)
    BY <1>1, <1>3, <1>8, <2>1, NoTocaCuentas
  <2>2. CASE DaDos(e, m, x)
    BY <1>1, <1>3, <1>8, <2>2, DaDosCuentas
  <2>3. CASE Libera(e, m, x)
    BY <1>1, <1>3, <1>8, <2>3, LiberaCuentas
  <2>4. CASE Agrega(e, m, x)
    BY <1>1, <1>3, <1>5, <1>7, <2>4, AgregaCuentas
  <2>5. CASE Formatea(e, m, x)
    <3>1. ~formateado
      BY <1>3, <2>5, Zenon DEF Formatea
    <3>2. SinSectores(libres, archivos, deSfs, aSfs)
      BY <1>2, <3>1, Zenon DEF InvCuentas, SinFormatear
    <3>3. \A j \in DOMAIN Tail(aSfs) : Tail(aSfs)[j].t # "AGREGAR"
      BY <1>1, <3>2, EsSecMenos DEF SinSectores
    <3>4. \A j \in DOMAIN q : q[j].t # "AGREGAR"
      BY <1>4, <3>3
    <3>5. SinSectores(libres, archivos, deSfs, q)
      BY <3>2, <3>4 DEF SinSectores
    <3>6. QED
      BY <1>1, <1>3, <2>5, <3>5, FormateaCuentas
  <2>6. QED
    BY <1>2, <2>1, <2>2, <2>3, <2>4, <2>5 DEF Cuentas
<1>10. QED
  BY <1>4, <1>9 DEF q

LEMMA SfsCubiertos ==
    ASSUME InvCuentas, aSfs # <<>>, NEW x, Hecho(Estado, Head(aSfs), x), Deja(x),
           Justas', formateado' = TRUE, NEW s \in Sectores
    PROVE  Alguno(libres', archivos', deSfs', aSfs', s)
<1> DEFINE m == Head(aSfs)
           e == Estado
           q == Tail(aSfs)
           c == deSfs \o x.rta
<1>1. Formas /\ PedidosBien(aSfs) /\ EsSec(aSfs) /\ EsSec(deSfs)
  BY FormasPartes DEF InvCuentas
<1>2. Limpias'
  BY DEF Justas, Limpias
<1>3. /\ Cuentas(e, m, x) /\ (NoToca(e, m, x) => PorAlgo(m, x))
      /\ \A f \in culpas : f \in culpas'
  BY <1>1, <1>2, SfsCuentas
<1>4. Justas
  BY <1>3 DEF Justas
<1>5. e.libres = libres /\ e.archivos = archivos /\ e.formateado = formateado /\ EsEstado(e)
  BY <1>1, EstadoSfsEs
<1>6. "caida" \notin culpas' /\ "agregar" \notin culpas' /\ "sin archivo" \notin culpas'
  BY DEF Justas
<1>7. /\ libres' = x.libres /\ archivos' = x.archivos /\ formateado' = x.formateado
      /\ deSfs' = c /\ aSfs' = q /\ x.fin # "muere"
      /\ "agregar" \notin x.culpas /\ "sin archivo" \notin x.culpas
  BY <1>6 DEF Deja
<1>8. NoToca(e, m, x) => m.t # "AGREGAR"
  BY <1>3, <1>7 DEF PorAlgo
<1>9. PedidoBien(m)
  BY <1>1, MenosPedidos
<1>10. HayCola(aSfs, "AGREGAR", s) <=> HayCola(q, "AGREGAR", s) \/ HayPar(m, "AGREGAR", s)
  BY <1>1, ColaMenos
<1> HIDE DEF e, m, q
<1>11. ASSUME formateado
       PROVE  Alguno(libres, archivos, deSfs, q, s) \/ HayPar(m, "AGREGAR", s)
  <2>1. Alguno(libres, archivos, deSfs, aSfs, s)
    BY <1>4, <1>11 DEF InvCuentas, Cubiertos
  <2>2. QED
    BY <1>10, <2>1 DEF Alguno
<1>12. Alguno(x.libres, x.archivos, c, q, s)
  <2>1. ASSUME NoToca(e, m, x) \/ DaDos(e, m, x) \/ Libera(e, m, x) \/ Agrega(e, m, x)
        PROVE  Alguno(libres, archivos, deSfs, q, s) \/ HayPar(m, "AGREGAR", s)
    <3>1. x.formateado = e.formateado
      BY <2>1, Zenon DEF NoToca, DaDos, Libera, Agrega
    <3>2. formateado = TRUE
      BY <1>5, <1>7, <3>1, Zenon
    <3>3. formateado
      BY <3>2, Zenon
    <3>4. QED
      BY <1>11, <3>3, Zenon
  <2>2. CASE NoToca(e, m, x)
    <3>1. ~HayPar(m, "AGREGAR", s)
      BY <1>8, <2>2, NoEsPar
    <3>2. Alguno(libres, archivos, deSfs, q, s)
      BY <2>1, <2>2, <3>1
    <3>3. QED
      BY <1>1, <1>5, <2>2, <3>2, NoTocaCuentas
  <2>3. CASE DaDos(e, m, x)
    <3>1. ~HayPar(m, "AGREGAR", s)
      BY <2>3, NoEsPar DEF DaDos
    <3>2. Alguno(libres, archivos, deSfs, q, s)
      BY <2>1, <2>3, <3>1
    <3>3. QED
      BY <1>1, <1>5, <2>3, <3>2, DaDosCuentas
  <2>4. CASE Libera(e, m, x)
    <3>1. ~HayPar(m, "AGREGAR", s)
      BY <2>4, NoEsPar DEF Libera
    <3>2. Alguno(libres, archivos, deSfs, q, s)
      BY <2>1, <2>4, <3>1
    <3>3. QED
      BY <1>1, <1>5, <2>4, <3>2, LiberaCuentas
  <2>5. CASE Agrega(e, m, x)
    BY <1>1, <1>5, <1>9, <2>1, <2>5, AgregaCuentas
  <2>6. CASE Formatea(e, m, x)
    BY <1>1, <2>6, FormateaCuentas
  <2>7. QED
    BY <1>3, <2>2, <2>3, <2>4, <2>5, <2>6 DEF Cuentas
<1>13. QED
  BY <1>7, <1>12

LEMMA SinNadie ==
    ASSUME NEW q, EsSec(q), Len(q) = 0
    PROVE  q = <<>>
<1> DEFINE S == {q[i] : i \in DOMAIN q}
<1>1. q \in Seq(S)
  BY DEF EsSec
<1> HIDE DEF S
<1>2. QED
  BY <1>1

LEMMA SfsFormatos ==
    ASSUME InvCuentas, aSfs # <<>>, NEW x, Hecho(Estado, Head(aSfs), x), Deja(x), UNCHANGED varsVsk
    PROVE  Formatos'
<1> DEFINE m == Head(aSfs)
           e == Estado
           q == Tail(aSfs)
           c == deSfs \o x.rta
<1>1. Formas /\ EsSec(aSfs) /\ EsSec(deSfs)
  BY FormasPartes DEF InvCuentas
<1>2. SUFFICES ASSUME Sanas'
               PROVE  /\ con' = "si" /\ sfs' = "atendiendo" /\ UltimoPedido(aSfs', deSfs', vsk')
                      /\ UltimaRta(aSfs', deSfs', vsk')
  BY DEF Formatos
<1>3. Sanas
  BY <1>1, <1>2, SfsCuentas, CulpasCrecen
<1>4. con = "si" /\ sfs = "atendiendo" /\ UltimoPedido(aSfs, deSfs, vsk) /\ UltimaRta(aSfs, deSfs, vsk)
  BY <1>3 DEF InvCuentas, Formatos
<1>5. aSfs' = q /\ deSfs' = c /\ sfs' = sfs /\ con' = con /\ vsk' = vsk
  BY <1>2 DEF Deja, Sanas, varsVsk
<1>6. /\ Len(aSfs) \in Nat \ {0} /\ Len(q) = Len(aSfs) - 1 /\ EsSec(q)
      /\ DOMAIN aSfs = 1..Len(aSfs) /\ DOMAIN q = 1..Len(aSfs) - 1 /\ m = aSfs[1]
      /\ \A j \in DOMAIN q : j + 1 \in DOMAIN aSfs /\ q[j] = aSfs[j + 1]
  BY <1>1, EsSecMenos
<1>7. 1 \in DOMAIN aSfs /\ m = aSfs[1]
  BY <1>6
<1>8. Unas(m, x)
  BY DEF Hecho
<1> DEFINE Ultima(i) == i = Len(c) /\ (c[i].t = "FORMATEADO" => m.t = "FORMATEAR")
           Nuevas == \A i \in DOMAIN c : (i \in DOMAIN deSfs /\ c[i] = deSfs[i]) \/ Ultima(i)
<1>9. Nuevas
  <2>1. CASE x.rta = <<>>
    BY <1>1, <2>1, AlFinal
  <2>2. ASSUME NEW r, x.rta = <<r>>, r.t = "FORMATEADO" => m.t = "FORMATEAR"
        PROVE Nuevas
    <3>1. c = Append(deSfs, r)
      BY <1>1, <2>2, AlFinal
    <3> HIDE DEF c, m
    <3>2. /\ EsSec(c) /\ Len(c) = Len(deSfs) + 1 /\ c[Len(deSfs) + 1] = r
          /\ \A j \in DOMAIN deSfs : c[j] = deSfs[j]
          /\ \A j \in DOMAIN c : j \in DOMAIN deSfs \/ j = Len(deSfs) + 1
      BY <1>1, <3>1, EsSecMas
    <3>3. ASSUME NEW i \in DOMAIN c, i \notin DOMAIN deSfs PROVE Ultima(i)
      BY <2>2, <3>2, <3>3
    <3>4. QED
      BY <3>2, <3>3
  <2> HIDE DEF c, m
  <2>3. ASSUME NEW t, NEW v, x.rta = <<Rta(t, m, v)>>, t = "FORMATEADO" => m.t = "FORMATEAR"
        PROVE  \E r : x.rta = <<r>> /\ (r.t = "FORMATEADO" => m.t = "FORMATEAR")
    <3> DEFINE r == Rta(t, m, v)
    <3>1. r.t = "FORMATEADO" => m.t = "FORMATEAR"
      BY <2>3 DEF Rta
    <3>2. x.rta = <<r>>
      BY <2>3
    <3> HIDE DEF r
    <3>3. QED
      BY <3>1, <3>2
  <2>4. QED
    BY <1>8, <2>1, <2>2, <2>3 DEF Unas
<1> HIDE DEF m, q, c
<1>20. Len(aSfs) \in Nat \ {0} /\ Len(q) = Len(aSfs) - 1
  BY <1>6
<1>10. m.t = "FORMATEAR" => vsk = "espera formato" /\ Len(aSfs) = 1
  BY <1>4, <1>7 DEF UltimoPedido
<1>11. UltimoPedido(q, c, vsk)
  <2> SUFFICES ASSUME NEW j \in DOMAIN q, q[j].t = "FORMATEAR"
               PROVE  vsk = "espera formato" /\ j = Len(q) /\ \A i \in DOMAIN c : c[i].t # "FORMATEADO"
    BY DEF UltimoPedido
  <2>1. j + 1 \in DOMAIN aSfs /\ aSfs[j + 1].t = "FORMATEAR"
    BY <1>6
  <2>2. vsk = "espera formato" /\ j + 1 = Len(aSfs) /\ \A i \in DOMAIN deSfs : deSfs[i].t # "FORMATEADO"
    BY <1>4, <2>1 DEF UltimoPedido
  <2>3. j = Len(q) /\ m.t # "FORMATEAR"
    <3>1. j \in 1..Len(aSfs) - 1
      BY <1>6
    <3>2. QED
      <4> DEFINE n == Len(aSfs)
                 k == Len(q)
      <4>1. n \in Nat \ {0} /\ k = n - 1 /\ j + 1 = n /\ j \in 1..n - 1
        BY <1>20, <2>2, <3>1
      <4> HIDE DEF n, k
      <4>2. j = k /\ n # 1
        BY <4>1
      <4>3. QED
        BY <1>10, <4>2 DEF n, k
  <2>4. QED
    BY <1>9, <2>2, <2>3
<1>12. UltimaRta(q, c, vsk)
  <2> SUFFICES ASSUME NEW j \in DOMAIN c, c[j].t = "FORMATEADO"
               PROVE  vsk = "espera formato" /\ j = Len(c) /\ q = <<>>
    BY DEF UltimaRta
  <2>1. ~(j \in DOMAIN deSfs /\ c[j] = deSfs[j])
    <3> SUFFICES ASSUME j \in DOMAIN deSfs, deSfs[j].t = "FORMATEADO" PROVE FALSE
      OBVIOUS
    <3>1. aSfs = <<>>
      BY <1>4 DEF UltimaRta
    <3>2. QED
      BY <3>1
  <2>2. j = Len(c) /\ m.t = "FORMATEAR"
    BY <1>9, <2>1
  <2>3. Len(q) = 0 /\ vsk = "espera formato"
    <3>1. Len(aSfs) = 1 /\ vsk = "espera formato"
      BY <1>10, <2>2
    <3> DEFINE n == Len(aSfs)
               k == Len(q)
    <3>2. k = n - 1 /\ n = 1
      BY <1>20, <3>1
    <3> HIDE DEF n, k
    <3>3. k = 0
      BY <3>2
    <3>4. QED
      BY <3>1, <3>3 DEF k
  <2>4. q = <<>>
    BY <1>6, <2>3, SinNadie
  <2>5. QED
    BY <2>2, <2>3, <2>4
<1>13. QED
  BY <1>4, <1>5, <1>11, <1>12

LEMMA SfsConserva ==
    ASSUME InvCuentas, Sfs
    PROVE  InvCuentas'
<1>1. Formas /\ SfsAtiende /\ UNCHANGED varsVsk
  BY DEF InvCuentas, Sfs
<1>2. aSfs # <<>> /\ \E x : Hecho(Estado, Head(aSfs), x) /\ Deja(x)
  BY <1>1, SfsDeja
<1>3. PICK x : Hecho(Estado, Head(aSfs), x) /\ Deja(x)
  BY <1>2
<1>4. Formas'
  BY <1>1, <1>2, <1>3, SfsFormas
<1>5. SinFormatear'
  <2>1. ASSUME Limpias', ~formateado' PROVE SinSectores(libres', archivos', deSfs', aSfs')
    BY <1>2, <1>3, <2>1, SfsSinFormatear
  <2>2. QED
    BY <2>1, Zenon DEF SinFormatear
<1>6. Duenios'
  <2>1. ASSUME Limpias', NEW s \in Sectores PROVE UnoSolo(libres', archivos', deSfs', aSfs', s)
    BY <1>2, <1>3, <2>1, SfsDuenios
  <2>2. QED
    BY <2>1 DEF Duenios, Sectores
<1>7. Cubiertos'
  <2>1. ASSUME formateado', Justas', NEW s \in Sectores PROVE Alguno(libres', archivos', deSfs', aSfs', s)
    <3>1. formateado' = TRUE
      BY <2>1
    <3>2. QED
      BY <1>2, <1>3, <2>1, <3>1, SfsCubiertos
  <2>2. QED
    BY <2>1 DEF Cubiertos, Sectores
<1>8. Formatos'
  BY <1>1, <1>2, <1>3, SfsFormatos
<1>9. QED
  BY <1>4, <1>5, <1>6, <1>7, <1>8 DEF InvCuentas

-----------------------------------------------------------------------------
(* The theorems *)

LEMMA InitCuentas ==
    ASSUME Init
    PROVE  InvCuentas
<1> DEFINE todos == [k \in 1..NumSectores |-> k - 1]
<1>1. /\ sfs = "atendiendo" /\ formateado = Formateado0 /\ archivos = [a \in Archivos |-> NoHay]
      /\ libres = (IF Formateado0 THEN todos ELSE <<>>)
      /\ ucBuf = <<Otra, Otra>> /\ aSfs = <<>> /\ deSfs = <<>> /\ deDa = <<>>
      /\ fds = <<>> /\ oft = <<>> /\ con = "si" /\ ped = [c \in Sockets |-> NoLlamada]
  BY DEF Init, InitSfs
<1>2. EsSec(<<>>) /\ DOMAIN <<>> = {} /\ Len(<<>>) = 0
  BY ColaVacia
<1>3. todos \in Seq(Int)
  BY SfsAssumption
<1> HIDE DEF todos
<1>4. \A a \in Archivos : archivos[a].sec = <<>> /\ DOMAIN archivos[a] = {"sec", "tam"}
  BY <1>1 DEF NoHay
<1>5. Formas
  <2>1. libres \in Seq(Int) /\ ucBuf \in Pares
    BY <1>1, <1>3, OtraPar
  <2>2. EsTabla(archivos)
    <3>1. <<>> \in Seq(Int)
      OBVIOUS
    <3>2. DOMAIN archivos = Archivos
      BY <1>1
    <3>3. QED
      BY <1>4, <3>1, <3>2 DEF EsTabla
  <2>3. EsOft(oft) /\ EsFds(fds, Len(oft))
    BY <1>1, <1>2 DEF EsOft, EsFds
  <2>4. EsPed(ped)
    BY <1>1 DEF EsPed, NoLlamada, Llamada
  <2>5. QED
    BY <1>1, <1>2, <2>1, <2>2, <2>3, <2>4 DEF Formas
<1>6. ASSUME libres = <<>> PROVE SinSectores(libres, archivos, deSfs, aSfs)
  BY <1>1, <1>2, <1>4, <1>6 DEF SinSectores
<1>7. SinFormatear
  <2>1. ASSUME ~formateado PROVE libres = <<>>
    BY <1>1, <2>1, Zenon
  <2>2. QED
    BY <1>6, <2>1, Zenon DEF SinFormatear
<1>8. ASSUME NEW s PROVE ~HayTabla(archivos, s) /\ UnoTabla(archivos, s)
  BY <1>4 DEF HayTabla, UnoTabla, HayEn, UnoEn
<1>9. ASSUME NEW s
      PROVE  /\ ~HayCola(deSfs, "DOS", s) /\ ~HayCola(aSfs, "AGREGAR", s)
             /\ UnoCola(deSfs, "DOS", s) /\ UnoCola(aSfs, "AGREGAR", s)
  BY <1>1, ColaVacia
<1>10. ASSUME NEW s \in Sectores
       PROVE  UnoEn(libres, s) /\ (formateado => HayEn(libres, s))
  <2>1. HayEn(todos, s) /\ UnoEn(todos, s)
    BY ListaDeTodos DEF todos
  <2>2. UnoEn(<<>>, s)
    BY DEF UnoEn
  <2>3. CASE Formateado0
    BY <1>1, <2>1, <2>3, Zenon
  <2>4. CASE ~Formateado0
    BY <1>1, <2>2, <2>4, Zenon
  <2>5. QED
    BY <2>3, <2>4
<1>11. Duenios
  BY <1>8, <1>9, <1>10 DEF Duenios, UnoSolo
<1>12. Cubiertos
  BY <1>10, Zenon DEF Cubiertos, Alguno
<1>13. Formatos
  <2>1. SinFormato(aSfs, deSfs)
    BY <1>1, <1>2 DEF SinFormato
  <2>2. QED
    BY <1>1, <2>1, SinFormatoUltimos DEF Formatos
<1>14. QED
  BY <1>5, <1>7, <1>11, <1>12, <1>13 DEF InvCuentas

LEMMA QuietoConserva ==
    ASSUME InvCuentas, UNCHANGED vars
    PROVE  InvCuentas'
BY DEF vars, varsSfs, varsVsk, InvCuentas, Formas, SinFormatear, Duenios, Cubiertos, Formatos,
       Limpias, Justas, Sanas

LEMMA NextConserva ==
    ASSUME InvCuentas, [Next]_vars
    PROVE  InvCuentas'
<1>1. CASE \E c \in Sockets : VskCliente(c)
  BY <1>1, ClienteAparte, AparteConserva
<1>2. CASE VskSfs
  BY <1>2, VskSfsAparte, AparteConserva
<1>3. CASE VskDa
  BY <1>3, DaAparte, AparteConserva
<1>4. CASE \E c \in Sockets : VskPierdeCliente(c)
  BY <1>4, PierdeClienteAparte, AparteConserva
<1>5. CASE VskPierdeSfs
  BY <1>5, PierdeSfsAparte, AparteConserva
<1>6. CASE Consola
  BY <1>6, ConsolaAparte, AparteConserva
<1>7. CASE FormatoChs
  BY <1>7, FormatoChsAparte, AparteConserva
<1>8. CASE FormatoVuelta
  BY <1>8, FormatoVueltaAparte, AparteConserva
<1>9. CASE FormatoSinSfs
  BY <1>9, FormatoSinSfsAparte, AparteConserva
<1>10. CASE Sfs
  BY <1>10, SfsConserva
<1>11. CASE SfsTermina
  BY <1>11, SfsTerminaAparte, AparteConserva
<1>12. CASE Da
  BY <1>12, DaContesta, AparteConserva
<1>13. CASE ReiniciaSfs
  BY <1>13, ReiniciaSfsAparte, AparteConserva
<1>14. CASE ReiniciaTodo
  BY <1>14, ReiniciaTodoAparte, AparteConserva
<1>15. CASE \E c \in Sockets : Abre(c) \/ Lee(c) \/ Escribe(c) \/ Cierra(c) \/ Corta(c)
  BY <1>15, ClientesAparte, AparteConserva
<1>16. CASE UNCHANGED vars
  BY <1>16, QuietoConserva
<1>17. QED
  BY <1>1, <1>2, <1>3, <1>4, <1>5, <1>6, <1>7, <1>8, <1>9, <1>10, <1>11, <1>12, <1>13, <1>14,
     <1>15, <1>16 DEF Next, VskAtiende

\* The accounts of the sectors are kept by every step of the VSK, the SFS, the DA,
\* the clients, the console and the operator who starts them.
THEOREM CuentasSiempre == Spec => []InvCuentas
<1>1. Init => InvCuentas
  BY InitCuentas
<1>2. InvCuentas /\ [Next]_vars => InvCuentas'
  BY NextConserva
<1>3. QED
  BY <1>1, <1>2, PTL DEF Spec

\* A place of a sector, said case by case.
EnLibres(x, s)  == \E k \in DOMAIN libres : libres[k] = s /\ x = <<"libre", k>>
EnArchivo(x, s) == \E a \in Archivos : \E k \in DOMAIN archivos[a].sec :
                      archivos[a].sec[k] = s /\ x = <<"archivo", a, k>>
EnDa(x, s)      == \E j \in DOMAIN deSfs : /\ deSfs[j].t = "DOS"
                                           /\ \E k \in DOMAIN deSfs[j].s : deSfs[j].s[k] = s /\ x = <<"da", j, k>>
EnAgrega(x, s)  == \E j \in DOMAIN aSfs : /\ aSfs[j].t = "AGREGAR"
                                          /\ \E k \in DOMAIN aSfs[j].s : aSfs[j].s[k] = s /\ x = <<"agrega", j, k>>

LEMMA LugarEs ==
    ASSUME NEW s, NEW x
    PROVE  x \in Lugares(s) <=> EnLibres(x, s) \/ EnArchivo(x, s) \/ EnDa(x, s) \/ EnAgrega(x, s)
<1>1. x \in Libre(s) <=> EnLibres(x, s)
  BY DEF Libre, EnLibres
<1>2. x \in DeArchivo(s) <=> EnArchivo(x, s)
  BY DEF DeArchivo, EnArchivo
<1>3. x \in Dado(s) <=> EnDa(x, s)
  BY DEF Dado, EnDa
<1>4. x \in PorAgregar(s) <=> EnAgrega(x, s)
  BY DEF PorAgregar, EnAgrega
<1>5. QED
  BY <1>1, <1>2, <1>3, <1>4 DEF Lugares

LEMMA LugaresHay ==
    ASSUME NEW s
    PROVE  /\ \A x : EnLibres(x, s) => HayEn(libres, s)
           /\ \A x : EnArchivo(x, s) => HayTabla(archivos, s)
           /\ \A x : EnDa(x, s) => HayCola(deSfs, "DOS", s)
           /\ \A x : EnAgrega(x, s) => HayCola(aSfs, "AGREGAR", s)
BY DEF EnLibres, EnArchivo, EnDa, EnAgrega, HayEn, HayTabla, HayCola, HayPar

LEMMA UnSoloLugar ==
    ASSUME NEW s, UnoSolo(libres, archivos, deSfs, aSfs, s),
           NEW x \in Lugares(s), NEW y \in Lugares(s)
    PROVE  x = y
<1>1. ASSUME EnLibres(x, s), EnLibres(y, s) PROVE x = y
  BY <1>1 DEF EnLibres, UnoSolo, UnoEn
<1>2. ASSUME EnArchivo(x, s), EnArchivo(y, s) PROVE x = y
  <2>1. PICK a \in Archivos : \E k \in DOMAIN archivos[a].sec :
                      archivos[a].sec[k] = s /\ x = <<"archivo", a, k>>
    BY <1>2 DEF EnArchivo
  <2>2. PICK b \in Archivos : \E k \in DOMAIN archivos[b].sec :
                      archivos[b].sec[k] = s /\ y = <<"archivo", b, k>>
    BY <1>2 DEF EnArchivo
  <2>3. a = b
    BY <2>1, <2>2 DEF UnoSolo, UnoTabla, HayEn
  <2>4. UnoEn(archivos[a].sec, s)
    BY DEF UnoSolo, UnoTabla
  <2>5. QED
    BY <2>1, <2>2, <2>3, <2>4 DEF UnoEn
<1>3. ASSUME NEW d, NEW t, NEW n, UnoCola(d, t, s),
             NEW j \in DOMAIN d, d[j].t = t, NEW k \in DOMAIN d[j].s, d[j].s[k] = s,
             NEW i \in DOMAIN d, d[i].t = t, NEW h \in DOMAIN d[i].s, d[i].s[h] = s
      PROVE  j = i /\ k = h
  <2>1. HayPar(d[j], t, s) /\ HayPar(d[i], t, s)
    BY <1>3 DEF HayPar, HayEn
  <2>2. j = i /\ UnoEn(d[j].s, s)
    BY <1>3, <2>1 DEF UnoCola, UnoPar
  <2>3. QED
    BY <1>3, <2>2 DEF UnoEn
<1>4. UnoCola(deSfs, "DOS", s) /\ UnoCola(aSfs, "AGREGAR", s)
  BY DEF UnoSolo
<1>5. ASSUME EnDa(x, s), EnDa(y, s) PROVE x = y
  BY <1>3, <1>4, <1>5 DEF EnDa
<1>6. ASSUME EnAgrega(x, s), EnAgrega(y, s) PROVE x = y
  BY <1>3, <1>4, <1>6 DEF EnAgrega
<1>7. /\ EnLibres(x, s) \/ EnArchivo(x, s) \/ EnDa(x, s) \/ EnAgrega(x, s)
      /\ EnLibres(y, s) \/ EnArchivo(y, s) \/ EnDa(y, s) \/ EnAgrega(y, s)
  BY LugarEs
<1>8. QED
  BY <1>1, <1>2, <1>5, <1>6, <1>7, LugaresHay DEF UnoSolo

LEMMA CuentasDuenio ==
    ASSUME InvCuentas
    PROVE  UnDuenio
<1> SUFFICES ASSUME culpas \intersect QuitanDuenio = {}, NEW s \in Sectores
             PROVE  Cardinality(Lugares(s)) <= 1
  BY DEF UnDuenio
<1>1. UnoSolo(libres, archivos, deSfs, aSfs, s)
  BY DEF InvCuentas, Duenios, Limpias
<1>2. CASE Lugares(s) = {}
  BY <1>2, FS_EmptySet
<1>3. CASE Lugares(s) # {}
  <2>1. PICK x : x \in Lugares(s)
    BY <1>3
  <2>2. Lugares(s) = {x}
    BY <1>1, <2>1, UnSoloLugar
  <2>3. QED
    BY <2>2, FS_Singleton
<1>4. QED
  BY <1>2, <1>3

LEMMA CuentasNadaSePierde ==
    ASSUME InvCuentas
    PROVE  NadaSePierde
<1> SUFFICES ASSUME formateado, Justas, NEW s \in Sectores
             PROVE  Lugares(s) # {}
  BY DEF NadaSePierde, Justas
<1>1. Alguno(libres, archivos, deSfs, aSfs, s)
  BY Zenon DEF InvCuentas, Cubiertos
<1>2. \E x : EnLibres(x, s) \/ EnArchivo(x, s) \/ EnDa(x, s) \/ EnAgrega(x, s)
  BY <1>1 DEF Alguno, HayEn, HayTabla, HayCola, HayPar, EnLibres, EnArchivo, EnDa, EnAgrega
<1>3. QED
  BY <1>2, LugarEs

\* Whatever the clients, LDAP and the build do, no sector is in two places: not in two
\* files, not free and in a file, not given twice (Linux/Sfs/main.c, the list of free
\* sectors that one request takes from and another puts back).
THEOREM UnDuenioSiempre == Spec => []UnDuenio
<1>1. InvCuentas => UnDuenio
  BY CuentasDuenio
<1>2. QED
  BY <1>1, CuentasSiempre, PTL

\* And, if nothing that loses a sector happened, every sector of a formatted DA is
\* somewhere: free, in a file, or on its way between the SFS and the VSK.
THEOREM NadaSePierdeNunca == Spec => []NadaSePierde
<1>1. InvCuentas => NadaSePierde
  BY CuentasNadaSePierde
<1>2. QED
  BY <1>1, CuentasSiempre, PTL

-----------------------------------------------------------------------------
(* Whose a message is *)

\* The DescriptorID by which a message is answered.  The requests to add sectors and
\* to format have no answer that a client waits for, and count as those of nobody; the
\* CHS of a format are a sender apart, -1.
Quien(m) == CASE m.t \in {"AGREGAR", "FORMATEAR", "FORMATEADO"} -> 0
              [] m.t = "CHS" -> -1
              [] OTHER -> m.id

\* A queue has a message of id, of type t, or one at most.
HayDe(q, id) == \E j \in DOMAIN q : Quien(q[j]) = id
UnoDe(q, id) == \A i, j \in DOMAIN q : Quien(q[i]) = id /\ Quien(q[j]) = id => i = j
HayTipo(q, t, id) == \E j \in DOMAIN q : Quien(q[j]) = id /\ q[j].t = t

\* Of the four queues: p and d those of the SFS, a and r those of the DA.
Viaja(p, d, a, r, id) == HayDe(p, id) \/ HayDe(d, id) \/ HayDe(a, id) \/ HayDe(r, id)
UnoViaja(p, d, a, r, id) ==
    /\ UnoDe(p, id) /\ UnoDe(d, id) /\ UnoDe(a, id) /\ UnoDe(r, id)
    /\ HayDe(p, id) => ~HayDe(d, id) /\ ~HayDe(a, id) /\ ~HayDe(r, id)
    /\ HayDe(d, id) => ~HayDe(a, id) /\ ~HayDe(r, id)
    /\ HayDe(a, id) => ~HayDe(r, id)

LEMMA MasDe ==
    ASSUME NEW q, EsSec(q), NEW m, NEW id
    PROVE  /\ HayDe(Append(q, m), id) <=> HayDe(q, id) \/ Quien(m) = id
           /\ UnoDe(Append(q, m), id) <=> UnoDe(q, id) /\ ~(HayDe(q, id) /\ Quien(m) = id)
           /\ \A t : HayTipo(Append(q, m), t, id) <=> HayTipo(q, t, id) \/ (Quien(m) = id /\ m.t = t)
<1> DEFINE c == Append(q, m)
           l == Len(q)
<1>1. /\ l \in Nat /\ DOMAIN q = 1..l /\ DOMAIN c = 1..l + 1 /\ c[l + 1] = m
      /\ \A j \in DOMAIN q : j \in DOMAIN c /\ c[j] = q[j]
      /\ \A j \in DOMAIN c : j \in DOMAIN q \/ j = l + 1
  BY EsSecMas
<1> HIDE DEF c, l
<1>2. HayDe(c, id) <=> HayDe(q, id) \/ Quien(m) = id
  BY <1>1 DEF HayDe
<1>3. UnoDe(c, id) <=> UnoDe(q, id) /\ ~(HayDe(q, id) /\ Quien(m) = id)
  BY <1>1 DEF UnoDe, HayDe
<1>4. ASSUME NEW t PROVE HayTipo(c, t, id) <=> HayTipo(q, t, id) \/ (Quien(m) = id /\ m.t = t)
  BY <1>1 DEF HayTipo
<1>5. QED
  BY <1>2, <1>3, <1>4 DEF c

LEMMA MenosDe ==
    ASSUME NEW q, EsSec(q), q # <<>>, NEW id
    PROVE  /\ HayDe(q, id) <=> HayDe(Tail(q), id) \/ Quien(Head(q)) = id
           /\ UnoDe(q, id) => UnoDe(Tail(q), id) /\ ~(HayDe(Tail(q), id) /\ Quien(Head(q)) = id)
           /\ \A t : HayTipo(q, t, id) <=> HayTipo(Tail(q), t, id) \/ (Quien(Head(q)) = id /\ Head(q).t = t)
<1> DEFINE c == Tail(q)
           l == Len(q)
           h == Head(q)
<1>1. /\ l \in Nat \ {0} /\ DOMAIN q = 1..l /\ DOMAIN c = 1..l - 1 /\ h = q[1]
      /\ \A j \in DOMAIN c : j + 1 \in DOMAIN q /\ c[j] = q[j + 1]
      /\ \A j \in DOMAIN q : j = 1 \/ (j - 1 \in DOMAIN c /\ c[j - 1] = q[j])
  BY EsSecMenos
<1> HIDE DEF c, l, h
<1>2. HayDe(q, id) <=> HayDe(c, id) \/ Quien(h) = id
  BY <1>1 DEF HayDe
<1>3. ASSUME UnoDe(q, id) PROVE UnoDe(c, id)
  <2>1. ASSUME NEW i \in DOMAIN c, NEW j \in DOMAIN c, Quien(c[i]) = id, Quien(c[j]) = id PROVE i = j
    <3>1. i + 1 = j + 1
      BY <1>1, <1>3, <2>1 DEF UnoDe
    <3>2. QED
      BY <1>1, <3>1
  <2>2. QED
    BY <2>1 DEF UnoDe
<1>4. ASSUME UnoDe(q, id), HayDe(c, id), Quien(h) = id PROVE FALSE
  <2>1. PICK j \in DOMAIN c : Quien(c[j]) = id
    BY <1>4 DEF HayDe
  <2>2. j + 1 = 1
    BY <1>1, <1>4, <2>1 DEF UnoDe
  <2>3. QED
    BY <1>1, <2>2
<1>5. ASSUME NEW t PROVE HayTipo(q, t, id) <=> HayTipo(c, t, id) \/ (Quien(h) = id /\ h.t = t)
  BY <1>1 DEF HayTipo
<1>6. QED
  BY <1>2, <1>3, <1>4, <1>5 DEF c, h

LEMMA NingunoDe ==
    ASSUME NEW id
    PROVE  ~HayDe(<<>>, id) /\ UnoDe(<<>>, id) /\ \A t : ~HayTipo(<<>>, t, id)
BY DEF HayDe, UnoDe, HayTipo

-----------------------------------------------------------------------------
(* Sessions and their descriptors *)

\* What a descriptor and a client are records of.
CamposFd == {"id", "sock", "sys", "oft", "paso", "pos", "tot", "a", "s"}
CamposCl == {"est", "id", "modo", "a", "n", "leido"}

\* The call a client that waits is in.
SysDe(est) == CASE est = "abriendo" -> "OPEN"
                [] est = "listando" -> "LIST"
                [] est = "leyendo" -> "READ"
                [] est = "escribiendo" -> "WRITE"
                [] est \in {"cerrando", "cerrando nada"} -> "CLOSE"
                [] OTHER -> Nada

\* The states of a client, and those in which its descriptor has no open file.
Ests == Esperando \union {"fuera", "cerrando nada", "abierto", "leido", "fallido"}
SinArchivo == {"abriendo", "listando", "fallido", "cerrando nada"}

\* The descriptor k is the one of the session id of the socket c, and the first of it.
SuFd(f, k, c, id) == /\ k \in DOMAIN f /\ f[k].sock = c /\ f[k].id = id
                     /\ \A j \in DOMAIN f : f[j].sock = c => k <= j

\* A session with a descriptor, and one that the VSK has not seen.
Abierta(r, m, f, c) ==
    \E k \in DOMAIN f : /\ SuFd(f, k, c, r.id)
                        /\ r.est \in SinArchivo => f[k].oft = 0
                        /\ m.t = Nada /\ r.est \in Esperando => f[k].sys = SysDe(r.est)
PorAbrir(r, m, f) == m.id = r.id /\ \A k \in DOMAIN f : f[k].id # r.id

\* What is known of the client of a socket: out of the VSK it asks nothing; in it, its
\* session has an identifier of its own, and a descriptor, or the request that makes it.
Sesion(cs, ps, f, n, c) ==
    /\ cs[c].est \in Ests
    /\ cs[c].est = "fuera" => ps[c].t = Nada
    /\ cs[c].est # "fuera" =>
         /\ cs[c].id \in 1..n
         /\ \A b \in Sockets : cs[b].est # "fuera" /\ cs[b].id = cs[c].id => b = c
         /\ ps[c].t # Nada => ps[c].t = SysDe(cs[c].est) /\ ps[c].id \in {0, cs[c].id}
         /\ IF ps[c].t \in {"OPEN", "LIST"} THEN PorAbrir(cs[c], ps[c], f)
            ELSE Abierta(cs[c], ps[c], f, c)

\* The identifiers of the descriptors are of sessions there were, each of one.
Sesiones(cs, ps, f, n) ==
    /\ \A k \in DOMAIN f : f[k].id \in 1..n
    /\ \A j, k \in DOMAIN f : f[j].id = f[k].id => j = k
    /\ \A c \in Sockets : Sesion(cs, ps, f, n, c)

\* Messages are those of clients that wait, one of each.
Aguarda(cs, ps, id, c) == cs[c].est \in Esperando /\ cs[c].id = id /\ ps[c].t = Nada
DeAlguien(cs, ps, p, d, id) ==
    \E c \in Sockets : /\ Aguarda(cs, ps, id, c)
                       /\ HayTipo(p, "DOS", id) \/ HayTipo(d, "ERROR", id) => cs[c].est = "escribiendo"
Mensajes(v, cs, ps, p, d, a, r) ==
    \A id : id # 0 =>
        /\ UnoViaja(p, d, a, r, id)
        /\ Viaja(p, d, a, r, id) => IF id = -1 THEN v = "espera CHS" ELSE DeAlguien(cs, ps, p, d, id)

\* The shapes of what these formulas read.
EsFichas(f) == EsSec(f) /\ \A k \in DOMAIN f : DOMAIN f[k] = CamposFd /\ f[k].sock \in Sockets
EsClientes(cs) == DOMAIN cs = Sockets /\ \A c \in Sockets : DOMAIN cs[c] = CamposCl
EsSes(e) == EsVsk(e) /\ EsFichas(e.fds) /\ EsClientes(e.cl) /\ EsSec(e.aDa)

\* The descriptors but for what they remember of a call, and for the file of k.
MismosFds(f, g, k) ==
    /\ EsFichas(g) /\ DOMAIN g = DOMAIN f
    /\ \A j \in DOMAIN f : /\ g[j].id = f[j].id /\ g[j].sock = f[j].sock /\ g[j].sys = f[j].sys
                           /\ j # k => g[j].oft = f[j].oft

\* A step that sends nothing and says nothing to a client: it leaves the descriptors
\* as they were, or but for what a call remembers.
Ileso(e, x) ==
    /\ EsVsk(x) /\ Recuerda(e, x) /\ x.cl = e.cl /\ x.ped = e.ped /\ x.ajena = e.ajena
    /\ x.aSfs = e.aSfs /\ x.aDa = e.aDa /\ x.fds = e.fds
Manso(e, x, k) ==
    /\ EsVsk(x) /\ Recuerda(e, x) /\ x.cl = e.cl /\ x.ped = e.ped /\ x.ajena = e.ajena
    /\ x.aSfs = e.aSfs /\ x.aDa = e.aDa /\ MismosFds(e.fds, x.fds, k)

LEMMA IlesoManso ==
    ASSUME NEW e, EsSes(e), NEW x, Ileso(e, x), NEW k
    PROVE  Manso(e, x, k) /\ EsSes(x)
BY DEF Ileso, Manso, EsSes, MismosFds

LEMMA IlesoIleso ==
    ASSUME NEW e, NEW y, Ileso(e, y), NEW x, Ileso(y, x)
    PROVE  Ileso(e, x)
BY DEF Ileso, Recuerda

LEMMA MansoManso ==
    ASSUME NEW e, NEW y, NEW k, Manso(e, y, k), NEW x, Manso(y, x, k)
    PROVE  Manso(e, x, k)
<1>1. MismosFds(e.fds, x.fds, k)
  BY DEF Manso, MismosFds
<1>2. Recuerda(e, x)
  BY DEF Manso, Recuerda
<1>3. QED
  BY <1>1, <1>2 DEF Manso

LEMMA MansoEs ==
    ASSUME NEW e, EsSes(e), NEW k, NEW x, Manso(e, x, k)
    PROVE  EsSes(x) /\ DOMAIN x.fds = DOMAIN e.fds
BY DEF Manso, EsSes, MismosFds

LEMMA MansoMas ==
    ASSUME NEW e, NEW k, NEW x, Manso(e, x, 0)
    PROVE  0 \notin DOMAIN e.fds => Manso(e, x, k)
BY DEF Manso, MismosFds

\* What a step that does not touch the sessions is: the fields it leaves.
LEMMA IgualIleso ==
    ASSUME NEW e, NEW x, Igual(e, x), x.cl = e.cl, x.ped = e.ped, x.ajena = e.ajena,
           x.aDa = e.aDa, x.fds = e.fds
    PROVE  Ileso(e, x)
BY DEF Igual, Ileso

LEMMA MismoIleso ==
    ASSUME NEW e, EsVsk(e)
    PROVE  Ileso(e, e)
BY DEF Ileso, Recuerda

LEMMA FinIleso ==
    ASSUME NEW e, EsVsk(e), NEW v
    PROVE  Ileso(e, Fin(e, v)) /\ Fin(e, v).vsk = v
BY DEF Fin, Ileso, EsVsk, Campos, Recuerda

LEMMA UsaArchivoIleso ==
    ASSUME NEW e, EsVsk(e), NEW k, NEW x \in UsaArchivo(e, k)
    PROVE  x = e \/ (Ileso(e, x) /\ x.vsk = "muerta")
BY UsaArchivoIgual, FinIleso

LEMMA BuscaSfsIleso ==
    ASSUME NEW e, EsVsk(e)
    PROVE  Ileso(e, BuscaSfs(e))
<1>1. BuscaSfs(e) = Fin(e, "muerta") \/ BuscaSfs(e) = [e EXCEPT !.aux = "SFS"]
  BY DEF BuscaSfs
<1>2. CASE BuscaSfs(e) = [e EXCEPT !.aux = "SFS"]
  BY <1>2 DEF Ileso, EsVsk, Campos, Recuerda
<1>3. QED
  BY <1>1, <1>2, FinIleso

LEMMA QuitarOftIleso ==
    ASSUME NEW e, EsVsk(e), NEW guarda, NEW x \in QuitarOft(e, guarda)
    PROVE  Ileso(e, x)
<1>1. /\ x.cl = e.cl /\ x.ped = e.ped /\ x.ajena = e.ajena /\ x.aDa = e.aDa /\ x.fds = e.fds
  BY DEF QuitarOft, PuedeMorir, Fin, EsVsk, Campos
<1>2. QED
  BY <1>1, QuitarOftIgual, IgualIleso

LEMMA GuardarIleso ==
    ASSUME NEW e, EsVsk(e), NEW s, NEW v, NEW x \in GuardarEnCache(e, s, v)
    PROVE  Ileso(e, x)
<1>1. /\ x.cl = e.cl /\ x.ped = e.ped /\ x.ajena = e.ajena /\ x.aDa = e.aDa /\ x.fds = e.fds
  BY DEF GuardarEnCache, CargarCache, PisarVictima, PuedeMorir, Fin, EsVsk, Campos
<1>2. QED
  BY <1>1, GuardarIgual, IgualIleso

LEMMA InvalidarIleso ==
    ASSUME NEW e, EsVsk(e), NEW ss, NEW x \in Invalidar(e, ss)
    PROVE  Ileso(e, x)
<1>1. /\ x.cl = e.cl /\ x.ped = e.ped /\ x.ajena = e.ajena /\ x.aDa = e.aDa /\ x.fds = e.fds
  BY DEF Invalidar, PuedeMorir, Fin, EsVsk, Campos
<1>2. QED
  BY <1>1, InvalidarIgual, IgualIleso

\* A change of what a descriptor remembers of its call, and one of a file.
LEMMA RozaFd ==
    ASSUME NEW e, EsSes(e), NEW k \in DOMAIN e.fds, NEW g, DOMAIN g = CamposFd,
           g.id = e.fds[k].id, g.sock = e.fds[k].sock, g.sys = e.fds[k].sys, g.oft = e.fds[k].oft,
           NEW x, x = [e EXCEPT !.fds[k] = g]
    PROVE  Manso(e, x, 0)
<1>1. /\ DOMAIN e = Campos /\ EsFichas(e.fds) /\ e.fds[k].sys \in Llamadas
      /\ e.fds[k].sock \in Sockets
  BY DEF EsSes, EsVsk, EsFds, EsFichas
<1>2. Igual(e, x)
  BY <1>1, CambiaFdIgual DEF EsSes, CamposFd
<1>3. /\ x.cl = e.cl /\ x.ped = e.ped /\ x.ajena = e.ajena /\ x.aDa = e.aDa
      /\ x.fds = [e.fds EXCEPT ![k] = g]
  BY <1>1 DEF Campos
<1>4. EsSec(x.fds) /\ DOMAIN x.fds = DOMAIN e.fds
  BY <1>1, <1>3, CambiaSec, SMTT(30) DEF EsFichas
<1>5. \A j \in DOMAIN e.fds : x.fds[j] = IF j = k THEN g ELSE e.fds[j]
  BY <1>1, <1>3
<1>6. MismosFds(e.fds, x.fds, 0)
  BY <1>1, <1>4, <1>5 DEF MismosFds, EsFichas
<1>7. QED
  BY <1>2, <1>3, <1>6 DEF Igual, Manso

LEMMA RozaPaso ==
    ASSUME NEW e, EsSes(e), NEW k \in DOMAIN e.fds, NEW p, NEW x,
           \/ x = [e EXCEPT !.fds[k].pos = p]
           \/ x = [e EXCEPT !.fds[k].s = p]
           \/ x = [e EXCEPT !.fds[k].paso = p]
    PROVE  Manso(e, x, 0) /\ EsSes(x) /\ k \in DOMAIN x.fds
<1>1. DOMAIN e.fds[k] = CamposFd
  BY DEF EsSes, EsFichas
<1>2. CASE x = [e EXCEPT !.fds[k].pos = p]
  <2> DEFINE g == [e.fds[k] EXCEPT !.pos = p]
  <2>1. DOMAIN g = CamposFd /\ g.id = e.fds[k].id /\ g.sock = e.fds[k].sock /\ g.sys = e.fds[k].sys
        /\ g.oft = e.fds[k].oft
    BY <1>1 DEF CamposFd
  <2>2. x = [e EXCEPT !.fds[k] = g]
    BY <1>2
  <2> HIDE DEF g
  <2>3. QED
    BY <2>1, <2>2, RozaFd, MansoEs
<1>3. CASE x = [e EXCEPT !.fds[k].s = p]
  <2> DEFINE g == [e.fds[k] EXCEPT !.s = p]
  <2>1. DOMAIN g = CamposFd /\ g.id = e.fds[k].id /\ g.sock = e.fds[k].sock /\ g.sys = e.fds[k].sys
        /\ g.oft = e.fds[k].oft
    BY <1>1 DEF CamposFd
  <2>2. x = [e EXCEPT !.fds[k] = g]
    BY <1>3
  <2> HIDE DEF g
  <2>3. QED
    BY <2>1, <2>2, RozaFd, MansoEs
<1>4. CASE x = [e EXCEPT !.fds[k].paso = p]
  <2> DEFINE g == [e.fds[k] EXCEPT !.paso = p]
  <2>1. DOMAIN g = CamposFd /\ g.id = e.fds[k].id /\ g.sock = e.fds[k].sock /\ g.sys = e.fds[k].sys
        /\ g.oft = e.fds[k].oft
    BY <1>1 DEF CamposFd
  <2>2. x = [e EXCEPT !.fds[k] = g]
    BY <1>4
  <2> HIDE DEF g
  <2>3. QED
    BY <2>1, <2>2, RozaFd, MansoEs
<1>5. QED
  BY <1>2, <1>3, <1>4

LEMMA RozaOft ==
    ASSUME NEW e, EsSes(e), NEW n, NEW b, NEW x,
           x = [e EXCEPT !.oft[n].buf = b] \/ x = [e EXCEPT !.oft[n].tam = b]
    PROVE  Ileso(e, x) /\ EsSes(x)
<1>1. EsVsk(e) /\ DOMAIN e = Campos
  BY DEF EsSes, EsVsk
<1>2. Igual(e, x) /\ x.fds = e.fds
  BY <1>1, CambiaBuf
<1>3. \E o : x = [e EXCEPT !.oft = o]
  OBVIOUS
<1>4. /\ x.cl = e.cl /\ x.ped = e.ped /\ x.ajena = e.ajena /\ x.aDa = e.aDa
  BY <1>1, <1>3 DEF Campos
<1>5. QED
  BY <1>2, <1>4, IgualIleso, IlesoManso

\* An "open" that succeeds: the descriptor gets its file.
LEMMA MeterOftManso ==
    ASSUME NEW e, EsSes(e), NEW k \in DOMAIN e.fds, NEW modo \in {"W", "R", "D"}, NEW sec,
           NEW x \in MeterOft(e, k, modo, sec)
    PROVE  Manso(e, x, k)
<1>1. PICK o, n : x = [e EXCEPT !.oft = o, !.cab = n, !.fds[k].oft = n, !.fds[k].tot = Len(sec)]
  BY DEF MeterOft
<1> DEFINE g == [e.fds[k] EXCEPT !.oft = n, !.tot = Len(sec)]
<1>2. EsVsk(e) /\ DOMAIN e = Campos /\ EsFichas(e.fds) /\ DOMAIN e.fds[k] = CamposFd
      /\ e.fds[k].sock \in Sockets
  BY DEF EsSes, EsVsk, EsFichas
<1>3. /\ x.cl = e.cl /\ x.ped = e.ped /\ x.ajena = e.ajena /\ x.aDa = e.aDa
      /\ x.fds = [e.fds EXCEPT ![k] = g]
  BY <1>1, <1>2 DEF Campos
<1>4. DOMAIN g = CamposFd /\ g.id = e.fds[k].id /\ g.sock = e.fds[k].sock /\ g.sys = e.fds[k].sys
  BY <1>2 DEF CamposFd
<1> HIDE DEF g
<1>5. EsSec(x.fds) /\ DOMAIN x.fds = DOMAIN e.fds
  BY <1>2, <1>3, CambiaSec DEF EsFichas
<1>6. \A j \in DOMAIN e.fds : x.fds[j] = IF j = k THEN g ELSE e.fds[j]
  BY <1>3
<1>7. MismosFds(e.fds, x.fds, k)
  BY <1>2, <1>4, <1>5, <1>6 DEF MismosFds, EsFichas
<1>8. Igual(e, x)
  BY <1>2, MeterOftIgual
<1>9. QED
  BY <1>3, <1>7, <1>8 DEF Igual, Manso

-----------------------------------------------------------------------------
(* What a handler of the descriptor k may do to its session *)

\* A request to the SFS that nobody waits for, and one of id.
Anota(q, p) == p = q \/ \E r : p = Append(q, r) /\ Quien(r) = 0
Reclama(q, p, id, est) ==
    \E r : p = Append(q, r) /\ Quien(r) = id /\ (r.t = "DOS" => est = "escribiendo")
Envio(q, a, p, b, id, est) ==
    \/ Anota(q, p) /\ b = a
    \/ Reclama(q, p, id, est) /\ b = a
    \/ Anota(q, p) /\ \E r : b = Append(a, r) /\ Quien(r) = id

\* It asks for one thing at most, in the name of id; it answers, and the call ends; or
\* it answers and the session ends, with the descriptor of nobody.
Manda(e, x, id, est) ==
    /\ EsVsk(x) /\ Recuerda(e, x) /\ x.cl = e.cl /\ x.ped = e.ped /\ x.ajena = e.ajena
    /\ MismosFds(e.fds, x.fds, 0) /\ EsSec(x.aDa)
    /\ Envio(e.aSfs, e.aDa, x.aSfs, x.aDa, id, est)

\* What an answer makes of the client s of a call of r.
Contestada(r, s) == /\ DOMAIN s = CamposCl /\ s.id = r.id
                    /\ s.est \in {"abierto", "leido", "fallido"}
                    /\ s.est = "fallido" => r.est = "abriendo"
Contestado(e, x, k) ==
    /\ EsVsk(x) /\ Recuerda(e, x) /\ x.ped = e.ped /\ x.ajena = e.ajena
    /\ x.aSfs = e.aSfs /\ x.aDa = e.aDa
    /\ \E s : /\ Contestada(e.cl[e.fds[k].sock], s)
              /\ x.cl = [e.cl EXCEPT ![e.fds[k].sock] = s]
              /\ MismosFds(e.fds, x.fds, IF s.est = "fallido" THEN 0 ELSE k)

\* A descriptor that no session has: of another socket, and another identifier.
DeNadie(cs, f, i, c) == /\ i \in DOMAIN f /\ f[i].sock # c
                        /\ ~(cs[f[i].sock].est # "fuera" /\ cs[f[i].sock].id = f[i].id)
Salido(e, x, c) ==
    /\ EsVsk(x) /\ Recuerda(e, x) /\ x.ajena = e.ajena
    /\ x.aSfs = e.aSfs /\ x.aDa = e.aDa
    /\ x.cl = [e.cl EXCEPT ![c] = Fuera] /\ x.ped = [e.ped EXCEPT ![c] = NoLlamada]
    /\ x.fds = e.fds \/ \E i : DeNadie(e.cl, e.fds, i, c) /\ x.fds = RemoveAt(e.fds, i)

\* What a call under way leaves: it asked, it answered, or it put the client out.
Resultado(e, x, k, id, est) ==
    Manda(e, x, id, est) \/ Contestado(e, x, k) \/ Salido(e, x, e.fds[k].sock)

LEMMA MansoManda ==
    ASSUME NEW e, EsSes(e), NEW x, Manso(e, x, 0), NEW id, NEW est
    PROVE  Manda(e, x, id, est)
BY DEF Manso, Manda, EsSes, Envio, Anota

LEMMA MansoLuegoManda ==
    ASSUME NEW e, NEW y, Manso(e, y, 0), NEW id, NEW est, NEW x, Manda(y, x, id, est)
    PROVE  Manda(e, x, id, est)
<1>1. MismosFds(e.fds, x.fds, 0)
  BY DEF Manso, Manda, MismosFds
<1>2. Recuerda(e, x)
  BY DEF Manso, Manda, Recuerda
<1>3. QED
  BY <1>1, <1>2 DEF Manso, Manda

LEMMA MansoLuegoContestado ==
    ASSUME NEW e, NEW y, NEW k, Manso(e, y, k), EsSes(e), k \in DOMAIN e.fds, NEW x, Contestado(y, x, k),
           e.cl[e.fds[k].sock].est = "abriendo" => Manso(e, y, 0) \/ x.cl[e.fds[k].sock].est # "fallido"
    PROVE  Contestado(e, x, k)
<1>1. y.fds[k].sock = e.fds[k].sock /\ y.cl = e.cl
  BY DEF Manso, MismosFds
<1>2. PICK s : /\ Contestada(e.cl[e.fds[k].sock], s)
               /\ x.cl = [e.cl EXCEPT ![e.fds[k].sock] = s]
               /\ MismosFds(y.fds, x.fds, IF s.est = "fallido" THEN 0 ELSE k)
  BY <1>1 DEF Contestado
<1>3. MismosFds(e.fds, x.fds, IF s.est = "fallido" THEN 0 ELSE k)
  <2>1. CASE s.est # "fallido"
    BY <1>2, <2>1 DEF Manso, MismosFds
  <2>2. CASE s.est = "fallido"
    <3>1. e.cl[e.fds[k].sock].est = "abriendo"
      BY <1>2, <2>2 DEF Contestada
    <3>2. e.fds[k].sock \in DOMAIN e.cl
      BY DEF EsSes, EsClientes, EsFichas
    <3>3. x.cl[e.fds[k].sock] = s
      BY <1>2, <3>2
    <3>4. Manso(e, y, 0)
      BY <2>2, <3>1, <3>3
    <3>5. QED
      BY <1>2, <2>2, <3>4 DEF Manso, MismosFds
  <2>3. QED
    BY <2>1, <2>2
<1>4. Recuerda(e, x)
  BY DEF Manso, Contestado, Recuerda
<1>5. QED
  BY <1>2, <1>3, <1>4 DEF Manso, Contestado

LEMMA IlesoLuegoSalido ==
    ASSUME NEW e, NEW y, Ileso(e, y), NEW c, NEW x, Salido(y, x, c)
    PROVE  Salido(e, x, c)
<1>1. Recuerda(e, x)
  BY DEF Ileso, Salido, Recuerda
<1>2. QED
  BY <1>1 DEF Ileso, Salido

LEMMA PideSfsManda ==
    ASSUME NEW e, EsSes(e), NEW t \in TiposSfs \ {"AGREGAR", "FORMATEAR"}, NEW modo, NEW id,
           NEW a, NEW s, NEW est, t = "DOS" => est = "escribiendo", NEW x \in PideSfs(e, t, modo, id, a, s)
    PROVE  Manda(e, x, id, est)
<1> DEFINE r == Pedido(t, modo, id, a, s)
<1>1. EsVsk(e) /\ DOMAIN e = Campos
  BY DEF EsSes, EsVsk
<1>2. EsVsk(x) /\ Recuerda(e, x)
  BY <1>1, PideSfsUno DEF PideUno, Igual
<1>3. /\ x.cl = e.cl /\ x.ped = e.ped /\ x.ajena = e.ajena /\ x.fds = e.fds /\ x.aDa = e.aDa
      /\ x.aSfs = e.aSfs \/ x.aSfs = Append(e.aSfs, r)
  BY <1>1 DEF PideSfs, PuedeMorir, Fin, Campos
<1>4. Quien(r) = id /\ r.t = t
  BY DEF Quien, Pedido, TiposSfs
<1> HIDE DEF r
<1>5. Envio(e.aSfs, e.aDa, x.aSfs, x.aDa, id, est)
  BY <1>3, <1>4 DEF Envio, Anota, Reclama
<1>6. MismosFds(e.fds, x.fds, 0) /\ EsSec(x.aDa)
  BY <1>3 DEF MismosFds, EsSes
<1>7. QED
  BY <1>2, <1>3, <1>5, <1>6 DEF Manda

\* A request to the DA, at most, and in the name of id.
Demanda(a, b, id) == b = a \/ \E r : b = Append(a, r) /\ Quien(r) = id

LEMMA PideDaManda ==
    ASSUME NEW e, EsSes(e), NEW t \in {"GET", "GET1", "PUT", "DOS"}, NEW id, NEW s, NEW v, NEW est,
           NEW x \in PideDa(e, t, id, s, v)
    PROVE  /\ Manda(e, x, id, est)
           /\ x.aSfs = e.aSfs /\ Demanda(e.aDa, x.aDa, id)
<1> DEFINE r == DePedido(t, id, s, v)
<1>1. EsVsk(e) /\ DOMAIN e = Campos
  BY DEF EsSes, EsVsk
<1>2. EsVsk(x) /\ Recuerda(e, x) /\ x.aSfs = e.aSfs
  BY <1>1, PideDaIgual DEF Igual
<1>3. /\ x.cl = e.cl /\ x.ped = e.ped /\ x.ajena = e.ajena /\ x.fds = e.fds
      /\ x.aDa = e.aDa \/ x.aDa = Append(e.aDa, r)
  BY <1>1 DEF PideDa, Fin, Campos
<1>4. Quien(r) = id
  BY DEF Quien, DePedido
<1> HIDE DEF r
<1>5. Envio(e.aSfs, e.aDa, x.aSfs, x.aDa, id, est)
  BY <1>2, <1>3, <1>4 DEF Envio, Anota
<1>6. MismosFds(e.fds, x.fds, 0)
  BY <1>3 DEF MismosFds, EsSes
<1>7. EsSec(x.aDa)
  <2>1. EsSec(e.aDa)
    BY DEF EsSes
  <2>2. EsSec(Append(e.aDa, r))
    BY <2>1, EsSecMas
  <2>3. QED
    BY <1>3, <2>1, <2>2
<1>8. QED
  BY <1>2, <1>3, <1>4, <1>5, <1>6, <1>7 DEF Manda, Demanda

\* An answer that the client of the descriptor waits for.
LEMMA EntregaSuya ==
    ASSUME NEW e, EsSes(e), NEW k \in DOMAIN e.fds, NEW c, c = e.fds[k].sock,
           e.cl[c].id = e.fds[k].id, NEW t, t \in Espera(e.cl[c].est), NEW v,
           NEW x \in Entrega(e, k, t, v)
    PROVE  /\ EsVsk(x) /\ Recuerda(e, x) /\ x.ped = e.ped /\ x.ajena = e.ajena
           /\ x.aSfs = e.aSfs /\ x.aDa = e.aDa /\ x.fds = e.fds /\ x.vsk = e.vsk
           /\ x.cl = [e.cl EXCEPT ![c] = Recibe(e.cl[c], t, v)]
<1>1. EsVsk(e) /\ DOMAIN e = Campos
  BY DEF EsSes, EsVsk
<1>2. e.cl[c].est # "fuera" /\ e.cl[c].est # "cortado"
  BY DEF Espera
<1>3. PICK w : x = [e EXCEPT !.cl[c] = Recibe(e.cl[c], t, v), !.escrito = w]
  BY <1>2 DEF Entrega
<1>4. Igual(e, x)
  BY <1>1, EntregaIgual
<1>5. /\ x.ped = e.ped /\ x.ajena = e.ajena /\ x.aDa = e.aDa /\ x.fds = e.fds /\ x.vsk = e.vsk
      /\ x.cl = [e.cl EXCEPT ![c] = Recibe(e.cl[c], t, v)]
  BY <1>1, <1>3 DEF Campos
<1>6. QED
  BY <1>4, <1>5 DEF Igual

LEMMA RecibeSigue ==
    ASSUME NEW r, DOMAIN r = CamposCl, NEW t \in {"OPEN_OK", "OPEN_FAILED", "WRITE_OK", "READ_OK"},
           t \in Espera(r.est), NEW v
    PROVE  Contestada(r, Recibe(r, t, v)) /\ (t # "OPEN_FAILED" => Recibe(r, t, v).est # "fallido")
<1>1. CASE t = "OPEN_OK"
  BY <1>1 DEF Recibe, Contestada, CamposCl
<1>2. CASE t = "OPEN_FAILED"
  BY <1>2 DEF Recibe, Contestada, CamposCl, Espera
<1>3. CASE t = "WRITE_OK"
  BY <1>3 DEF Recibe, Contestada, CamposCl
<1>4. CASE t = "READ_OK"
  BY <1>4 DEF Recibe, Contestada, CamposCl
<1>5. QED
  BY <1>1, <1>2, <1>3, <1>4

\* The session of the descriptor k waits in the call est.
EnLlamada(e, k, est) == /\ k \in DOMAIN e.fds
                        /\ e.cl[e.fds[k].sock].est = est /\ e.cl[e.fds[k].sock].id = e.fds[k].id

LEMMA EntregaContesta ==
    ASSUME NEW e, EsSes(e), NEW k, NEW est, EnLlamada(e, k, est),
           NEW t \in {"OPEN_OK", "OPEN_FAILED", "WRITE_OK", "READ_OK"}, t \in Espera(est), NEW v,
           NEW x \in Entrega(e, k, t, v)
    PROVE  /\ Contestado(e, x, k) /\ x.vsk = e.vsk
           /\ t # "OPEN_FAILED" => x.cl[e.fds[k].sock].est # "fallido"
<1> DEFINE c == e.fds[k].sock
           s == Recibe(e.cl[c], t, v)
<1>1. k \in DOMAIN e.fds /\ e.cl[c].id = e.fds[k].id /\ t \in Espera(e.cl[c].est)
      /\ c \in Sockets /\ DOMAIN e.cl = Sockets /\ DOMAIN e.cl[c] = CamposCl
  BY DEF EnLlamada, EsSes, EsFichas, EsClientes
<1> HIDE DEF c
<1>2. /\ EsVsk(x) /\ Recuerda(e, x) /\ x.ped = e.ped /\ x.ajena = e.ajena
      /\ x.aSfs = e.aSfs /\ x.aDa = e.aDa /\ x.fds = e.fds /\ x.vsk = e.vsk
      /\ x.cl = [e.cl EXCEPT ![c] = s]
  BY <1>1, EntregaSuya DEF c
<1>3. Contestada(e.cl[c], s) /\ (t # "OPEN_FAILED" => s.est # "fallido")
  BY <1>1, RecibeSigue
<1>4. x.cl[c] = s
  BY <1>1, <1>2
<1> HIDE DEF s
<1>5. \A j : MismosFds(e.fds, x.fds, j)
  BY <1>2 DEF MismosFds, EsSes
<1>6. Contestado(e, x, k)
  BY <1>2, <1>3, <1>5 DEF Contestado, c
<1>7. QED
  BY <1>2, <1>3, <1>4, <1>6 DEF c

LEMMA ContestadoEs ==
    ASSUME NEW e, EsSes(e), NEW k \in DOMAIN e.fds, NEW x, Contestado(e, x, k)
    PROVE  EsSes(x)
<1>1. PICK s : /\ Contestada(e.cl[e.fds[k].sock], s)
               /\ x.cl = [e.cl EXCEPT ![e.fds[k].sock] = s]
               /\ MismosFds(e.fds, x.fds, IF s.est = "fallido" THEN 0 ELSE k)
  BY DEF Contestado
<1>2. EsClientes(x.cl)
  BY <1>1 DEF EsSes, EsClientes, Contestada
<1>3. QED
  BY <1>1, <1>2 DEF EsSes, MismosFds, Contestado

\* Only the client of the socket c changes.
SoloCliente(e, y, c) ==
    /\ EsVsk(y) /\ Recuerda(e, y) /\ y.ped = e.ped /\ y.ajena = e.ajena
    /\ y.aSfs = e.aSfs /\ y.aDa = e.aDa /\ y.fds = e.fds
    /\ \E r : y.cl = [e.cl EXCEPT ![c] = r]

\* The session ends, and the socket with it.
LEMMA CierraSale ==
    ASSUME NEW e, NEW c, NEW y, SoloCliente(e, y, c), NEW x, x = CierraSocket(y, c)
    PROVE  Salido(e, x, c) /\ x.fds = e.fds
<1>1. DOMAIN y = Campos /\ EsVsk(y)
  BY DEF EsVsk, SoloCliente
<1>2. Igual(y, x)
  BY <1>1, CierraIgual
<1>3. /\ x.ajena = e.ajena /\ x.aDa = e.aDa /\ x.fds = e.fds
      /\ x.cl = [y.cl EXCEPT ![c] = Fuera] /\ x.ped = [e.ped EXCEPT ![c] = NoLlamada]
  BY <1>1 DEF CierraSocket, Campos, SoloCliente
<1>4. x.cl = [e.cl EXCEPT ![c] = Fuera]
  BY <1>3 DEF SoloCliente
<1>5. Recuerda(e, x)
  BY <1>2 DEF Igual, Recuerda, SoloCliente
<1>6. QED
  BY <1>2, <1>3, <1>4, <1>5 DEF Igual, Salido, SoloCliente

\* Nothing happened of what the property excepts.
Calma(e) == e.culpas \intersect {"consola", "descartada", "ajeno"} = {}

LEMMA CalmaAntes ==
    ASSUME NEW e, NEW x, Recuerda(e, x), Calma(x)
    PROVE  Calma(e)
BY DEF Calma, Recuerda

\* What the close deletes is, if nobody is to blame, the descriptor of nobody.
LEMMA QuitarFdSale ==
    ASSUME NEW e, EsSes(e), NEW c \in Sockets, NEW y, Salido(e, y, c), y.fds = e.fds,
           NEW x, x = QuitarFdPorSocket(y, c), Calma(x)
    PROVE  Salido(e, x, c)
<1> DEFINE k == PrimeroDe({j \in DOMAIN y.fds : y.fds[j].sock # c})
<1>1. EsVsk(y) /\ DOMAIN y = Campos
  BY DEF Salido, EsVsk
<1>2. CASE k = 0
  BY <1>2 DEF QuitarFdPorSocket
<1>3. CASE k # 0
  <2>1. k \in DOMAIN y.fds /\ y.fds[k].sock # c
    <3> DEFINE K == {j \in DOMAIN y.fds : y.fds[j].sock # c}
    <3>1. K \subseteq Nat \ {0}
      BY <1>1 DEF EsVsk, EsFds, EsSec
    <3>2. k \in K
      <4> HIDE DEF K
      <4>1. QED
        BY <1>3, <3>1, Primero DEF K
    <3>3. QED
      BY <3>2
  <2> HIDE DEF k
  <2>2. x = [y EXCEPT !.fds = RemoveAt(@, k),
                      !.culpas = IF EnSesion(y, k) THEN @ \union {"ajeno"} ELSE @,
                      !.basura = IF "L" \in Modos THEN y.fds[k].paso ELSE 0]
    BY <1>3 DEF QuitarFdPorSocket, k
  <2>3. /\ x.ajena = y.ajena /\ x.aDa = y.aDa /\ x.fds = RemoveAt(y.fds, k) /\ x.cl = y.cl
        /\ x.ped = y.ped /\ x.culpas = IF EnSesion(y, k) THEN y.culpas \union {"ajeno"} ELSE y.culpas
    BY <1>1, <2>2 DEF Campos
  <2>4. ~EnSesion(y, k)
    BY <2>3 DEF Calma
  <2>5. Igual(y, x)
    BY <1>1, QuitarFdIgual
  <2>6. Recuerda(e, x)
    BY <2>5 DEF Igual, Salido, Recuerda
  <2>7. y.fds[k].sock \in Sockets /\ y.cl[y.fds[k].sock] = e.cl[y.fds[k].sock]
    BY <2>1 DEF Salido, EsSes, EsFichas, EsClientes
  <2>8. DeNadie(e.cl, e.fds, k, c)
    BY <2>1, <2>4, <2>7 DEF DeNadie, EnSesion
  <2>9. QED
    BY <2>3, <2>5, <2>6, <2>8 DEF Igual, Salido
<1>4. QED
  BY <1>2, <1>3

LEMMA TerminaSale ==
    ASSUME NEW e, EsSes(e), e.vsk = "atendiendo", NEW k, NEW est, EnLlamada(e, k, est),
           NEW t \in {"CLOSE_OK", "LIST_OK"}, t \in Espera(est), NEW x \in Termina(e, k, t), Calma(x)
    PROVE  Salido(e, x, e.fds[k].sock)
<1> DEFINE c == e.fds[k].sock
<1>1. k \in DOMAIN e.fds /\ e.cl[c].id = e.fds[k].id /\ t \in Espera(e.cl[c].est) /\ c \in Sockets
  BY DEF EnLlamada, EsSes, EsFichas
<1>2. PICK y \in Entrega(e, k, t, <<>>) :
         \/ x = y /\ y.vsk # "atendiendo"
         \/ x = QuitarFdPorSocket(CierraSocket(y, c), c)
  BY DEF Termina, Luego
<1> HIDE DEF c
<1>3. SoloCliente(e, y, c) /\ y.vsk = "atendiendo"
  <2>1. c = e.fds[k].sock
    BY DEF c
  <2>2. /\ EsVsk(y) /\ Recuerda(e, y) /\ y.ped = e.ped /\ y.ajena = e.ajena
        /\ y.aSfs = e.aSfs /\ y.aDa = e.aDa /\ y.fds = e.fds /\ y.vsk = e.vsk
        /\ y.cl = [e.cl EXCEPT ![c] = Recibe(e.cl[c], t, <<>>)]
    BY <1>1, <2>1, EntregaSuya
  <2>3. QED
    BY <2>2 DEF SoloCliente
<1> DEFINE z == CierraSocket(y, c)
<1>4. Salido(e, z, c) /\ z.fds = e.fds
  BY <1>3, CierraSale
<1>5. x = QuitarFdPorSocket(z, c)
  BY <1>2, <1>3
<1> HIDE DEF z
<1>6. Salido(e, x, c)
  BY <1>1, <1>4, <1>5, QuitarFdSale
<1>7. QED
  BY <1>6 DEF c

-----------------------------------------------------------------------------
(* The system calls, each from the call its session is in *)

LEMMA DesfasaNo ==
    ASSUME NEW e, EsVsk(e)
    PROVE  ~Calma(Desfasa(e))
BY FinIgual DEF Calma

LEMMA IlesoManda ==
    ASSUME NEW e, EsSes(e), NEW x, Ileso(e, x), NEW id, NEW est
    PROVE  Manda(e, x, id, est)
BY IlesoManso, MansoManda

LEMMA AbrirPrimeroCierto ==
    ASSUME NEW e, EsSes(e), NEW k, NEW m, NEW x \in AbrirPrimero(e, k, m), NEW est
    PROVE  Manda(e, x, m.id, est)
<1>1. EsVsk(e)
  BY DEF EsSes
<1>2. \/ x = e \/ x = Fin(e, "buscando")
      \/ x \in PideSfs(e, "EXISTE", m.s.modo, m.id, m.s.a, <<>>)
  BY DEF AbrirPrimero, VerificarAbierto
<1>3. CASE x = e \/ x = Fin(e, "buscando")
  BY <1>1, <1>3, MismoIleso, FinIleso, IlesoManda
<1>4. CASE x \in PideSfs(e, "EXISTE", m.s.modo, m.id, m.s.a, <<>>)
  <2>1. "EXISTE" \in TiposSfs \ {"AGREGAR", "FORMATEAR"} /\ "EXISTE" # "DOS"
    BY DEF TiposSfs
  <2>2. QED
    BY <1>4, <2>1, PideSfsManda
<1>5. QED
  BY <1>2, <1>3, <1>4

LEMMA ListarPrimeroCierto ==
    ASSUME NEW e, EsSes(e), NEW k \in DOMAIN e.fds, NEW m, NEW x \in ListarPrimero(e, k, m), Calma(x), NEW est
    PROVE  Manda(e, x, m.id, est)
<1> DEFINE w == [e EXCEPT !.fds[k].paso = 1]
<1>1. EsVsk(e)
  BY DEF EsSes
<1>2. \/ x = Fin(e, "bloqueada") \/ x = Desfasa(e)
      \/ x \in PideSfs(w, "LISTAR", "-", m.id, Nada, <<>>)
  BY DEF ListarPrimero
<1>3. Manso(e, w, 0) /\ EsSes(w)
  BY RozaPaso
<1> HIDE DEF w
<1>4. CASE x = Fin(e, "bloqueada") \/ x = Desfasa(e)
  BY <1>1, <1>4, DesfasaNo, FinIleso, IlesoManda
<1>5. CASE x \in PideSfs(w, "LISTAR", "-", m.id, Nada, <<>>)
  <2>1. "LISTAR" \in TiposSfs \ {"AGREGAR", "FORMATEAR"} /\ "LISTAR" # "DOS"
    BY DEF TiposSfs
  <2>2. Manda(w, x, m.id, est)
    BY <1>3, <1>5, <2>1, PideSfsManda
  <2>3. QED
    BY <1>3, <2>2, MansoLuegoManda
<1>6. QED
  BY <1>2, <1>4, <1>5

\* An "open" that succeeds, of whatever kind.
LEMMA QuedaAbierto ==
    ASSUME NEW e, EsSes(e), NEW k, EnLlamada(e, k, "abriendo"), NEW modo \in {"W", "R", "D"}, NEW sec,
           NEW y \in MeterOft(e, k, modo, sec), NEW x \in Entrega(y, k, "OPEN_OK", <<>>)
    PROVE  Contestado(e, x, k)
<1>1. k \in DOMAIN e.fds
  BY DEF EnLlamada
<1>2. Manso(e, y, k) /\ EsSes(y)
  BY <1>1, MeterOftManso, MansoEs
<1>3. EnLlamada(y, k, "abriendo") /\ y.fds[k].sock = e.fds[k].sock
  BY <1>1, <1>2 DEF EnLlamada, Manso, MismosFds
<1>4. "OPEN_OK" \in Espera("abriendo")
  BY DEF Espera
<1>5. Contestado(y, x, k) /\ x.cl[y.fds[k].sock].est # "fallido"
  BY <1>2, <1>3, <1>4, EntregaContesta
<1>6. QED
  BY <1>1, <1>2, <1>3, <1>5, MansoLuegoContestado

LEMMA AbrirCierto ==
    ASSUME NEW e, EsSes(e), NEW k, EnLlamada(e, k, "abriendo"), NEW m, NEW x \in Abrir(e, k, m), Calma(x)
    PROVE  Resultado(e, x, k, m.id, "abriendo")
<1> DEFINE P(t) == PideSfs(e, t, m.modo, m.id, e.fds[k].a, <<>>)
           Q(modo, sec) == UNION {Entrega(y, k, "OPEN_OK", <<>>) : y \in MeterOft(e, k, modo, sec)}
<1>1. \/ \E t \in {"ELIMINA", "CREAR", "INFO"} : x \in P(t)
      \/ \E modo \in {"W", "R", "D"} : \E sec : x \in Q(modo, sec)
      \/ x \in Entrega(e, k, "OPEN_FAILED", <<>>)
      \/ x = Desfasa(e) \/ x = e
  BY DEF Abrir
<1>2. EsVsk(e)
  BY DEF EsSes
<1>3. ASSUME NEW t \in {"ELIMINA", "CREAR", "INFO"}, x \in P(t) PROVE Resultado(e, x, k, m.id, "abriendo")
  <2>1. t \in TiposSfs \ {"AGREGAR", "FORMATEAR"} /\ t # "DOS"
    BY DEF TiposSfs
  <2>2. QED
    BY <1>3, <2>1, PideSfsManda DEF Resultado
<1>4. ASSUME NEW modo \in {"W", "R", "D"}, NEW sec, x \in Q(modo, sec) PROVE Resultado(e, x, k, m.id, "abriendo")
  <2>1. PICK y \in MeterOft(e, k, modo, sec) : x \in Entrega(y, k, "OPEN_OK", <<>>)
    BY <1>4
  <2>2. QED
    BY <2>1, QuedaAbierto DEF Resultado
<1>5. ASSUME x \in Entrega(e, k, "OPEN_FAILED", <<>>) PROVE Resultado(e, x, k, m.id, "abriendo")
  <2>1. "OPEN_FAILED" \in Espera("abriendo")
    BY DEF Espera
  <2>2. QED
    BY <1>5, <2>1, EntregaContesta DEF Resultado
<1>6. ASSUME x = e PROVE Resultado(e, x, k, m.id, "abriendo")
  BY <1>2, <1>6, MismoIleso, IlesoManda DEF Resultado
<1> HIDE DEF P, Q
<1>7. QED
  BY <1>1, <1>2, <1>3, <1>4, <1>5, <1>6, DesfasaNo

\* The close of a descriptor without a file sends nothing.
LEMMA CerrarNada ==
    ASSUME NEW e, EsSes(e), NEW k \in DOMAIN e.fds, e.fds[k].oft = 0, NEW m, NEW x \in CerrarPrimero(e, k, m)
    PROVE  Manso(e, x, 0)
<1> DEFINE w == [e EXCEPT !.fds[k].paso = 1]
<1>1. x = w
  BY DEF CerrarPrimero
<1>2. QED
  BY <1>1, RozaPaso

LEMMA CerrarPrimeroCierto ==
    ASSUME NEW e, EsSes(e), e.vsk = "atendiendo", NEW k, EnLlamada(e, k, "cerrando"), NEW m,
           NEW x \in CerrarPrimero(e, k, m), Calma(x)
    PROVE  Resultado(e, x, k, m.id, "cerrando")
<1> DEFINE f == e.oft[e.fds[k].oft]
           w == [e EXCEPT !.fds[k].paso = 1]
           P(modo, t, s) == PideSfs(w, t, modo, m.id, f.a, s)
<1>1. Manso(e, w, 0) /\ EsSes(w) /\ k \in DOMAIN e.fds /\ EsVsk(e)
  BY RozaPaso DEF EnLlamada, EsSes
<1>2. CASE e.fds[k].oft = 0
  BY <1>1, <1>2, CerrarNada, MansoManda DEF Resultado
<1>3. e.fds[k].oft # 0 => x \in Luego(UsaArchivo(e, k), LAMBDA y :
            CASE f.modo = "R" -> Luego(QuitarOft(y, FALSE), LAMBDA z : Termina(z, k, "CLOSE_OK"))
              [] f.modo = "W" -> P("W", "TAMANIO", <<f.tam>>)
              [] f.modo = "D" -> P("D", "ELIMINA", <<>>))
  BY DEF CerrarPrimero
<1>4. ASSUME NEW t \in {"TAMANIO", "ELIMINA"}, NEW modo, NEW s, x \in P(modo, t, s)
      PROVE  Resultado(e, x, k, m.id, "cerrando")
  <2>1. t \in TiposSfs \ {"AGREGAR", "FORMATEAR"} /\ t # "DOS"
    BY DEF TiposSfs
  <2>2. Manda(w, x, m.id, "cerrando")
    BY <1>1, <1>4, <2>1, PideSfsManda
  <2>3. QED
    BY <1>1, <2>2, MansoLuegoManda DEF Resultado
<1> HIDE DEF P, w
<1>5. CASE e.fds[k].oft # 0
  <2>1. f.modo \in {"W", "R", "D"}
    <3>1. e.fds[k].oft \in DOMAIN e.oft
      BY <1>1, <1>5 DEF EsVsk, EsFds, EsOft, EsSec
    <3>2. QED
      BY <1>1, <3>1 DEF EsVsk, EsOft
  <2> HIDE DEF f
  <2>2. PICK y \in UsaArchivo(e, k) :
           \/ x = y
           \/ x \in CASE f.modo = "R" -> Luego(QuitarOft(y, FALSE), LAMBDA z : Termina(z, k, "CLOSE_OK"))
                      [] f.modo = "W" -> P("W", "TAMANIO", <<f.tam>>)
                      [] f.modo = "D" -> P("D", "ELIMINA", <<>>)
    BY <1>3, <1>5 DEF Luego
  <2>3. Ileso(e, y) /\ EsVsk(y)
    BY <1>1, UsaArchivoIleso, MismoIleso DEF Ileso
  <2>4. CASE x = y
    BY <2>3, <2>4, IlesoManda DEF Resultado
  <2>5. CASE x \in Luego(QuitarOft(y, FALSE), LAMBDA z : Termina(z, k, "CLOSE_OK"))
    <3>1. PICK z \in QuitarOft(y, FALSE) :
             \/ x = z
             \/ z.vsk = "atendiendo" /\ x \in Termina(z, k, "CLOSE_OK")
      BY <2>5 DEF Luego
    <3>2. Ileso(e, z) /\ EsSes(z)
      BY <2>3, QuitarOftIleso, IlesoIleso, IlesoManso
    <3>3. CASE x = z
      BY <3>2, <3>3, IlesoManda DEF Resultado
    <3>4. CASE z.vsk = "atendiendo" /\ x \in Termina(z, k, "CLOSE_OK")
      <4>1. EnLlamada(z, k, "cerrando") /\ z.fds[k].sock = e.fds[k].sock
        BY <3>2 DEF EnLlamada, Ileso
      <4>2. "CLOSE_OK" \in Espera("cerrando")
        BY DEF Espera
      <4>3. Salido(z, x, e.fds[k].sock)
        BY <3>2, <3>4, <4>1, <4>2, TerminaSale
      <4>4. QED
        BY <3>2, <4>3, IlesoLuegoSalido DEF Resultado
    <3>5. QED
      BY <3>1, <3>3, <3>4
  <2>6. QED
    BY <1>4, <2>1, <2>2, <2>4, <2>5
<1>6. QED
  BY <1>2, <1>5

LEMMA CerrarCierto ==
    ASSUME NEW e, EsSes(e), NEW k, EnLlamada(e, k, "cerrando"), NEW m, NEW x \in Cerrar(e, k, m), Calma(x)
    PROVE  Resultado(e, x, k, m.id, "cerrando")
<1>1. \/ x = Desfasa(e) \/ x = e
      \/ x \in Luego(UsaArchivo(e, k), LAMBDA w :
               Luego(QuitarOft(w, TRUE), LAMBDA y :
               Luego(Termina(y, k, "CLOSE_OK"), LAMBDA z :
               {IF m.t \in ConPayload THEN Desfasa(z) ELSE z})))
  BY DEF Cerrar
<1>2. EsVsk(e)
  BY DEF EsSes
<1>3. ASSUME NEW y, Ileso(e, y), x = y PROVE Resultado(e, x, k, m.id, "cerrando")
  BY <1>3, IlesoManda DEF Resultado
<1>4. CASE x = Desfasa(e) \/ x = e
  BY <1>2, <1>3, <1>4, DesfasaNo, MismoIleso
<1>5. CASE x \in Luego(UsaArchivo(e, k), LAMBDA w :
               Luego(QuitarOft(w, TRUE), LAMBDA y :
               Luego(Termina(y, k, "CLOSE_OK"), LAMBDA z :
               {IF m.t \in ConPayload THEN Desfasa(z) ELSE z})))
  <2>1. PICK w \in UsaArchivo(e, k) :
           \/ x = w
           \/ x \in Luego(QuitarOft(w, TRUE), LAMBDA y :
                    Luego(Termina(y, k, "CLOSE_OK"), LAMBDA z :
                    {IF m.t \in ConPayload THEN Desfasa(z) ELSE z}))
    BY <1>5 DEF Luego
  <2>2. Ileso(e, w) /\ EsVsk(w)
    BY <1>2, UsaArchivoIleso, MismoIleso DEF Ileso
  <2>3. CASE x \in Luego(QuitarOft(w, TRUE), LAMBDA y :
                   Luego(Termina(y, k, "CLOSE_OK"), LAMBDA z :
                   {IF m.t \in ConPayload THEN Desfasa(z) ELSE z}))
    <3>1. PICK y \in QuitarOft(w, TRUE) :
             \/ x = y
             \/ y.vsk = "atendiendo"
                /\ x \in Luego(Termina(y, k, "CLOSE_OK"), LAMBDA z :
                         {IF m.t \in ConPayload THEN Desfasa(z) ELSE z})
      BY <2>3 DEF Luego
    <3>2. Ileso(e, y) /\ EsSes(y)
      BY <2>2, QuitarOftIleso, IlesoIleso, IlesoManso
    <3>3. CASE y.vsk = "atendiendo"
               /\ x \in Luego(Termina(y, k, "CLOSE_OK"), LAMBDA z :
                        {IF m.t \in ConPayload THEN Desfasa(z) ELSE z})
      <4>1. PICK z \in Termina(y, k, "CLOSE_OK") : x = z \/ x = Desfasa(z)
        BY <3>3 DEF Luego
      <4>2. EsVsk(z)
        BY <3>2, TerminaIgual DEF EsSes, Igual
      <4>3. x = z
        BY <4>1, <4>2, DesfasaNo
      <4>4. EnLlamada(y, k, "cerrando") /\ y.fds[k].sock = e.fds[k].sock
        BY <3>2 DEF EnLlamada, Ileso
      <4>5. "CLOSE_OK" \in Espera("cerrando")
        BY DEF Espera
      <4>6. Salido(y, x, e.fds[k].sock)
        BY <3>2, <3>3, <4>1, <4>3, <4>4, <4>5, TerminaSale
      <4>7. QED
        BY <3>2, <4>6, IlesoLuegoSalido DEF Resultado
    <3>4. QED
      BY <1>3, <3>1, <3>2, <3>3
  <2>4. QED
    BY <1>3, <2>1, <2>2, <2>3
<1>6. QED
  BY <1>1, <1>4, <1>5

\* The handlers of the calls, one by one: a directory is listed.
LEMMA ListarCierto ==
    ASSUME NEW e, EsSes(e), e.vsk = "atendiendo", NEW k, EnLlamada(e, k, "listando"), NEW m,
           NEW x \in Listar(e, k, m), Calma(x)
    PROVE  Resultado(e, x, k, m.id, "listando")
<1>1. x \in Termina(e, k, "LIST_OK") \/ x = Desfasa(e) \/ x = e
  BY DEF Listar
<1>2. EsVsk(e)
  BY DEF EsSes
<1>3. CASE x \in Termina(e, k, "LIST_OK")
  <2>1. "LIST_OK" \in Espera("listando")
    BY DEF Espera
  <2>2. QED
    BY <1>3, <2>1, TerminaSale DEF Resultado
<1>4. CASE x = Desfasa(e) \/ x = e
  BY <1>2, <1>4, DesfasaNo, MismoIleso, IlesoManda DEF Resultado
<1>5. QED
  BY <1>1, <1>3, <1>4

\* The first step of a write, which asks for what the file lacks.
LEMMA EscribirPrimeroCierto ==
    ASSUME NEW e, EsSes(e), NEW k \in DOMAIN e.fds, NEW m, NEW x \in EscribirPrimero(e, k, m), Calma(x)
    PROVE  Manda(e, x, m.id, "escribiendo")
<1> DEFINE n == e.fds[k].oft
           w1 == [e EXCEPT !.oft[n].buf = m.s]
           w2 == [w1 EXCEPT !.oft[n].tam = w1.oft[n].tam + 1]
           w3 == [w2 EXCEPT !.fds[k].paso = 2]
           w == [e EXCEPT !.oft[n].buf = m.s, !.oft[n].tam = @ + 1, !.fds[k].paso = 2]
<1>1. w = w3
  OBVIOUS
<1>2. w1 = [e EXCEPT !.oft[n].buf = m.s]
  OBVIOUS
<1>3. \E b : w2 = [w1 EXCEPT !.oft[n].tam = b]
  OBVIOUS
<1>4. w3 = [w2 EXCEPT !.fds[k].paso = 2]
  OBVIOUS
<1> HIDE DEF w1, w2, w3, w, n
<1>5. Ileso(e, w1) /\ EsSes(w1)
  BY <1>2, RozaOft
<1>6. Ileso(w1, w2) /\ EsSes(w2)
  BY <1>3, <1>5, RozaOft
<1>7. Manso(e, w, 0) /\ EsSes(w)
  <2>1. Ileso(e, w2) /\ k \in DOMAIN w2.fds
    <3>1. Ileso(e, w2)
      BY <1>5, <1>6, IlesoIleso
    <3>2. QED
      BY <3>1 DEF Ileso
  <2>2. Manso(e, w2, 0)
    BY <2>1, IlesoManso
  <2>3. Manso(w2, w3, 0)
    BY <1>4, <1>6, <2>1, RozaPaso
  <2>4. Manso(e, w3, 0)
    BY <2>2, <2>3, MansoManso
  <2>5. QED
    BY <1>1, <2>4, MansoEs
<1>8. PICK y \in UsaArchivo(e, k) :
         \/ x = y
         \/ x = Desfasa(e) \/ x = Fin(e, "muerta") \/ x = w
         \/ x \in PideSfs(w, "DOS", "-", m.id, Nada, <<>>)
         \/ x \in PideDa(w, "DOS", m.id, <<>>, <<>>)
  BY DEF EscribirPrimero, Luego, w, n
<1>9. EsVsk(e)
  BY DEF EsSes
<1>10. CASE x = y \/ x = Fin(e, "muerta")
  <2>1. Ileso(e, x)
    BY <1>9, <1>10, UsaArchivoIleso, MismoIleso, FinIleso
  <2>2. QED
    BY <2>1, IlesoManda
<1>11. CASE x = Desfasa(e)
  BY <1>9, <1>11, DesfasaNo
<1>12. CASE x = w
  BY <1>7, <1>12, MansoManda
<1>13. CASE x \in PideSfs(w, "DOS", "-", m.id, Nada, <<>>)
  <2>1. "DOS" \in TiposSfs \ {"AGREGAR", "FORMATEAR"}
    BY DEF TiposSfs
  <2>2. Manda(w, x, m.id, "escribiendo")
    BY <1>7, <1>13, <2>1, PideSfsManda
  <2>3. QED
    BY <1>7, <2>2, MansoLuegoManda
<1>14. CASE x \in PideDa(w, "DOS", m.id, <<>>, <<>>)
  <2>1. Manda(w, x, m.id, "escribiendo")
    BY <1>7, <1>14, PideDaManda
  <2>2. QED
    BY <1>7, <2>1, MansoLuegoManda
<1>15. QED
  BY <1>8, <1>10, <1>11, <1>12, <1>13, <1>14

\* The request to add the pair, which nobody waits for.
Suma(e, x) ==
    /\ EsSes(x) /\ Recuerda(e, x) /\ x.cl = e.cl /\ x.ped = e.ped /\ x.ajena = e.ajena
    /\ x.fds = e.fds /\ x.aDa = e.aDa /\ Anota(e.aSfs, x.aSfs)

LEMMA AgregarSuma ==
    ASSUME NEW e, EsSes(e), NEW t \in {"AGREGAR", "FORMATEAR"}, NEW id, NEW a, NEW s,
           NEW x \in PideSfs(e, t, "-", id, a, s)
    PROVE  Suma(e, x)
<1> DEFINE r == Pedido(t, "-", id, a, s)
<1>1. EsVsk(e) /\ DOMAIN e = Campos
  BY DEF EsSes, EsVsk
<1>2. EsVsk(x) /\ Recuerda(e, x)
  BY <1>1, PideSfsUno DEF PideUno, Igual
<1>3. /\ x.cl = e.cl /\ x.ped = e.ped /\ x.ajena = e.ajena /\ x.fds = e.fds /\ x.aDa = e.aDa
      /\ x.aSfs = e.aSfs \/ x.aSfs = Append(e.aSfs, r)
  BY <1>1 DEF PideSfs, PuedeMorir, Fin, Campos
<1>4. Quien(r) = 0
  BY DEF Quien, Pedido
<1> HIDE DEF r
<1>5. QED
  BY <1>2, <1>3, <1>4 DEF Suma, Anota, EsSes

\* The request of the pair, and what touches no session or asks the DA after it.
LEMMA SumaIleso ==
    ASSUME NEW e, NEW y, Suma(e, y), NEW x, Ileso(y, x)
    PROVE  Suma(e, x)
<1>1. EsSes(x)
  BY IlesoManso DEF Suma
<1>2. Recuerda(e, x)
  BY DEF Suma, Ileso, Recuerda
<1>3. QED
  BY <1>1, <1>2 DEF Suma, Ileso

LEMMA SumaManda ==
    ASSUME NEW e, NEW x, Suma(e, x), NEW id, NEW est
    PROVE  Manda(e, x, id, est)
BY DEF Suma, Manda, Envio, EsSes, MismosFds

LEMMA SumaLuegoPideDa ==
    ASSUME NEW e, NEW y, Suma(e, y), NEW id, NEW s, NEW v, NEW x \in PideDa(y, "PUT", id, s, v), NEW est
    PROVE  Manda(e, x, id, est)
<1>1. EsSes(y)
  BY DEF Suma
<1>2. Manda(y, x, id, est) /\ x.aSfs = y.aSfs /\ Demanda(y.aDa, x.aDa, id)
  BY <1>1, PideDaManda
<1>3. Envio(e.aSfs, e.aDa, x.aSfs, x.aDa, id, est)
  BY <1>2 DEF Suma, Envio, Demanda
<1>4. Recuerda(e, x)
  BY <1>2 DEF Suma, Manda, Recuerda
<1>5. QED
  BY <1>2, <1>3, <1>4 DEF Suma, Manda

\* The step of a write that has its sectors.
LEMMA EscribirCierto ==
    ASSUME NEW e, EsSes(e), e.vsk = "atendiendo", NEW k, EnLlamada(e, k, "escribiendo"), NEW m,
           NEW x \in Escribir(e, k, m), Calma(x)
    PROVE  Resultado(e, x, k, m.id, "escribiendo")
<1> DEFINE f == e.oft[e.fds[k].oft]
           w == [e EXCEPT !.fds[k].paso = 3]
           G(z) == PideDa(z, "PUT", m.id, m.s, f.buf)
           A == PideSfs(w, "AGREGAR", "-", m.id, f.a, m.s)
           D(y) == IF m.t \in ConPayload THEN Desfasa(y) ELSE y
<1>1. PICK y \in UsaArchivo(e, k) :
         \/ x = y
         \/ x \in Luego(A, LAMBDA v : Luego(Invalidar(v, m.s), G))
         \/ x \in Luego(Entrega(e, k, "WRITE_OK", <<>>), LAMBDA v : {D(v)})
         \/ x = Desfasa(e)
  BY DEF Escribir, Luego
<1>2. EsVsk(e) /\ k \in DOMAIN e.fds
  BY DEF EsSes, EnLlamada
<1>3. CASE x = y \/ x = Desfasa(e)
  <2>1. x # Desfasa(e)
    BY <1>2, DesfasaNo
  <2>2. Ileso(e, x)
    BY <1>2, <1>3, <2>1, UsaArchivoIleso, MismoIleso
  <2>3. QED
    BY <2>2, IlesoManda DEF Resultado
<1>4. CASE x \in Luego(Entrega(e, k, "WRITE_OK", <<>>), LAMBDA v : {D(v)})
  <2>1. PICK v \in Entrega(e, k, "WRITE_OK", <<>>) : x = v \/ x = Desfasa(v)
    BY <1>4 DEF Luego
  <2>2. EsVsk(v)
    BY <1>2, EntregaIgual DEF Igual
  <2>3. x = v
    BY <2>1, <2>2, DesfasaNo
  <2>4. "WRITE_OK" \in Espera("escribiendo")
    BY DEF Espera
  <2>5. QED
    BY <2>3, <2>4, EntregaContesta DEF Resultado
<1>5. Manso(e, w, 0) /\ EsSes(w)
  BY <1>2, RozaPaso
<1>6. CASE x \in Luego(A, LAMBDA v : Luego(Invalidar(v, m.s), G))
  <2> HIDE DEF w, f
  <2>1. PICK v \in A : x = v \/ x \in Luego(Invalidar(v, m.s), G)
    BY <1>6 DEF Luego
  <2>2. Suma(w, v)
    BY <1>5, AgregarSuma
  <2>3. CASE x = v
    BY <1>5, <2>2, <2>3, SumaManda, MansoLuegoManda DEF Resultado
  <2>4. CASE x \in Luego(Invalidar(v, m.s), G)
    <3>1. PICK z \in Invalidar(v, m.s) : x = z \/ x \in G(z)
      BY <2>4 DEF Luego
    <3>2. Suma(w, z)
      <4>1. Ileso(v, z)
        BY <2>2, InvalidarIleso DEF Suma, EsSes
      <4>2. QED
        BY <2>2, <4>1, SumaIleso
    <3>3. Manda(w, x, m.id, "escribiendo")
      BY <3>1, <3>2, SumaManda, SumaLuegoPideDa
    <3>4. QED
      BY <1>5, <3>3, MansoLuegoManda DEF Resultado
  <2>5. QED
    BY <2>1, <2>3, <2>4
<1>7. QED
  BY <1>1, <1>3, <1>4, <1>6

\* The answer to a read, from a state the call changed in what is its own.
LEMMA LeidoContesta ==
    ASSUME NEW e, EsSes(e), NEW k, EnLlamada(e, k, "leyendo"), NEW z, Manso(e, z, 0), NEW v,
           NEW x \in Entrega(z, k, "READ_OK", v)
    PROVE  Contestado(e, x, k)
<1>1. k \in DOMAIN e.fds /\ 0 \notin DOMAIN e.fds
  BY DEF EnLlamada, EsSes, EsFichas, EsSec
<1>2. Manso(e, z, k) /\ EsSes(z)
  BY <1>1, MansoMas, MansoEs
<1>3. EnLlamada(z, k, "leyendo") /\ z.fds[k].sock = e.fds[k].sock
  BY <1>1, <1>2 DEF EnLlamada, Manso, MismosFds
<1>4. "READ_OK" \in Espera("leyendo")
  BY DEF Espera
<1>5. Contestado(z, x, k)
  BY <1>2, <1>3, <1>4, EntregaContesta
<1>6. QED
  BY <1>1, <1>2, <1>5, MansoLuegoContestado

\* The first step of a read.
LEMMA LeerPrimeroCierto ==
    ASSUME NEW e, EsSes(e), NEW k, EnLlamada(e, k, "leyendo"), NEW m,
           NEW x \in LeerPrimero(e, k, m)
    PROVE  Resultado(e, x, k, m.id, "leyendo")
<1> DEFINE n == e.fds[k].oft
           f == e.oft[n]
           p == e.fds[k].pos
           dos == <<f.sec[p + 1], f.sec[p + 2]>>
           w == [e EXCEPT !.oft[n].buf = IF HayCache THEN [i \in 1..2 |-> BuscarCache(e, dos[i], @[i])] ELSE @]
           P(y, t, s) == PideDa([y EXCEPT !.fds[k].paso = 1, !.fds[k].s = s], t, m.id, s, <<>>)
<1>1. PICK y \in UsaArchivo(e, k) :
         \/ x = y \/ x = e \/ x = w
         \/ \E t \in {"GET", "GET1"} : \E s : x \in P(Avanza(w, k, 2), t, s)
         \/ \E t \in {"GET", "GET1"} : \E s : x \in P(Avanza(e, k, 1), t, s)
         \/ \E v : x \in Entrega(Avanza(w, k, 2), k, "READ_OK", v)
         \/ x \in PuedeMorir(e, "cache")
         \/ x \in Entrega([e EXCEPT !.fds[k].paso = 2], k, "READ_OK", <<>>)
  <2> DEFINE U == UsaArchivo(e, k)
             C == {i \in 1..2 : HayCache /\ Acierta(e, dos[i])}
             B == e.fds[k].tot - p
  <2>1. PICK y \in U : x \in IF y.vsk # "atendiendo" THEN {y} ELSE
           CASE f.modo # "R" -> {e}
             [] B >= 2 /\ C = {} -> P(Avanza(w, k, 2), "GET", dos)
             [] B >= 2 /\ C = {1, 2} -> Entrega(Avanza(w, k, 2), k, "READ_OK", w.oft[n].buf)
             [] B >= 2 /\ Cardinality(C) = 1 -> {w}
             [] B = 1 /\ HayCache /\ e.cant = -1 -> {e}
             [] B = 1 -> P(Avanza(e, k, 1), "GET1", <<f.sec[p + 1]>>)
                              \union (IF HayCache THEN {} ELSE PuedeMorir(e, "cache"))
             [] OTHER -> Entrega([e EXCEPT !.fds[k].paso = 2], k, "READ_OK", <<>>)
    BY DEF LeerPrimero, Luego
  <2> HIDE DEF w, U, C, B, P, dos, f, p, n
  <2>2. QED
    BY <2>1, Zenon DEF U
<1>2. Ileso(e, w) /\ EsSes(w)
  <2> DEFINE b == IF HayCache THEN [i \in 1..2 |-> BuscarCache(e, dos[i], e.oft[n].buf[i])] ELSE e.oft[n].buf
  <2>1. w = [e EXCEPT !.oft[n].buf = b]
    OBVIOUS
  <2> HIDE DEF b, w, dos, f, p, n
  <2>2. QED
    BY <2>1, RozaOft
<1> HIDE DEF w, n, f, p, dos
<1>3. EsVsk(e) /\ k \in DOMAIN e.fds /\ Ileso(e, e)
  BY MismoIleso DEF EsSes, EnLlamada
<1>4. ASSUME NEW z, Ileso(e, z), NEW c PROVE Manso(e, Avanza(z, k, c), 0)
  <2>1. Manso(e, z, 0) /\ EsSes(z) /\ k \in DOMAIN z.fds
    <3>1. Manso(e, z, 0) /\ EsSes(z)
      BY <1>4, IlesoManso
    <3>2. QED
      BY <1>3, <1>4, <3>1 DEF Ileso
  <2>2. \E b : Avanza(z, k, c) = [z EXCEPT !.fds[k].pos = b]
    BY DEF Avanza
  <2>3. Manso(z, Avanza(z, k, c), 0)
    BY <2>1, <2>2, RozaPaso
  <2>4. QED
    BY <2>1, <2>3, MansoManso
<1>5. ASSUME NEW z, Manso(e, z, 0), NEW t \in {"GET", "GET1"}, NEW s, x \in P(z, t, s)
      PROVE  Manda(e, x, m.id, "leyendo")
  <2> DEFINE z1 == [z EXCEPT !.fds[k].paso = 1]
             z2 == [z1 EXCEPT !.fds[k].s = s]
  <2>1. x \in PideDa(z2, t, m.id, s, <<>>)
    BY <1>5
  <2>2. z1 = [z EXCEPT !.fds[k].paso = 1] /\ z2 = [z1 EXCEPT !.fds[k].s = s]
    OBVIOUS
  <2> HIDE DEF z1, z2, P
  <2>3. EsSes(z) /\ k \in DOMAIN z.fds
    BY <1>3, <1>5, MansoEs
  <2>4. Manso(z, z1, 0) /\ EsSes(z1) /\ k \in DOMAIN z1.fds
    BY <2>2, <2>3, RozaPaso
  <2>5. Manso(z1, z2, 0) /\ EsSes(z2)
    BY <2>2, <2>4, RozaPaso
  <2>6. Manso(e, z1, 0)
    BY <1>5, <2>4, MansoManso
  <2>7. Manso(e, z2, 0)
    BY <2>5, <2>6, MansoManso
  <2>8. t \in {"GET", "GET1", "PUT", "DOS"}
    BY <1>5
  <2>9. Manda(z2, x, m.id, "leyendo")
    BY <2>1, <2>5, <2>8, PideDaManda
  <2>10. QED
    BY <2>7, <2>9, MansoLuegoManda
<1> HIDE DEF P
<1>6. CASE x = y \/ x = e \/ x = w \/ x \in PuedeMorir(e, "cache")
  <2>1. Ileso(e, x)
    BY <1>2, <1>3, <1>6, UsaArchivoIleso, FinIleso, PuedeMorirIgual
  <2>2. QED
    BY <2>1, IlesoManda DEF Resultado
<1>7. CASE \E t \in {"GET", "GET1"} : \E s : x \in P(Avanza(w, k, 2), t, s)
  BY <1>2, <1>4, <1>5, <1>7 DEF Resultado
<1>8. CASE \E t \in {"GET", "GET1"} : \E s : x \in P(Avanza(e, k, 1), t, s)
  BY <1>3, <1>4, <1>5, <1>8 DEF Resultado
<1>9. CASE \E v : x \in Entrega(Avanza(w, k, 2), k, "READ_OK", v)
  BY <1>2, <1>4, <1>9, LeidoContesta DEF Resultado
<1>10. CASE x \in Entrega([e EXCEPT !.fds[k].paso = 2], k, "READ_OK", <<>>)
  <2>1. Manso(e, [e EXCEPT !.fds[k].paso = 2], 0)
    BY <1>3, RozaPaso
  <2>2. QED
    BY <1>10, <2>1, LeidoContesta DEF Resultado
<1>11. QED
  BY <1>1, <1>6, <1>7, <1>8, <1>9, <1>10

\* The step of a read that has its sectors, or its content.
LEMMA LeerCierto ==
    ASSUME NEW e, EsSes(e), NEW k, EnLlamada(e, k, "leyendo"), NEW m, NEW x \in Leer(e, k, m), Calma(x)
    PROVE  Resultado(e, x, k, m.id, "leyendo")
<1> DEFINE n == e.fds[k].oft
           s == e.fds[k].s
           w == [e EXCEPT !.oft[n].buf = m.v, !.fds[k].paso = 0]
           D(y, i) == IF HayCache /\ i \in DOMAIN e.fds[k].s THEN GuardarEnCache(y, s[i], m.v[i]) ELSE {y}
<1>1. PICK y \in UsaArchivo(e, k) :
         \/ x = y
         \/ x \in Luego(D(w, 1), LAMBDA v : Luego(D(v, 2), LAMBDA z : Entrega(z, k, "READ_OK", m.v)))
         \/ x = Fin(e, "bloqueada")
         \/ x = Desfasa(e)
  BY DEF Leer, Luego
<1>2. EsVsk(e) /\ k \in DOMAIN e.fds
  BY DEF EsSes, EnLlamada
<1>3. CASE x = y \/ x = Fin(e, "bloqueada") \/ x = Desfasa(e)
  <2>1. x # Desfasa(e)
    BY <1>2, DesfasaNo
  <2>2. Ileso(e, x)
    BY <1>2, <1>3, <2>1, UsaArchivoIleso, MismoIleso, FinIleso
  <2>3. QED
    BY <2>2, IlesoManda DEF Resultado
<1>4. Manso(e, w, 0)
  <2> DEFINE w1 == [e EXCEPT !.oft[n].buf = m.v]
             w2 == [w1 EXCEPT !.fds[k].paso = 0]
  <2>1. w = w2
    OBVIOUS
  <2>2. w1 = [e EXCEPT !.oft[n].buf = m.v] /\ w2 = [w1 EXCEPT !.fds[k].paso = 0]
    OBVIOUS
  <2> HIDE DEF w, n, w1, w2
  <2>3. Ileso(e, w1) /\ EsSes(w1)
    BY <2>2, RozaOft
  <2>4. k \in DOMAIN w1.fds /\ Manso(e, w1, 0)
    BY <1>2, <2>3, IlesoManso DEF Ileso
  <2>5. Manso(w1, w2, 0)
    BY <2>2, <2>3, <2>4, RozaPaso
  <2>6. QED
    BY <2>1, <2>4, <2>5, MansoManso
<1>5. ASSUME NEW y1, Manso(e, y1, 0), NEW i, NEW z \in D(y1, i) PROVE Manso(e, z, 0)
  <2>1. EsSes(y1) /\ EsVsk(y1)
    BY <1>5, MansoEs DEF EsSes
  <2>2. Ileso(y1, z)
    BY <1>5, <2>1, GuardarIleso, MismoIleso
  <2>3. Manso(y1, z, 0)
    BY <2>1, <2>2, IlesoManso
  <2>4. QED
    BY <1>5, <2>3, MansoManso
<1> HIDE DEF D, w, n, s
<1>6. CASE x \in Luego(D(w, 1), LAMBDA v : Luego(D(v, 2), LAMBDA z : Entrega(z, k, "READ_OK", m.v)))
  <2>1. PICK v \in D(w, 1) : \/ x = v
                             \/ x \in Luego(D(v, 2), LAMBDA z : Entrega(z, k, "READ_OK", m.v))
    BY <1>6 DEF Luego
  <2>2. Manso(e, v, 0)
    BY <1>4, <1>5
  <2>3. CASE x = v
    BY <2>2, <2>3, MansoManda DEF Resultado
  <2>4. CASE x \in Luego(D(v, 2), LAMBDA z : Entrega(z, k, "READ_OK", m.v))
    <3>1. PICK z \in D(v, 2) : x = z \/ x \in Entrega(z, k, "READ_OK", m.v)
      BY <2>4 DEF Luego
    <3>2. Manso(e, z, 0)
      BY <1>5, <2>2
    <3>3. QED
      BY <3>1, <3>2, MansoManda, LeidoContesta DEF Resultado
  <2>5. QED
    BY <2>1, <2>3, <2>4
<1>7. QED
  BY <1>1, <1>3, <1>6

\* The case ERROR of a write: the client is closed, and its descriptor stays.
LEMMA ErrorCierto ==
    ASSUME NEW e, EsSes(e), e.vsk = "atendiendo", NEW m, EnLlamada(e, FdPorId(e, m.id), "escribiendo"),
           NEW x \in ErrorDelSfs(e, m)
    PROVE  Resultado(e, x, FdPorId(e, m.id), m.id, "escribiendo")
<1> DEFINE k == FdPorId(e, m.id)
           F == IF e.fds[k].oft = 0 THEN {e} ELSE Luego(UsaArchivo(e, k), LAMBDA y : QuitarOft(y, TRUE))
           c == e.fds[k].sock
<1>1. k \in DOMAIN e.fds /\ EsVsk(e) /\ k # 0
  BY DEF EnLlamada, EsSes, EsFichas, EsSec
<1>2. x \in Luego(F, LAMBDA y : Luego(Entrega(y, k, "ERROR", <<>>), LAMBDA z : {CierraSocket(z, c)}))
  BY <1>1 DEF ErrorDelSfs
<1>3. ASSUME NEW y \in F PROVE Ileso(e, y)
  <2>1. CASE e.fds[k].oft = 0
    BY <1>1, <1>3, <2>1, MismoIleso
  <2>2. CASE e.fds[k].oft # 0
    <3>1. PICK w \in UsaArchivo(e, k) : y = w \/ y \in QuitarOft(w, TRUE)
      BY <1>3, <2>2 DEF Luego
    <3>2. Ileso(e, w)
      BY <1>1, UsaArchivoIleso, MismoIleso
    <3>3. QED
      BY <3>1, <3>2, QuitarOftIleso, IlesoIleso DEF Ileso
  <2>3. QED
    BY <2>1, <2>2
<1>4. EnLlamada(e, k, "escribiendo")
  OBVIOUS
<1> HIDE DEF F, c, k
<1>5. PICK y \in F : \/ x = y
                     \/ y.vsk = "atendiendo" /\ x \in Luego(Entrega(y, k, "ERROR", <<>>), LAMBDA z : {CierraSocket(z, c)})
  BY <1>2 DEF Luego
<1>6. Ileso(e, y) /\ EsSes(y)
  BY <1>3, IlesoManso
<1>7. CASE x = y
  BY <1>6, <1>7, IlesoManda DEF Resultado, k
<1>8. CASE y.vsk = "atendiendo" /\ x \in Luego(Entrega(y, k, "ERROR", <<>>), LAMBDA z : {CierraSocket(z, c)})
  <2>1. PICK z \in Entrega(y, k, "ERROR", <<>>) : (x = z /\ z.vsk # "atendiendo") \/ x = CierraSocket(z, c)
    BY <1>8 DEF Luego
  <2>2. /\ k \in DOMAIN y.fds /\ c = y.fds[k].sock /\ y.cl[c].id = y.fds[k].id
        /\ "ERROR" \in Espera(y.cl[c].est)
    BY <1>1, <1>4, <1>6 DEF EnLlamada, Ileso, c, Espera
  <2>3. /\ EsVsk(z) /\ Recuerda(y, z) /\ z.ped = y.ped /\ z.ajena = y.ajena
        /\ z.aSfs = y.aSfs /\ z.aDa = y.aDa /\ z.fds = y.fds /\ z.vsk = y.vsk
        /\ z.cl = [y.cl EXCEPT ![c] = Recibe(y.cl[c], "ERROR", <<>>)]
    BY <1>6, <2>2, EntregaSuya
  <2>4. SoloCliente(y, z, c)
    BY <2>3 DEF SoloCliente
  <2>5. x = CierraSocket(z, c)
    BY <1>8, <2>1, <2>3
  <2>6. Salido(y, x, c)
    BY <2>4, <2>5, CierraSale
  <2>7. QED
    BY <1>6, <2>6, IlesoLuegoSalido DEF Resultado, c, k
<1>9. QED
  BY <1>5, <1>7, <1>8 DEF k

-----------------------------------------------------------------------------
(* What a call does to the sessions *)

\* The descriptor of a session is the first one of its socket.
LEMMA SuFicha ==
    ASSUME NEW cs, NEW ps, NEW f, NEW n, Sesiones(cs, ps, f, n), NEW c \in Sockets,
           cs[c].est # "fuera", ps[c].t \notin {"OPEN", "LIST"},
           NEW k \in DOMAIN f, f[k].id = cs[c].id
    PROVE  /\ SuFd(f, k, c, cs[c].id)
           /\ cs[c].est \in SinArchivo => f[k].oft = 0
           /\ ps[c].t = Nada /\ cs[c].est \in Esperando => f[k].sys = SysDe(cs[c].est)
<1>1. Abierta(cs[c], ps[c], f, c)
  BY DEF Sesiones, Sesion
<1>2. PICK j \in DOMAIN f : /\ SuFd(f, j, c, cs[c].id)
                            /\ cs[c].est \in SinArchivo => f[j].oft = 0
                            /\ ps[c].t = Nada /\ cs[c].est \in Esperando => f[j].sys = SysDe(cs[c].est)
  BY <1>1 DEF Abierta
<1>3. j = k
  BY <1>2 DEF SuFd, Sesiones
<1>4. QED
  BY <1>2, <1>3

\* A session of which the descriptors keep what it needs goes on.
LEMMA SigueAbierta ==
    ASSUME NEW r, NEW m, NEW f, NEW c, Abierta(r, m, f, c), NEW g, NEW k, MismosFds(f, g, k),
           k \in DOMAIN f => f[k].sock # c
    PROVE  Abierta(r, m, g, c)
<1>1. PICK j \in DOMAIN f : /\ SuFd(f, j, c, r.id)
                            /\ r.est \in SinArchivo => f[j].oft = 0
                            /\ m.t = Nada /\ r.est \in Esperando => f[j].sys = SysDe(r.est)
  BY DEF Abierta
<1>2. j # k
  BY <1>1 DEF SuFd
<1>3. g[j].oft = f[j].oft /\ g[j].sys = f[j].sys /\ j \in DOMAIN g
  BY <1>2 DEF MismosFds
<1>4. SuFd(g, j, c, r.id)
  BY <1>1 DEF SuFd, MismosFds
<1>5. QED
  BY <1>1, <1>3, <1>4 DEF Abierta

\* A session that waits to be opened goes on waiting, if no descriptor takes its identifier.
LEMMA SiguePorAbrir ==
    ASSUME NEW r, NEW m, NEW f, PorAbrir(r, m, f), NEW g, NEW k, MismosFds(f, g, k)
    PROVE  PorAbrir(r, m, g)
BY DEF PorAbrir, MismosFds

\* Sessions and descriptors that keep what counts are still sessions.
LEMMA MismosSesiones ==
    ASSUME NEW cs, NEW ps, NEW f, NEW n, Sesiones(cs, ps, f, n), NEW g, MismosFds(f, g, 0), 0 \notin DOMAIN f
    PROVE  Sesiones(cs, ps, g, n)
<1>1. ASSUME NEW c \in Sockets PROVE Sesion(cs, ps, g, n, c)
  <2>1. Abierta(cs[c], ps[c], f, c) => Abierta(cs[c], ps[c], g, c)
    BY SigueAbierta
  <2>2. PorAbrir(cs[c], ps[c], f) => PorAbrir(cs[c], ps[c], g)
    BY SiguePorAbrir
  <2>3. Sesion(cs, ps, f, n, c)
    BY DEF Sesiones
  <2>4. QED
    BY <2>1, <2>2, <2>3 DEF Sesion
<1>2. \A k \in DOMAIN g : g[k].id \in 1..n
  BY DEF MismosFds, Sesiones
<1>3. \A j, k \in DOMAIN g : g[j].id = g[k].id => j = k
  BY DEF MismosFds, Sesiones
<1>4. QED
  BY <1>1, <1>2, <1>3 DEF Sesiones

\* The call of the session of the descriptor k is under way.
EnCamino(e, k, est, n) == /\ EsSes(e) /\ Sesiones(e.cl, e.ped, e.fds, n)
                          /\ EnLlamada(e, k, est) /\ est \in Esperando
                          /\ e.ped[e.fds[k].sock].t = Nada

\* The three results of a call keep the sessions.
LEMMA SesionesManda ==
    ASSUME NEW e, EsSes(e), NEW n, Sesiones(e.cl, e.ped, e.fds, n), NEW x, NEW id, NEW est, Manda(e, x, id, est)
    PROVE  EsSes(x) /\ Sesiones(x.cl, x.ped, x.fds, n)
<1>1. EsSes(x)
  BY DEF EsSes, Manda, MismosFds
<1>2. 0 \notin DOMAIN e.fds
  BY DEF EsSes, EsFichas, EsSec
<1>3. Sesiones(e.cl, e.ped, x.fds, n)
  BY <1>2, MismosSesiones DEF Manda
<1>4. QED
  BY <1>1, <1>3 DEF Manda

LEMMA SesionesContestado ==
    ASSUME NEW e, NEW k, NEW est, NEW n, EnCamino(e, k, est, n), NEW x, Contestado(e, x, k)
    PROVE  EsSes(x) /\ Sesiones(x.cl, x.ped, x.fds, n)
<1> DEFINE c == e.fds[k].sock
<1>1. /\ EsSes(e) /\ k \in DOMAIN e.fds /\ e.cl[c].est = est /\ e.cl[c].id = e.fds[k].id
      /\ est \in Esperando /\ est # "fuera" /\ e.ped[c].t = Nada /\ Sesiones(e.cl, e.ped, e.fds, n)
  BY DEF EnCamino, EnLlamada, Esperando
<1>2. c \in Sockets /\ DOMAIN e.cl = Sockets /\ 0 \notin DOMAIN e.fds
  BY <1>1 DEF EsSes, EsFichas, EsClientes, EsSec
<1>3. PICK s : /\ Contestada(e.cl[c], s)
               /\ x.cl = [e.cl EXCEPT ![c] = s]
               /\ MismosFds(e.fds, x.fds, IF s.est = "fallido" THEN 0 ELSE k)
  BY DEF Contestado
<1> HIDE DEF c
<1>4. /\ x.ped = e.ped /\ x.cl[c] = s /\ \A b \in Sockets : b # c => x.cl[b] = e.cl[b]
  BY <1>2, <1>3 DEF Contestado
<1>5. Nada \notin {"OPEN", "LIST"}
  BY DEF Nada
<1>6. /\ SuFd(e.fds, k, c, e.cl[c].id)
      /\ e.cl[c].est \in SinArchivo => e.fds[k].oft = 0
  BY <1>1, <1>2, <1>5, SuFicha
<1>7. ASSUME NEW b \in Sockets, b # c PROVE Sesion(x.cl, x.ped, x.fds, n, b)
  <2> DEFINE q == IF s.est = "fallido" THEN 0 ELSE k
  <2>1. q \in DOMAIN e.fds => e.fds[q].sock # b
    BY <1>2, <1>7 DEF c
  <2> HIDE DEF q
  <2>2. MismosFds(e.fds, x.fds, q)
    BY <1>3 DEF q
  <2>3. Abierta(e.cl[b], e.ped[b], e.fds, b) => Abierta(e.cl[b], e.ped[b], x.fds, b)
    BY <2>1, <2>2, SigueAbierta
  <2>4. PorAbrir(e.cl[b], e.ped[b], e.fds) => PorAbrir(e.cl[b], e.ped[b], x.fds)
    BY <2>2, SiguePorAbrir
  <2>5. Sesion(e.cl, e.ped, e.fds, n, b)
    BY <1>1 DEF Sesiones
  <2>6. \A a \in Sockets : x.cl[a].id = e.cl[a].id /\ (x.cl[a].est # "fuera" => e.cl[a].est # "fuera")
    BY <1>1, <1>3, <1>4 DEF Contestada
  <2>7. QED
    BY <1>4, <1>7, <2>3, <2>4, <2>5, <2>6 DEF Sesion
<1>8. Sesion(x.cl, x.ped, x.fds, n, c)
  <2>1. Sesion(e.cl, e.ped, e.fds, n, c)
    BY <1>1, <1>2 DEF Sesiones
  <2>2. s.id = e.cl[c].id /\ s.est \in {"abierto", "leido", "fallido"} /\ s.est # "fuera"
    BY <1>3 DEF Contestada
  <2>3. s.est \in Ests /\ s.est \notin Esperando
    BY <2>2 DEF Ests, Esperando
  <2>4. \A b \in Sockets : x.cl[b].est # "fuera" /\ x.cl[b].id = s.id => b = c
    BY <1>1, <1>4, <2>1, <2>2 DEF Sesion
  <2>5. SuFd(x.fds, k, c, s.id)
    BY <1>3, <1>6, <2>2 DEF SuFd, MismosFds
  <2>6. s.est \in SinArchivo => x.fds[k].oft = 0
    <3>1. s.est \in SinArchivo => s.est = "fallido"
      BY <2>2 DEF SinArchivo
    <3>2. s.est = "fallido" => e.cl[c].est = "abriendo" /\ x.fds[k].oft = e.fds[k].oft
      BY <1>1, <1>2, <1>3 DEF Contestada, MismosFds
    <3>3. "abriendo" \in SinArchivo
      BY DEF SinArchivo
    <3>4. QED
      BY <1>6, <3>1, <3>2, <3>3
  <2>7. Abierta(s, x.ped[c], x.fds, c)
    BY <1>1, <2>3, <2>5, <2>6 DEF Abierta, SuFd
  <2>8. s.id \in 1..n
    BY <1>1, <2>1, <2>2 DEF Sesion
  <2>9. QED
    BY <1>1, <1>4, <1>5, <2>2, <2>3, <2>4, <2>7, <2>8 DEF Sesion
<1>9. \A j \in DOMAIN x.fds : x.fds[j].id \in 1..n
  BY <1>1, <1>3 DEF MismosFds, Sesiones
<1>10. \A i, j \in DOMAIN x.fds : x.fds[i].id = x.fds[j].id => i = j
  BY <1>1, <1>3 DEF MismosFds, Sesiones
<1>11. EsSes(x)
  BY <1>1, ContestadoEs
<1>12. QED
  BY <1>7, <1>8, <1>9, <1>10, <1>11 DEF Sesiones

\* A descriptor that is nobody's may go.
LEMMA QuitaUno ==
    ASSUME NEW f, EsSec(f), NEW i \in DOMAIN f
    PROVE  /\ EsSec(RemoveAt(f, i)) /\ i \in Nat /\ DOMAIN f \subseteq Nat
           /\ \A j \in DOMAIN RemoveAt(f, i) :
                 IF j < i THEN j \in DOMAIN f /\ RemoveAt(f, i)[j] = f[j]
                 ELSE j + 1 \in DOMAIN f /\ RemoveAt(f, i)[j] = f[j + 1]
           /\ DOMAIN RemoveAt(f, i) \subseteq Nat
           /\ \A j \in DOMAIN f : /\ j < i => j \in DOMAIN RemoveAt(f, i)
                                  /\ j > i => j - 1 \in DOMAIN RemoveAt(f, i)
<1> DEFINE S == {f[j] : j \in DOMAIN f}
           u == SubSeq(f, 1, i - 1)
           v == SubSeq(f, i + 1, Len(f))
           g == u \o v
<1>1. f \in Seq(S)
  BY DEF EsSec
<1> HIDE DEF S
<1>2. Len(f) \in Nat /\ i \in 1..Len(f) /\ DOMAIN f = 1..Len(f) /\ \A j \in 1..Len(f) : f[j] \in S
  BY <1>1
<1>3. u \in Seq(S) /\ Len(u) = i - 1 /\ \A j \in 1..i - 1 : u[j] = f[j]
  <2>1. \A j \in 1..(i - 1) : f[j] \in S
    BY <1>2
  <2>2. /\ u \in Seq(S) /\ Len(u) = IF 1 <= i - 1 THEN (i - 1) - 1 + 1 ELSE 0
        /\ \A j \in 1..(i - 1) - 1 + 1 : u[j] = f[1 + j - 1]
    BY <1>2, <2>1, SubSeqProperties
  <2> HIDE DEF u
  <2>3. (i - 1) - 1 + 1 = i - 1 /\ (IF 1 <= i - 1 THEN (i - 1) - 1 + 1 ELSE 0) = i - 1
    BY <1>2
  <2>4. ASSUME NEW j \in 1..i - 1 PROVE u[j] = f[j]
    <3>1. 1 + j - 1 = j
      BY <1>2
    <3>2. QED
      BY <2>2, <2>3, <3>1
  <2>5. QED
    BY <2>2, <2>3, <2>4
<1>4. v \in Seq(S) /\ Len(v) = Len(f) - i /\ \A j \in 1..Len(f) - i : v[j] = f[i + j]
  <2>1. \A j \in (i + 1)..Len(f) : f[j] \in S
    BY <1>2
  <2>2. /\ v \in Seq(S) /\ Len(v) = IF i + 1 <= Len(f) THEN Len(f) - (i + 1) + 1 ELSE 0
        /\ \A j \in 1..Len(f) - (i + 1) + 1 : v[j] = f[i + 1 + j - 1]
    BY <1>2, <2>1, SubSeqProperties
  <2> HIDE DEF v
  <2>3. /\ Len(f) - (i + 1) + 1 = Len(f) - i
        /\ (IF i + 1 <= Len(f) THEN Len(f) - (i + 1) + 1 ELSE 0) = Len(f) - i
    BY <1>2
  <2>4. ASSUME NEW j \in 1..Len(f) - i PROVE v[j] = f[i + j]
    <3>1. i + 1 + j - 1 = i + j
      BY <1>2
    <3>2. QED
      BY <2>2, <2>3, <3>1
  <2>5. QED
    BY <2>2, <2>3, <2>4
<1>5. RemoveAt(f, i) = g
  BY DEF RemoveAt
<1> HIDE DEF u, v
<1>6. /\ g \in Seq(S) /\ Len(g) = Len(f) - 1
      /\ \A j \in 1..Len(f) - 1 : g[j] = IF j <= i - 1 THEN u[j] ELSE v[j - (i - 1)]
  <2>1. /\ g \in Seq(S) /\ Len(g) = Len(u) + Len(v)
        /\ \A j \in 1..Len(u) + Len(v) : g[j] = IF j <= Len(u) THEN u[j] ELSE v[j - Len(u)]
    BY <1>3, <1>4, ConcatProperties
  <2> HIDE DEF g
  <2>2. QED
    BY <1>2, <1>3, <1>4, <2>1
<1> HIDE DEF g
<1>7. DOMAIN g = 1..Len(f) - 1 /\ EsSec(g)
  BY <1>6, SecEs
<1>8. \A j \in 1..Len(f) - 1 : g[j] = IF j < i THEN f[j] ELSE f[j + 1]
  <2>1. ASSUME NEW j \in 1..Len(f) - 1, j < i PROVE g[j] = f[j]
    BY <1>2, <1>3, <1>6, <2>1
  <2>2. ASSUME NEW j \in 1..Len(f) - 1, ~(j < i) PROVE g[j] = f[j + 1]
    <3>1. g[j] = v[j - (i - 1)] /\ j - (i - 1) \in 1..Len(f) - i
      BY <1>2, <1>6, <2>2
    <3>2. v[j - (i - 1)] = f[i + (j - (i - 1))]
      BY <1>4, <3>1
    <3>3. i + (j - (i - 1)) = j + 1
      BY <1>2, <2>2
    <3>4. QED
      BY <3>1, <3>2, <3>3
  <2>3. QED
    BY <2>1, <2>2
<1>9. /\ \A j \in 1..Len(f) - 1 : IF j < i THEN j \in 1..Len(f) ELSE j + 1 \in 1..Len(f)
      /\ \A j \in 1..Len(f) : /\ j < i => j \in 1..Len(f) - 1
                              /\ j > i => j - 1 \in 1..Len(f) - 1
      /\ 1..Len(f) \subseteq Nat /\ 1..Len(f) - 1 \subseteq Nat /\ i \in Nat
  BY <1>2
<1>10. QED
  BY <1>2, <1>5, <1>7, <1>8, <1>9

\* A client goes out: the descriptor it leaves is nobody's.
LEMMA SesionesSalido ==
    ASSUME NEW e, NEW n, EsSes(e), Sesiones(e.cl, e.ped, e.fds, n), NEW c \in Sockets, NEW x, Salido(e, x, c)
    PROVE  EsSes(x) /\ Sesiones(x.cl, x.ped, x.fds, n)
<1>1. /\ x.cl[c] = Fuera /\ x.ped[c] = NoLlamada
      /\ \A b \in Sockets : b # c => x.cl[b] = e.cl[b] /\ x.ped[b] = e.ped[b]
      /\ EsClientes(e.cl) /\ EsFichas(e.fds) /\ EsSec(e.fds) /\ DOMAIN e.ped = Sockets
      /\ DOMAIN Fuera = CamposCl /\ Fuera.est = "fuera" /\ NoLlamada.t = Nada
  BY DEF Salido, EsSes, EsClientes, EsFichas, EsVsk, EsPed, Fuera, CamposCl, NoLlamada, Llamada
<1>2. EsClientes(x.cl)
  BY <1>1 DEF Salido, EsClientes
<1> DEFINE f == e.fds
           g == x.fds
\* Each descriptor that stays is one of the old ones, and each old one but
\* that of nobody stays, in the same order.
<1>3. \E i \in DOMAIN f \union {0} : g = f \/ (DeNadie(e.cl, f, i, c) /\ g = RemoveAt(f, i))
  BY DEF Salido, DeNadie
<1>4. PICK i \in DOMAIN f \union {0} : g = f \/ (DeNadie(e.cl, f, i, c) /\ g = RemoveAt(f, i))
  BY <1>3
<1> HIDE DEF f, g
<1>5. CASE g = f
  <2>1. EsSes(x)
    BY <1>1, <1>2, <1>5 DEF EsSes, Salido, f, g
  <2>2. ASSUME NEW b \in Sockets PROVE Sesion(x.cl, x.ped, g, n, b)
    <3>1. CASE b = c
      BY <1>1, <3>1 DEF Sesion, Ests
    <3>2. CASE b # c
      <4>1. Sesion(e.cl, e.ped, f, n, b)
        BY DEF Sesiones, f
      <4>2. \A a \in Sockets : x.cl[a].est # "fuera" => x.cl[a] = e.cl[a]
        BY <1>1
      <4>3. QED
        BY <1>1, <1>5, <3>2, <4>1, <4>2 DEF Sesion
    <3>3. QED
      BY <3>1, <3>2
  <2>3. QED
    BY <1>5, <2>1, <2>2 DEF Sesiones, f, g
<1>6. CASE DeNadie(e.cl, f, i, c) /\ g = RemoveAt(f, i)
  <2>1. i \in DOMAIN f /\ EsSec(f)
    BY <1>1, <1>6 DEF DeNadie, f
  <2>2. /\ EsSec(g) /\ i \in Nat /\ DOMAIN f \subseteq Nat
        /\ \A j \in DOMAIN g : IF j < i THEN j \in DOMAIN f /\ g[j] = f[j]
                              ELSE j + 1 \in DOMAIN f /\ g[j] = f[j + 1]
        /\ DOMAIN g \subseteq Nat
        /\ \A j \in DOMAIN f : (j < i => j \in DOMAIN g) /\ (j > i => j - 1 \in DOMAIN g)
    BY <1>6, <2>1, QuitaUno
  <2> DEFINE V(j) == IF j < i THEN j ELSE j + 1
             N(j) == IF j < i THEN j ELSE j - 1
  <2>3. \A j \in DOMAIN g : V(j) \in DOMAIN f /\ g[j] = f[V(j)]
    BY <2>2
  <2>4. \A j, k \in DOMAIN g : V(j) = V(k) => j = k
    BY <2>2
  <2>5. \A j \in DOMAIN f : j # i => N(j) \in DOMAIN g /\ V(N(j)) = j
    BY <2>2
  <2>6. \A j \in DOMAIN g : \A k \in DOMAIN f : k # i /\ k <= V(j) => N(k) <= j
    BY <2>2
  <2> HIDE DEF V, N
  <2>7. EsFichas(g)
    BY <1>1, <2>2, <2>3 DEF EsFichas, f
  <2>8. EsSes(x)
    BY <1>2, <2>7 DEF EsSes, Salido, g
  <2>9. /\ \A k \in DOMAIN f : f[k].id \in 1..n
        /\ \A j, k \in DOMAIN f : f[j].id = f[k].id => j = k
        /\ \A b \in Sockets : Sesion(e.cl, e.ped, f, n, b)
    BY DEF Sesiones, f
  <2>10. ASSUME NEW b \in Sockets PROVE Sesion(x.cl, x.ped, g, n, b)
    <3>1. CASE b = c
      BY <1>1, <3>1 DEF Sesion, Ests
    <3>2. CASE b # c
      <4>1. Sesion(e.cl, e.ped, f, n, b)
        BY <2>9
      <4>2. \A a \in Sockets : x.cl[a].est # "fuera" => x.cl[a] = e.cl[a]
        BY <1>1
      <4>3. PorAbrir(e.cl[b], e.ped[b], f) => PorAbrir(e.cl[b], e.ped[b], g)
        BY <2>3 DEF PorAbrir
      <4>4. ASSUME Abierta(e.cl[b], e.ped[b], f, b), e.cl[b].est # "fuera"
            PROVE  Abierta(e.cl[b], e.ped[b], g, b)
        <5>1. PICK k \in DOMAIN f : /\ SuFd(f, k, b, e.cl[b].id)
                                    /\ e.cl[b].est \in SinArchivo => f[k].oft = 0
                                    /\ e.ped[b].t = Nada /\ e.cl[b].est \in Esperando
                                          => f[k].sys = SysDe(e.cl[b].est)
          BY <4>4 DEF Abierta
        <5>2. k # i
          BY <1>6, <4>4, <5>1 DEF DeNadie, SuFd
        <5>3. N(k) \in DOMAIN g /\ V(N(k)) = k /\ g[N(k)] = f[k]
          BY <2>3, <2>5, <5>2
        <5>4. ASSUME NEW j \in DOMAIN g, g[j].sock = b PROVE N(k) <= j
          <6>1. V(j) \in DOMAIN f /\ f[V(j)].sock = b
            BY <2>3, <5>4
          <6>2. k <= V(j)
            BY <5>1, <6>1 DEF SuFd
          <6>3. QED
            BY <2>6, <5>2, <6>2
        <5>5. SuFd(g, N(k), b, e.cl[b].id)
          BY <5>1, <5>3, <5>4 DEF SuFd
        <5>6. QED
          BY <5>1, <5>3, <5>5 DEF Abierta
      <4>5. QED
        BY <1>1, <3>2, <4>1, <4>2, <4>3, <4>4 DEF Sesion
    <3>3. QED
      BY <3>1, <3>2
  <2>11. \A k \in DOMAIN g : g[k].id \in 1..n
    BY <2>3, <2>9
  <2>12. \A j, k \in DOMAIN g : g[j].id = g[k].id => j = k
    <3>1. ASSUME NEW j \in DOMAIN g, NEW k \in DOMAIN g, g[j].id = g[k].id PROVE j = k
      <4>1. f[V(j)].id = f[V(k)].id /\ V(j) \in DOMAIN f /\ V(k) \in DOMAIN f
        BY <2>3, <3>1
      <4>2. V(j) = V(k)
        BY <2>9, <4>1
      <4>3. QED
        BY <2>4, <4>2
    <3>2. QED
      BY <3>1
  <2>13. QED
    BY <2>8, <2>10, <2>11, <2>12 DEF Sesiones, g
<1>7. QED
  BY <1>4, <1>5, <1>6

\* Any of them.
LEMMA SesionesResultado ==
    ASSUME NEW e, NEW k, NEW est, NEW n, EnCamino(e, k, est, n), NEW id, NEW x, Resultado(e, x, k, id, est)
    PROVE  EsSes(x) /\ Sesiones(x.cl, x.ped, x.fds, n)
<1>1. EsSes(e) /\ Sesiones(e.cl, e.ped, e.fds, n) /\ k \in DOMAIN e.fds
  BY DEF EnCamino, EnLlamada
<1>2. CASE Manda(e, x, id, est)
  BY <1>1, <1>2, SesionesManda
<1>3. CASE Contestado(e, x, k)
  BY <1>3, SesionesContestado
<1>4. CASE Salido(e, x, e.fds[k].sock)
  <2>1. e.fds[k].sock \in Sockets
    BY <1>1 DEF EsSes, EsFichas
  <2>2. QED
    BY <1>1, <1>4, <2>1, SesionesSalido
<1>5. QED
  BY <1>2, <1>3, <1>4 DEF Resultado

-----------------------------------------------------------------------------
(* The searches of a descriptor *)

\* The first of a set of positions.
LEMMA PrimeroEs ==
    ASSUME NEW K, K \subseteq Nat \ {0}, NEW k \in K, \A j \in K : k <= j
    PROVE  PrimeroDe(K) = k
<1> DEFINE P(i) == i \in K /\ \A j \in K : i <= j
           p == CHOOSE i \in K : \A j \in K : i <= j
<1>1. p \in K /\ \A j \in K : p <= j
  OBVIOUS
<1>2. PrimeroDe(K) = p
  BY DEF PrimeroDe
<1> HIDE DEF p
<1>3. p <= k /\ k <= p /\ p \in Nat /\ k \in Nat
  BY <1>1
<1>4. QED
  BY <1>2, <1>3

\* A descriptor is found by its identifier, if there is one.
LEMMA SuPorId ==
    ASSUME NEW e, EsSes(e), NEW n, Sesiones(e.cl, e.ped, e.fds, n), NEW k \in DOMAIN e.fds
    PROVE  FdPorId(e, e.fds[k].id) = k
<1> DEFINE K == {j \in DOMAIN e.fds : e.fds[j].id = e.fds[k].id}
<1>1. K = {k}
  BY DEF Sesiones
<1>2. k \in Nat \ {0}
  BY DEF EsSes, EsFichas, EsSec
<1>3. PrimeroDe(K) = k
  <2> HIDE DEF K
  <2>1. K \subseteq Nat \ {0} /\ k \in K /\ \A j \in K : k <= j
    BY <1>1, <1>2
  <2>2. QED
    BY <2>1, PrimeroEs
<1>4. QED
  BY <1>3 DEF FdPorId

LEMMA NadiePorId ==
    ASSUME NEW e, NEW n, Sesiones(e.cl, e.ped, e.fds, n)
    PROVE  FdPorId(e, 0) = 0
<1>1. {j \in DOMAIN e.fds : e.fds[j].id = 0} = {}
  <2>1. \A j \in DOMAIN e.fds : e.fds[j].id \in 1..n
    BY DEF Sesiones
  <2>2. 0 \notin 1..n
    OBVIOUS
  <2>3. QED
    BY <2>1, <2>2
<1>2. QED
  BY <1>1 DEF FdPorId, PrimeroDe

\* And by its socket.
LEMMA SuPorSocket ==
    ASSUME NEW e, EsSes(e), NEW k, NEW c, NEW id, SuFd(e.fds, k, c, id)
    PROVE  FdPorSocket(e, c) = k
<1> DEFINE K == {j \in DOMAIN e.fds : e.fds[j].sock = c}
<1>1. K \subseteq Nat \ {0}
  BY DEF EsSes, EsFichas, EsSec
<1>2. k \in K /\ \A j \in K : k <= j
  BY DEF SuFd
<1>3. PrimeroDe(K) = k
  <2> HIDE DEF K
  <2>1. QED
    BY <1>1, <1>2, PrimeroEs
<1>4. QED
  BY <1>3 DEF FdPorSocket

-----------------------------------------------------------------------------
(* The answers that arrive *)

\* What touches no session leaves the call under way.
LEMMA IlesoEnCamino ==
    ASSUME NEW e, NEW k, NEW est, NEW n, EnCamino(e, k, est, n), NEW y, Ileso(e, y)
    PROVE  EnCamino(y, k, est, n)
<1>1. EsSes(y)
  BY IlesoManso DEF EnCamino
<1>2. QED
  BY <1>1 DEF EnCamino, EnLlamada, Ileso

LEMMA IlesoLuegoResultado ==
    ASSUME NEW e, EsSes(e), NEW k \in DOMAIN e.fds, NEW y, Ileso(e, y), NEW id, NEW est, NEW x,
           Resultado(y, x, k, id, est)
    PROVE  Resultado(e, x, k, id, est)
<1>1. y.fds = e.fds /\ \A j : Manso(e, y, j)
  BY IlesoManso DEF Ileso
<1>2. CASE Manda(y, x, id, est)
  BY <1>1, <1>2, MansoLuegoManda DEF Resultado
<1>3. CASE Contestado(y, x, k)
  BY <1>1, <1>3, MansoLuegoContestado DEF Resultado
<1>4. CASE Salido(y, x, y.fds[k].sock)
  BY <1>1, <1>4, IlesoLuegoSalido DEF Resultado
<1>5. QED
  BY <1>2, <1>3, <1>4 DEF Resultado

\* An answer goes on with the call of its descriptor, which is that of its session.
LEMMA RespuestaCierta ==
    ASSUME NEW e, e.vsk = "atendiendo", NEW k, NEW est, NEW n, EnCamino(e, k, est, n),
           NEW m, m.id = e.fds[k].id, NEW x \in Respuesta(e, m), Calma(x)
    PROVE  Resultado(e, x, k, m.id, est)
<1> DEFINE w == BuscaSfs(e)
<1> DEFINE G(q) == Luego({w}, LAMBDA y :
                CASE y.fds[q].sys = "OPEN" -> Abrir(y, q, m)
                  [] y.fds[q].sys = "CLOSE" -> Cerrar(y, q, m)
                  [] y.fds[q].sys = "LIST" -> Listar(y, q, m)
                  [] y.fds[q].sys = "READ" -> Leer(y, q, m)
                  [] y.fds[q].sys = "WRITE" -> Escribir(y, q, m))
<1>1. EsSes(e) /\ EsVsk(e) /\ k \in DOMAIN e.fds /\ k # 0 /\ FdPorId(e, m.id) = k
  <2>1. EsSes(e) /\ EsVsk(e) /\ k \in DOMAIN e.fds /\ k # 0 /\ Sesiones(e.cl, e.ped, e.fds, n)
    BY DEF EnCamino, EnLlamada, EsSes, EsFichas, EsSec
  <2>2. FdPorId(e, e.fds[k].id) = k
    BY <2>1, SuPorId
  <2>3. QED
    BY <2>1, <2>2
<1>2. Ileso(e, w) /\ EnCamino(w, k, est, n)
  BY <1>1, BuscaSfsIleso, IlesoEnCamino
<1>3. x \in G(k)
  <2> DEFINE q == FdPorId(e, m.id)
  <2>1. x \in IF q = 0 THEN {IF m.t \in {"DOS", "INFO", "LISTADO"} THEN Desfasa(e) ELSE e} ELSE G(q)
    BY DEF Respuesta
  <2> HIDE DEF q, w, G
  <2>2. q = k
    BY <1>1 DEF q
  <2>3. QED
    BY <1>1, <2>1, <2>2
<1> HIDE DEF w
<1>4. \/ x = w
      \/ w.vsk = "atendiendo" /\ x \in CASE w.fds[k].sys = "OPEN" -> Abrir(w, k, m)
                                         [] w.fds[k].sys = "CLOSE" -> Cerrar(w, k, m)
                                         [] w.fds[k].sys = "LIST" -> Listar(w, k, m)
                                         [] w.fds[k].sys = "READ" -> Leer(w, k, m)
                                         [] w.fds[k].sys = "WRITE" -> Escribir(w, k, m)
  BY <1>3 DEF Luego
<1>5. CASE x = w
  BY <1>1, <1>2, <1>5, IlesoManda DEF Resultado
<1>6. CASE w.vsk = "atendiendo" /\ x \in CASE w.fds[k].sys = "OPEN" -> Abrir(w, k, m)
                                         [] w.fds[k].sys = "CLOSE" -> Cerrar(w, k, m)
                                         [] w.fds[k].sys = "LIST" -> Listar(w, k, m)
                                         [] w.fds[k].sys = "READ" -> Leer(w, k, m)
                                         [] w.fds[k].sys = "WRITE" -> Escribir(w, k, m)
  <2> DEFINE c == w.fds[k].sock
  <2>1. /\ EsSes(w) /\ EnLlamada(w, k, est) /\ c \in Sockets /\ k \in DOMAIN w.fds
        /\ w.cl[c].est = est /\ w.cl[c].id = w.fds[k].id /\ w.ped[c].t = Nada
        /\ est \in Esperando /\ Sesiones(w.cl, w.ped, w.fds, n)
    BY <1>2 DEF EnCamino, EnLlamada, EsSes, EsFichas
  <2> HIDE DEF c
  <2>2. w.fds[k].sys = SysDe(est)
    <3>1. w.cl[c].est # "fuera" /\ Nada \notin {"OPEN", "LIST"}
      BY <2>1 DEF Esperando, Nada
    <3>2. QED
      BY <2>1, <3>1, SuFicha
  <2>3. \/ est = "abriendo" /\ x \in Abrir(w, k, m)
        \/ est = "cerrando" /\ x \in Cerrar(w, k, m)
        \/ est = "listando" /\ x \in Listar(w, k, m)
        \/ est = "leyendo" /\ x \in Leer(w, k, m)
        \/ est = "escribiendo" /\ x \in Escribir(w, k, m)
    BY <1>6, <2>1, <2>2 DEF Esperando, SysDe
  <2>4. Resultado(w, x, k, m.id, est)
    BY <1>6, <2>1, <2>3, AbrirCierto, CerrarCierto, ListarCierto, LeerCierto, EscribirCierto
  <2>5. QED
    BY <1>1, <1>2, <2>4, IlesoLuegoResultado
<1>7. QED
  BY <1>4, <1>5, <1>6

\* What the loop does with an answer that is somebody's.
LEMMA AtenderSfsCierto ==
    ASSUME NEW e, e.vsk = "atendiendo", NEW k, NEW est, NEW n, EnCamino(e, k, est, n),
           NEW m, m.id = e.fds[k].id, m.t # "FORMATEADO", m.t = "ERROR" => est = "escribiendo",
           NEW x \in AtenderSfs(e, m), Calma(x)
    PROVE  Resultado(e, x, k, m.id, est)
<1>1. EsSes(e) /\ EsVsk(e) /\ k \in DOMAIN e.fds /\ FdPorId(e, m.id) = k /\ EnLlamada(e, k, est)
  BY SuPorId DEF EnCamino, EnLlamada, EsSes
<1>2. CASE m.t \in {"ERROR SOLO", "TEXTO"}
  BY <1>1, <1>2, DesfasaNo DEF AtenderSfs
<1>3. CASE m.t = "ERROR"
  <2>1. x \in ErrorDelSfs(e, m) /\ est = "escribiendo" /\ EnLlamada(e, FdPorId(e, m.id), "escribiendo")
    BY <1>1, <1>3 DEF AtenderSfs
  <2>2. Resultado(e, x, FdPorId(e, m.id), m.id, "escribiendo")
    BY <1>1, <2>1, ErrorCierto
  <2>3. QED
    BY <1>1, <2>1, <2>2
<1>4. CASE m.t \notin {"ERROR SOLO", "TEXTO", "ERROR"}
  <2>1. x \in Respuesta(e, m)
    BY <1>4 DEF AtenderSfs
  <2>2. QED
    BY <2>1, RespuestaCierta
<1>5. QED
  BY <1>2, <1>3, <1>4

\* An answer that is nobody's: it is left, or read wrong.
LEMMA RespuestaDeNadie ==
    ASSUME NEW e, EsSes(e), NEW n, Sesiones(e.cl, e.ped, e.fds, n), NEW m, m.id = 0,
           NEW x \in Respuesta(e, m), Calma(x)
    PROVE  x = e
<1>1. FdPorId(e, m.id) = 0
  BY NadiePorId
<1>2. x = Desfasa(e) \/ x = e
  BY <1>1 DEF Respuesta
<1>3. QED
  BY <1>2, DesfasaNo DEF EsSes

LEMMA AtenderSfsDeNadie ==
    ASSUME NEW e, EsSes(e), NEW n, Sesiones(e.cl, e.ped, e.fds, n), NEW m,
           m.id = 0 \/ m.t = "FORMATEADO", NEW x \in AtenderSfs(e, m), Calma(x)
    PROVE  Ileso(e, x) \/ x = [e EXCEPT !.con = "rota"]
<1>1. EsVsk(e) /\ Ileso(e, e)
  BY MismoIleso DEF EsSes
<1>2. CASE m.t \in {"ERROR SOLO", "TEXTO"}
  BY <1>1, <1>2, DesfasaNo DEF AtenderSfs
<1>3. CASE m.t = "FORMATEADO"
  BY <1>3 DEF AtenderSfs
<1>4. CASE m.t = "ERROR"
  <2>1. FdPorId(e, m.id) = 0
    BY <1>4, NadiePorId
  <2>2. x = e
    BY <1>4, <2>1 DEF AtenderSfs, ErrorDelSfs
  <2>3. QED
    BY <1>1, <2>2
<1>5. CASE m.t \notin {"ERROR SOLO", "TEXTO", "FORMATEADO", "ERROR"}
  <2>1. x \in Respuesta(e, m)
    BY <1>5 DEF AtenderSfs
  <2>2. QED
    BY <1>1, <1>5, <2>1, RespuestaDeNadie
<1>6. QED
  BY <1>2, <1>3, <1>4, <1>5

-----------------------------------------------------------------------------
(* The requests that arrive *)

\* The list of descriptors with one more at the head.
LEMMA PoneUno ==
    ASSUME NEW f, EsSec(f), NEW g
    PROVE  /\ EsSec(<<g>> \o f) /\ DOMAIN (<<g>> \o f) \subseteq Nat /\ DOMAIN f \subseteq Nat
           /\ 1 \in DOMAIN (<<g>> \o f) /\ (<<g>> \o f)[1] = g
           /\ \A j \in DOMAIN (<<g>> \o f) : 1 <= j
           /\ \A j \in DOMAIN (<<g>> \o f) : j # 1 => j - 1 \in DOMAIN f /\ (<<g>> \o f)[j] = f[j - 1]
           /\ \A j \in DOMAIN f : j + 1 \in DOMAIN (<<g>> \o f) /\ (<<g>> \o f)[j + 1] = f[j]
<1> DEFINE S == {f[j] : j \in DOMAIN f} \union {g}
           s == <<g>>
           h == s \o f
<1>1. s \in Seq(S) /\ Len(s) = 1 /\ s[1] = g
  OBVIOUS
<1>2. f \in Seq(S)
  BY DEF EsSec
<1> HIDE DEF S, s
<1>3. Len(f) \in Nat /\ DOMAIN f = 1..Len(f)
  BY <1>2
<1>4. /\ h \in Seq(S) /\ Len(h) = 1 + Len(f)
      /\ \A i \in 1..1 + Len(f) : h[i] = IF i <= 1 THEN s[i] ELSE f[i - 1]
  <2>1. /\ h \in Seq(S) /\ Len(h) = Len(s) + Len(f)
        /\ \A i \in 1..Len(s) + Len(f) : h[i] = IF i <= Len(s) THEN s[i] ELSE f[i - Len(s)]
    BY <1>1, <1>2, ConcatProperties
  <2> HIDE DEF h
  <2>2. QED
    BY <1>1, <2>1
<1> HIDE DEF h
<1>5. EsSec(h) /\ DOMAIN h = 1..1 + Len(f)
  BY <1>3, <1>4, SecEs
<1>6. 1 \in DOMAIN h /\ h[1] = g
  BY <1>1, <1>3, <1>4, <1>5
<1>7. ASSUME NEW j \in DOMAIN h PROVE 1 <= j /\ (j # 1 => j - 1 \in DOMAIN f /\ h[j] = f[j - 1])
  BY <1>3, <1>4, <1>5
<1>8. ASSUME NEW j \in DOMAIN f PROVE j + 1 \in DOMAIN h /\ h[j + 1] = f[j]
  <2>1. j + 1 \in 1..1 + Len(f) /\ ~(j + 1 <= 1) /\ (j + 1) - 1 = j
    BY <1>3
  <2>2. h[j + 1] = f[(j + 1) - 1]
    BY <1>4, <2>1
  <2>3. QED
    BY <1>5, <2>1, <2>2
<1>9. DOMAIN h \subseteq Nat /\ DOMAIN f \subseteq Nat
  BY <1>3, <1>5
<1>10. QED
  BY <1>5, <1>6, <1>7, <1>8, <1>9 DEF h, s

\* A new descriptor at the head of the list, for the session that asked for it.
Metida(cs, ps, f, n, c, g, q, h) ==
    /\ Sesiones(cs, ps, f, n) /\ EsFichas(f) /\ DOMAIN ps = Sockets
    /\ c \in Sockets /\ cs[c].est \in {"abriendo", "listando"} /\ ps[c].t \in {"OPEN", "LIST"}
    /\ DOMAIN g = CamposFd /\ g.id = cs[c].id /\ g.sock = c /\ g.sys = SysDe(cs[c].est) /\ g.oft = 0
    /\ q = [ps EXCEPT ![c] = NoLlamada] /\ h = <<g>> \o f

\* The sessions after a descriptor is put for the one that asked.
LEMMA SesionesMete ==
    ASSUME NEW cs, NEW ps, NEW f, NEW n, NEW c, NEW g, NEW q, NEW h,
           Metida(cs, ps, f, n, c, g, q, h)
    PROVE  EsFichas(h) /\ Sesiones(cs, q, h, n) /\ 1 \in DOMAIN h /\ h[1] = g
<1>0. /\ Sesiones(cs, ps, f, n) /\ EsFichas(f) /\ DOMAIN ps = Sockets
      /\ c \in Sockets /\ cs[c].est \in {"abriendo", "listando"} /\ ps[c].t \in {"OPEN", "LIST"}
      /\ DOMAIN g = CamposFd /\ g.id = cs[c].id /\ g.sock = c /\ g.sys = SysDe(cs[c].est) /\ g.oft = 0
      /\ q = [ps EXCEPT ![c] = NoLlamada] /\ h = <<g>> \o f
  BY DEF Metida
<1>1. /\ EsSec(h) /\ DOMAIN h \subseteq Nat /\ DOMAIN f \subseteq Nat
      /\ 1 \in DOMAIN h /\ h[1] = g
      /\ \A j \in DOMAIN h : 1 <= j
      /\ \A j \in DOMAIN h : j # 1 => j - 1 \in DOMAIN f /\ h[j] = f[j - 1]
      /\ \A j \in DOMAIN f : j + 1 \in DOMAIN h /\ h[j + 1] = f[j]
  <2>1. EsSec(f)
    BY <1>0 DEF EsFichas
  <2> DEFINE w == <<g>> \o f
  <2>2. /\ EsSec(w) /\ DOMAIN w \subseteq Nat /\ DOMAIN f \subseteq Nat
        /\ 1 \in DOMAIN w /\ w[1] = g
        /\ \A j \in DOMAIN w : 1 <= j
        /\ \A j \in DOMAIN w : j # 1 => j - 1 \in DOMAIN f /\ w[j] = f[j - 1]
        /\ \A j \in DOMAIN f : j + 1 \in DOMAIN w /\ w[j + 1] = f[j]
    BY <2>1, PoneUno
  <2>3. h = w
    BY <1>0
  <2> HIDE DEF w
  <2>4. QED
    BY <1>0, <2>2, <2>3
<1>2. q[c] = NoLlamada /\ NoLlamada.t = Nada /\ \A b \in Sockets : b # c => q[b] = ps[b]
  BY <1>0 DEF NoLlamada, Llamada
<1>3. EsFichas(h)
  BY <1>0, <1>1 DEF EsFichas
<1>4. cs[c].est # "fuera" /\ cs[c].est \in Ests /\ Nada \notin {"OPEN", "LIST"} /\ ps[c].t # Nada
  BY <1>0 DEF Ests, Esperando, Nada
<1>5. /\ cs[c].id \in 1..n
      /\ \A b \in Sockets : cs[b].est # "fuera" /\ cs[b].id = cs[c].id => b = c
      /\ \A k \in DOMAIN f : f[k].id # cs[c].id
  BY <1>0, <1>4 DEF Sesiones, Sesion, PorAbrir
<1>6. Sesion(cs, q, h, n, c)
  <2>1. SuFd(h, 1, c, cs[c].id)
    BY <1>0, <1>1 DEF SuFd
  <2>2. Abierta(cs[c], q[c], h, c)
    BY <1>0, <1>1, <2>1 DEF Abierta
  <2>3. QED
    BY <1>0, <1>2, <1>4, <1>5, <2>2 DEF Sesion
<1>7. ASSUME NEW b \in Sockets, b # c PROVE Sesion(cs, q, h, n, b)
  <2>1. Sesion(cs, ps, f, n, b)
    BY <1>0 DEF Sesiones
  <2>2. ASSUME Abierta(cs[b], ps[b], f, b) PROVE Abierta(cs[b], ps[b], h, b)
    <3>1. PICK k \in DOMAIN f : /\ SuFd(f, k, b, cs[b].id)
                                /\ cs[b].est \in SinArchivo => f[k].oft = 0
                                /\ ps[b].t = Nada /\ cs[b].est \in Esperando => f[k].sys = SysDe(cs[b].est)
      BY <1>0, <2>2 DEF Abierta
    <3>2. k + 1 \in DOMAIN h /\ h[k + 1] = f[k] /\ k \in Nat
      BY <1>0, <1>1
    <3>3. ASSUME NEW j \in DOMAIN h, h[j].sock = b PROVE k + 1 <= j
      <4>1. j # 1
        BY <1>0, <1>1, <1>7, <3>3
      <4>2. j - 1 \in DOMAIN f /\ f[j - 1].sock = b /\ j \in Nat
        BY <1>0, <1>1, <3>3, <4>1
      <4>3. k <= j - 1
        BY <1>0, <3>1, <4>2 DEF SuFd
      <4>4. QED
        BY <1>0, <3>2, <4>2, <4>3
    <3>4. SuFd(h, k + 1, b, cs[b].id)
      BY <1>0, <3>1, <3>2, <3>3 DEF SuFd
    <3>5. QED
      BY <1>0, <3>1, <3>2, <3>4 DEF Abierta
  <2>3. ASSUME PorAbrir(cs[b], ps[b], f), cs[b].est # "fuera" PROVE PorAbrir(cs[b], ps[b], h)
    <3>1. cs[b].id # g.id
      BY <1>0, <1>5, <1>7, <2>3
    <3>2. QED
      BY <1>0, <1>1, <2>3, <3>1 DEF PorAbrir
  <2>4. QED
    BY <1>0, <1>2, <1>7, <2>1, <2>2, <2>3 DEF Sesion
<1>8. \A k \in DOMAIN h : h[k].id \in 1..n
  BY <1>0, <1>1, <1>5 DEF Sesiones
<1>9. ASSUME NEW j \in DOMAIN h, NEW k \in DOMAIN h, h[j].id = h[k].id PROVE j = k
  <2>1. ASSUME NEW i \in DOMAIN h, i # 1 PROVE h[i].id # g.id
    BY <1>0, <1>1, <1>5, <2>1
  <2>2. CASE j = 1 \/ k = 1
    BY <1>0, <1>1, <1>9, <2>1, <2>2
  <2>3. CASE j # 1 /\ k # 1
    <3>1. /\ j - 1 \in DOMAIN f /\ k - 1 \in DOMAIN f /\ f[j - 1].id = f[k - 1].id
      BY <1>0, <1>1, <1>9, <2>3
    <3>2. j - 1 = k - 1
      BY <1>0, <3>1 DEF Sesiones
    <3>3. QED
      BY <1>0, <1>1, <3>2
  <2>4. QED
    BY <1>0, <2>2, <2>3
<1>10. QED
  BY <1>0, <1>1, <1>3, <1>6, <1>7, <1>8, <1>9 DEF Sesiones

\* A call of a session that has its descriptor.
Hallada(cs, ps, f, n, c, k, g, q, h) ==
    /\ Sesiones(cs, ps, f, n) /\ EsFichas(f) /\ DOMAIN ps = Sockets
    /\ c \in Sockets /\ ps[c].t \in {"CLOSE", "READ", "WRITE"}
    /\ k \in DOMAIN f /\ SuFd(f, k, c, cs[c].id) /\ (cs[c].est \in SinArchivo => f[k].oft = 0)
    /\ DOMAIN g = CamposFd /\ g.id = f[k].id /\ g.sock = c /\ g.sys = SysDe(cs[c].est)
    /\ g.oft = f[k].oft
    /\ q = [ps EXCEPT ![c] = NoLlamada] /\ h = [f EXCEPT ![k] = g]

\* The sessions after a call begins on the descriptor of its session.
LEMMA SesionesEmpieza ==
    ASSUME NEW cs, NEW ps, NEW f, NEW n, NEW c, NEW k, NEW g, NEW q, NEW h,
           Hallada(cs, ps, f, n, c, k, g, q, h)
    PROVE  EsFichas(h) /\ Sesiones(cs, q, h, n)
<1>0. /\ Sesiones(cs, ps, f, n) /\ EsFichas(f) /\ DOMAIN ps = Sockets
      /\ c \in Sockets /\ ps[c].t \in {"CLOSE", "READ", "WRITE"}
      /\ k \in DOMAIN f /\ SuFd(f, k, c, cs[c].id) /\ (cs[c].est \in SinArchivo => f[k].oft = 0)
      /\ DOMAIN g = CamposFd /\ g.id = f[k].id /\ g.sock = c /\ g.sys = SysDe(cs[c].est)
      /\ g.oft = f[k].oft
      /\ q = [ps EXCEPT ![c] = NoLlamada] /\ h = [f EXCEPT ![k] = g]
  BY DEF Hallada
<1>1. EsSec(h) /\ DOMAIN h = DOMAIN f
  BY <1>0, CambiaSec DEF EsFichas
<1>2. \A j \in DOMAIN f : h[j] = IF j = k THEN g ELSE f[j]
  BY <1>0
<1>3. q[c] = NoLlamada /\ NoLlamada.t = Nada /\ \A b \in Sockets : b # c => q[b] = ps[b]
  BY <1>0 DEF NoLlamada, Llamada
<1>4. f[k].sock = c
  BY <1>0 DEF SuFd
<1>5. EsFichas(h)
  BY <1>0, <1>1, <1>2 DEF EsFichas
<1>6. \A j \in DOMAIN f : h[j].id = f[j].id /\ h[j].sock = f[j].sock /\ h[j].oft = f[j].oft
                          /\ (j # k => h[j].sys = f[j].sys)
  BY <1>0, <1>2, <1>4
<1>7. ASSUME NEW b, NEW i, NEW j, SuFd(f, j, b, i) PROVE SuFd(h, j, b, i)
  BY <1>0, <1>1, <1>6, <1>7 DEF SuFd
<1>8. Nada \notin {"OPEN", "LIST"} /\ {"CLOSE", "READ", "WRITE"} \intersect {"OPEN", "LIST", Nada} = {}
  BY <1>0 DEF Nada
<1>9. Sesion(cs, q, h, n, c)
  <2>1. Sesion(cs, ps, f, n, c)
    BY <1>0 DEF Sesiones
  <2>2. Abierta(cs[c], q[c], h, c)
    BY <1>0, <1>1, <1>2, <1>7 DEF Abierta
  <2>3. QED
    BY <1>0, <1>3, <1>8, <2>1, <2>2 DEF Sesion
<1>10. ASSUME NEW b \in Sockets, b # c PROVE Sesion(cs, q, h, n, b)
  <2>1. Sesion(cs, ps, f, n, b)
    BY <1>0 DEF Sesiones
  <2>2. ASSUME Abierta(cs[b], ps[b], f, b) PROVE Abierta(cs[b], ps[b], h, b)
    <3>1. PICK j \in DOMAIN f : /\ SuFd(f, j, b, cs[b].id)
                                /\ cs[b].est \in SinArchivo => f[j].oft = 0
                                /\ ps[b].t = Nada /\ cs[b].est \in Esperando => f[j].sys = SysDe(cs[b].est)
      BY <1>0, <2>2 DEF Abierta
    <3>2. j # k
      BY <1>0, <1>4, <1>10, <3>1 DEF SuFd
    <3>3. QED
      BY <1>0, <1>1, <1>6, <1>7, <3>1, <3>2 DEF Abierta
  <2>3. PorAbrir(cs[b], ps[b], f) => PorAbrir(cs[b], ps[b], h)
    BY <1>0, <1>1, <1>6 DEF PorAbrir
  <2>4. QED
    BY <1>0, <1>3, <1>10, <2>1, <2>2, <2>3 DEF Sesion
<1>11. \A j \in DOMAIN h : h[j].id \in 1..n
  BY <1>0, <1>1, <1>6 DEF Sesiones
<1>12. \A i, j \in DOMAIN h : h[i].id = h[j].id => i = j
  BY <1>0, <1>1, <1>6 DEF Sesiones
<1>13. QED
  BY <1>0, <1>5, <1>9, <1>10, <1>11, <1>12 DEF Sesiones

\* The state but for the descriptors.
Salvo(e, y) == /\ EsSes(y) /\ Recuerda(e, y) /\ y.cl = e.cl /\ y.ped = e.ped /\ y.ajena = e.ajena
               /\ y.aSfs = e.aSfs /\ y.aDa = e.aDa

LEMMA IlesoSalvo ==
    ASSUME NEW e, NEW y, Salvo(e, y), NEW x, Ileso(y, x)
    PROVE  Salvo(e, x)
<1>1. EsSes(x)
  BY IlesoManso DEF Salvo
<1>2. Recuerda(e, x)
  BY DEF Salvo, Ileso, Recuerda
<1>3. QED
  BY <1>1, <1>2 DEF Salvo, Ileso

\* The call of the socket c begins in a descriptor k, and goes on as it may; or there
\* is nothing to do.
Empezada(e, c, n, id, x) ==
    \E y, k : /\ Salvo(e, y) /\ EnCamino(y, k, e.cl[c].est, n) /\ y.fds[k].sock = c
              /\ Resultado(y, x, k, id, e.cl[c].est)
Aceptada(e, c, n, id, x) ==
    Empezada(e, c, n, id, x) \/ (Salvo(e, x) /\ Sesiones(x.cl, x.ped, x.fds, n))

\* What the loop finds when it attends the socket c: e has not its request, which is m.
PorAtender(e, ps, c, m, n) ==
    /\ EsSes(e) /\ DOMAIN ps = Sockets /\ Sesiones(e.cl, ps, e.fds, n)
    /\ c \in Sockets /\ m = ps[c] /\ m.t # Nada /\ e.ped = [ps EXCEPT ![c] = NoLlamada]

LEMMA PorAtenderEs ==
    ASSUME NEW e, NEW ps, NEW c, NEW m, NEW n, PorAtender(e, ps, c, m, n)
    PROVE  /\ e.cl[c].est # "fuera" /\ m.id \in {0, e.cl[c].id} /\ m.t = SysDe(e.cl[c].est)
           /\ \/ m.t = "OPEN" /\ e.cl[c].est = "abriendo"
              \/ m.t = "LIST" /\ e.cl[c].est = "listando"
              \/ m.t = "READ" /\ e.cl[c].est = "leyendo"
              \/ m.t = "WRITE" /\ e.cl[c].est = "escribiendo"
              \/ m.t = "CLOSE" /\ e.cl[c].est \in {"cerrando", "cerrando nada"}
<1>1. Sesion(e.cl, ps, e.fds, n, c) /\ ps[c] = m /\ m.t # Nada
  BY DEF PorAtender, Sesiones
<1>2. e.cl[c].est # "fuera" /\ m.id \in {0, e.cl[c].id} /\ m.t = SysDe(e.cl[c].est) /\ e.cl[c].est \in Ests
  BY <1>1 DEF Sesion
<1>3. QED
  BY <1>1, <1>2 DEF Ests, Esperando, SysDe

\* The descriptor is made.
LEMMA MeteEmpieza ==
    ASSUME NEW e, NEW ps, NEW c, NEW m, NEW n, PorAtender(e, ps, c, m, n), m.t \in {"OPEN", "LIST"},
           NEW a, NEW y \in MeterFd(e, m.id, c, m.t, a)
    PROVE  /\ Salvo(e, y) /\ EnCamino(y, 1, e.cl[c].est, n) /\ y.fds[1].sock = c
           /\ EnCamino(BuscaSfs(y), 1, e.cl[c].est, n) /\ Salvo(e, BuscaSfs(y))
           /\ BuscaSfs(y).fds[1].sock = c
<1>1. PICK p : y = [e EXCEPT !.fds = <<[id |-> m.id, sock |-> c, sys |-> m.t, oft |-> 0, paso |-> p,
                                        pos |-> 0, tot |-> 0, a |-> a, s |-> <<>>]>> \o @]
  BY DEF MeterFd
<1> DEFINE g == [id |-> m.id, sock |-> c, sys |-> m.t, oft |-> 0, paso |-> p,
                 pos |-> 0, tot |-> 0, a |-> a, s |-> <<>>]
<1>2. /\ EsSes(e) /\ EsVsk(e) /\ DOMAIN e = Campos /\ EsFichas(e.fds) /\ DOMAIN ps = Sockets
      /\ c \in Sockets /\ Sesiones(e.cl, ps, e.fds, n) /\ ps[c] = m
      /\ e.ped = [ps EXCEPT ![c] = NoLlamada]
  BY DEF PorAtender, EsSes, EsVsk
<1>3. /\ y.fds = <<g>> \o e.fds /\ y.cl = e.cl /\ y.ped = e.ped /\ y.ajena = e.ajena /\ y.aDa = e.aDa
  BY <1>1, <1>2 DEF Campos
<1>4. Igual(e, y)
  BY <1>2, MeterFdIgual
<1>5. e.cl[c].est \in {"abriendo", "listando"} /\ m.t = SysDe(e.cl[c].est) /\ e.cl[c].est # "fuera"
  BY PorAtenderEs
<1>6. m.id = e.cl[c].id
  BY <1>2, <1>5 DEF Sesiones, Sesion, PorAbrir
<1>7. DOMAIN g = CamposFd /\ g.id = e.cl[c].id /\ g.sock = c /\ g.sys = SysDe(e.cl[c].est) /\ g.oft = 0
  BY <1>5, <1>6 DEF CamposFd
<1> HIDE DEF g
<1>8. EsFichas(y.fds) /\ Sesiones(e.cl, e.ped, y.fds, n) /\ 1 \in DOMAIN y.fds /\ y.fds[1] = g
  <2>1. Metida(e.cl, ps, e.fds, n, c, g, e.ped, y.fds)
    BY <1>2, <1>3, <1>5, <1>7 DEF Metida
  <2>2. QED
    BY <2>1, SesionesMete
<1>9. Salvo(e, y)
  BY <1>2, <1>3, <1>4, <1>8 DEF Salvo, Igual, EsSes
<1>10. EnCamino(y, 1, e.cl[c].est, n) /\ y.fds[1].sock = c
  <2>1. e.ped[c] = NoLlamada /\ NoLlamada.t = Nada
    BY <1>2 DEF NoLlamada, Llamada
  <2>2. e.cl[c].est \in Esperando
    BY <1>5 DEF Esperando
  <2>3. QED
    BY <1>3, <1>7, <1>8, <1>9, <2>1, <2>2 DEF EnCamino, EnLlamada, Salvo
<1>11. Ileso(y, BuscaSfs(y))
  BY <1>9, BuscaSfsIleso DEF Salvo, EsSes
<1>12. QED
  BY <1>9, <1>10, <1>11, IlesoSalvo, IlesoEnCamino DEF Ileso

\* Or found, by the socket.
Hallado(e, c, m, n, k, y) ==
    /\ FdPorSocket(e, c) = k /\ k # 0 /\ y = [e EXCEPT !.fds[k].sys = m.t, !.fds[k].paso = 0]
    /\ y.vsk = e.vsk
    /\ Salvo(e, y) /\ Sesiones(y.cl, y.ped, y.fds, n) /\ k \in DOMAIN y.fds /\ y.fds[k].sock = c
    /\ e.cl[c].est \in Esperando => EnCamino(y, k, e.cl[c].est, n)
    /\ e.cl[c].est = "cerrando nada" => y.fds[k].oft = 0

LEMMA HallaEmpieza ==
    ASSUME NEW e, NEW ps, NEW c, NEW m, NEW n, PorAtender(e, ps, c, m, n),
           m.t \in {"CLOSE", "READ", "WRITE"}
    PROVE  \E k, y : Hallado(e, c, m, n, k, y)
<1>1. /\ EsSes(e) /\ EsVsk(e) /\ DOMAIN e = Campos /\ EsFichas(e.fds) /\ DOMAIN ps = Sockets
      /\ c \in Sockets /\ Sesiones(e.cl, ps, e.fds, n) /\ ps[c] = m
      /\ e.ped = [ps EXCEPT ![c] = NoLlamada]
  BY DEF PorAtender, EsSes, EsVsk
<1>2. m.t = SysDe(e.cl[c].est) /\ e.cl[c].est # "fuera"
  BY PorAtenderEs
<1>3. Sesion(e.cl, ps, e.fds, n, c)
  BY <1>1 DEF Sesiones
<1>4. Abierta(e.cl[c], ps[c], e.fds, c)
  BY <1>1, <1>2, <1>3 DEF Sesion
<1>5. PICK k \in DOMAIN e.fds : SuFd(e.fds, k, c, e.cl[c].id) /\ (e.cl[c].est \in SinArchivo => e.fds[k].oft = 0)
  BY <1>4 DEF Abierta
<1>6. FdPorSocket(e, c) = k
  BY <1>1, <1>5, SuPorSocket
<1>7. k # 0 /\ DOMAIN e.fds[k] = CamposFd /\ e.fds[k].sock = c /\ e.fds[k].id = e.cl[c].id
  BY <1>1, <1>5 DEF EsFichas, EsSec, SuFd
<1> DEFINE g == [e.fds[k] EXCEPT !.sys = m.t, !.paso = 0]
           y == [e EXCEPT !.fds[k].sys = m.t, !.fds[k].paso = 0]
<1>8. /\ y.fds = [e.fds EXCEPT ![k] = g] /\ y.cl = e.cl /\ y.ped = e.ped /\ y.ajena = e.ajena
      /\ y.aDa = e.aDa /\ y.vsk = e.vsk
  BY <1>1 DEF Campos
<1>9. Igual(e, y)
  <2>1. m.t \in Llamadas
    BY DEF Llamadas
  <2>2. PICK v : v = y
    OBVIOUS
  <2>3. v = [e EXCEPT !.fds[k].sys = m.t, !.fds[k].paso = 0]
    BY <2>2
  <2> HIDE DEF y
  <2>4. Igual(e, v)
    BY <1>1, <1>5, <2>1, <2>3, EmpiezaIgual
  <2>5. QED
    BY <2>2, <2>4
<1>10. DOMAIN g = CamposFd /\ g.id = e.fds[k].id /\ g.sock = c /\ g.sys = SysDe(e.cl[c].est)
       /\ g.oft = e.fds[k].oft
  BY <1>2, <1>7 DEF CamposFd
<1>11. y = [e EXCEPT !.fds[k].sys = m.t, !.fds[k].paso = 0]
  OBVIOUS
<1> HIDE DEF g, y
<1>12. EsFichas(y.fds) /\ Sesiones(e.cl, e.ped, y.fds, n)
  <2>1. Hallada(e.cl, ps, e.fds, n, c, k, g, e.ped, y.fds)
    BY <1>1, <1>5, <1>8, <1>10 DEF Hallada
  <2>2. QED
    BY <2>1, SesionesEmpieza
<1>13. k \in DOMAIN y.fds /\ y.fds[k] = g
  BY <1>5, <1>8
<1>14. Salvo(e, y)
  BY <1>1, <1>8, <1>9, <1>12 DEF Salvo, Igual, EsSes
<1>15. e.ped[c].t = Nada
  BY <1>1 DEF NoLlamada, Llamada
<1>16. ASSUME e.cl[c].est \in Esperando PROVE EnCamino(y, k, e.cl[c].est, n)
  BY <1>7, <1>8, <1>10, <1>12, <1>13, <1>14, <1>15, <1>16 DEF EnCamino, EnLlamada, Salvo
<1>17. e.cl[c].est = "cerrando nada" => y.fds[k].oft = 0
  BY <1>5, <1>10, <1>13 DEF SinArchivo
<1>18. Hallado(e, c, m, n, k, y)
  BY <1>6, <1>7, <1>8, <1>10, <1>11, <1>12, <1>13, <1>14, <1>16, <1>17 DEF Hallado
<1>19. QED
  BY <1>18

\* No list has a position 0.
LEMMA SinCero == ASSUME NEW q, EsSec(q) PROVE 0 \notin DOMAIN q
BY DEF EsSec

\* The handler runs on what was prepared for it.
LEMMA EmpiezaAceptada ==
    ASSUME NEW e, NEW c, NEW n, NEW id, NEW x, NEW y, NEW k, Salvo(e, y), y.fds[k].sock = c,
           EnCamino(y, k, e.cl[c].est, n), x = y \/ Resultado(y, x, k, id, e.cl[c].est)
    PROVE  Aceptada(e, c, n, id, x)
<1>1. CASE x = y
  BY <1>1 DEF Aceptada, EnCamino
<1>2. CASE Resultado(y, x, k, id, e.cl[c].est)
  <2>1. /\ Salvo(e, y) /\ EnCamino(y, k, e.cl[c].est, n) /\ y.fds[k].sock = c
        /\ Resultado(y, x, k, id, e.cl[c].est)
    BY <1>2
  <2>2. Empezada(e, c, n, id, x)
    BY <2>1 DEF Empezada
  <2>3. QED
    BY <2>2 DEF Aceptada
<1>3. QED
  BY <1>1, <1>2

\* What a client asks: a session of its own, or the descriptor of its socket.
LEMMA AceptaNuevo ==
    ASSUME NEW e, NEW ps, NEW c, NEW m, NEW n, PorAtender(e, ps, c, m, n), m.t \in {"OPEN", "LIST"},
           NEW x \in AtenderCliente(e, c, m), Calma(x)
    PROVE  Aceptada(e, c, n, m.id, x)
<1> DEFINE a == IF m.t = "OPEN" THEN m.s.a ELSE Nada
           M == MeterFd(e, m.id, c, m.t, a)
<1> HIDE DEF a, M
<1>1. \/ m.t = "OPEN" /\ x \in Luego({BuscaSfs(y) : y \in M}, LAMBDA y : AbrirPrimero(y, 1, m))
      \/ m.t = "LIST" /\ x \in Luego({BuscaSfs(y) : y \in M}, LAMBDA y : ListarPrimero(y, 1, m))
  BY DEF AtenderCliente, M, a
<1>2. PICK y \in M : \/ x = BuscaSfs(y)
                     \/ x \in AbrirPrimero(BuscaSfs(y), 1, m)
                     \/ x \in ListarPrimero(BuscaSfs(y), 1, m)
  BY <1>1 DEF Luego
<1>3. PICK z : z = BuscaSfs(y)
  OBVIOUS
<1>4. y \in MeterFd(e, m.id, c, m.t, a)
  BY DEF M
<1>5. EnCamino(z, 1, e.cl[c].est, n) /\ Salvo(e, z) /\ z.fds[1].sock = c
  BY <1>3, <1>4, MeteEmpieza
<1>6. EsSes(z) /\ 1 \in DOMAIN z.fds
  BY <1>5 DEF EnCamino, EnLlamada
<1>7. x = z \/ Manda(z, x, m.id, e.cl[c].est)
  BY <1>2, <1>3, <1>6, AbrirPrimeroCierto, ListarPrimeroCierto
<1>8. x = z \/ Resultado(z, x, 1, m.id, e.cl[c].est)
  BY <1>7 DEF Resultado
<1>9. QED
  BY <1>5, <1>8, EmpiezaAceptada

\* A close, of the descriptor its socket has.
LEMMA AceptaCierre ==
    ASSUME NEW e, e.vsk = "atendiendo", NEW ps, NEW c, NEW m, NEW n, PorAtender(e, ps, c, m, n), m.t = "CLOSE",
           NEW x \in AtenderCliente(e, c, m), Calma(x)
    PROVE  Aceptada(e, c, n, m.id, x)
<1>1. PICK k, w : Hallado(e, c, m, n, k, w)
  BY HallaEmpieza
<1>2. /\ FdPorSocket(e, c) = k /\ k # 0 /\ w = [e EXCEPT !.fds[k].sys = m.t, !.fds[k].paso = 0]
      /\ w.vsk = e.vsk /\ Salvo(e, w) /\ Sesiones(w.cl, w.ped, w.fds, n) /\ k \in DOMAIN w.fds
      /\ w.fds[k].sock = c
      /\ e.cl[c].est \in Esperando => EnCamino(w, k, e.cl[c].est, n)
      /\ e.cl[c].est = "cerrando nada" => w.fds[k].oft = 0
  BY <1>1 DEF Hallado
<1>3. x \in Luego(Luego({w}, LAMBDA y : {BuscaSfs(y)}), LAMBDA y : CerrarPrimero(y, k, m))
  <2> DEFINE K(q) == x \in Luego(Luego({IF q = 0 THEN Fin(e, "muerta")
                                      ELSE [e EXCEPT !.fds[q].sys = "CLOSE", !.fds[q].paso = 0]},
                                     LAMBDA y : {BuscaSfs(y)}), LAMBDA y : CerrarPrimero(y, q, m))
  <2>1. K(FdPorSocket(e, c))
    BY DEF AtenderCliente
  <2> HIDE DEF K
  <2>2. K(k)
    BY <1>2, <2>1
  <2>3. QED
    BY <1>2, <2>2 DEF K
<1>4. PICK z \in Luego({w}, LAMBDA y : {BuscaSfs(y)}) : x = z \/ (z.vsk = "atendiendo" /\ x \in CerrarPrimero(z, k, m))
  BY <1>3 DEF Luego
<1>5. z = BuscaSfs(w)
  <2>1. w.vsk = "atendiendo"
    BY <1>2
  <2>2. QED
    BY <1>4, <2>1 DEF Luego
<1>6. Ileso(w, z)
  BY <1>2, <1>5, BuscaSfsIleso DEF Salvo, EsSes
<1>7. /\ EsSes(w) /\ EsSes(z) /\ Salvo(e, z) /\ z.fds = w.fds /\ z.cl = w.cl /\ z.ped = w.ped
      /\ z.fds[k].sock = c /\ k \in DOMAIN z.fds /\ Sesiones(z.cl, z.ped, z.fds, n)
  <2>0. Salvo(e, w)
    BY <1>2
  <2>1. EsSes(w) /\ Salvo(e, z)
    <3>1. EsSes(w)
      BY <2>0 DEF Salvo
    <3>2. Salvo(e, z)
      BY <2>0, <1>6, IlesoSalvo
    <3>3. QED
      BY <3>1, <3>2
  <2>2. z.fds = w.fds /\ z.cl = w.cl /\ z.ped = w.ped
    BY <1>6 DEF Ileso
  <2>3. EsSes(z)
    BY <2>1 DEF Salvo
  <2>4. QED
    BY <1>2, <2>1, <2>2, <2>3
<1>8. e.cl[c].est \in {"cerrando", "cerrando nada"}
  BY PorAtenderEs
<1>9. CASE e.cl[c].est = "cerrando"
  <2>1. EnCamino(z, k, "cerrando", n)
    BY <1>2, <1>6, <1>9, IlesoEnCamino DEF Esperando
  <2>2. ASSUME x # z PROVE Resultado(z, x, k, m.id, "cerrando")
    <3>1. EnLlamada(z, k, "cerrando")
      BY <2>1 DEF EnCamino
    <3>2. QED
      BY <1>4, <1>7, <2>2, <3>1, CerrarPrimeroCierto
  <2>3. QED
    BY <1>7, <1>9, <2>1, <2>2, EmpiezaAceptada
<1>10. CASE e.cl[c].est = "cerrando nada"
  <2>1. z.fds[k].oft = 0
    BY <1>2, <1>7, <1>10
  <2>2. Manso(z, x, 0)
    BY <1>4, <1>7, <2>1, CerrarNada, MismoIleso, IlesoManso DEF EsSes
  <2>3. EsSes(x) /\ Recuerda(z, x) /\ x.cl = z.cl /\ x.ped = z.ped /\ x.ajena = z.ajena /\ x.aSfs = z.aSfs
        /\ x.aDa = z.aDa /\ MismosFds(z.fds, x.fds, 0)
    BY <1>7, <2>2, MansoEs DEF Manso
  <2>4. 0 \notin DOMAIN z.fds
    <3>1. EsSec(z.fds)
      BY <1>7 DEF EsSes, EsFichas
    <3>2. QED
      BY <3>1, SinCero
  <2>5. Sesiones(x.cl, x.ped, x.fds, n)
    BY <1>7, <2>3, <2>4, MismosSesiones
  <2>6. Salvo(e, x)
    BY <1>7, <2>3 DEF Salvo, Recuerda
  <2>7. QED
    BY <2>5, <2>6 DEF Aceptada
<1>11. QED
  BY <1>8, <1>9, <1>10

\* A read, and a write.
LEMMA AceptaLectura ==
    ASSUME NEW e, e.vsk = "atendiendo", NEW ps, NEW c, NEW m, NEW n, PorAtender(e, ps, c, m, n), m.t = "READ",
           NEW x \in AtenderCliente(e, c, m), Calma(x)
    PROVE  Aceptada(e, c, n, m.id, x)
<1>1. PICK k, w : Hallado(e, c, m, n, k, w)
  BY HallaEmpieza
<1>2. /\ FdPorSocket(e, c) = k /\ k # 0 /\ w = [e EXCEPT !.fds[k].sys = m.t, !.fds[k].paso = 0]
      /\ w.vsk = e.vsk /\ Salvo(e, w) /\ w.fds[k].sock = c
      /\ e.cl[c].est \in Esperando => EnCamino(w, k, e.cl[c].est, n)
  BY <1>1 DEF Hallado
<1>3. x \in Luego({w}, LAMBDA y : LeerPrimero(y, k, m))
  <2> DEFINE K(q) == x \in Luego({IF q = 0 THEN Fin(e, "muerta")
                                 ELSE [e EXCEPT !.fds[q].sys = "READ", !.fds[q].paso = 0]},
                                LAMBDA y : LeerPrimero(y, q, m))
  <2>1. K(FdPorSocket(e, c))
    BY DEF AtenderCliente
  <2> HIDE DEF K
  <2>2. K(k)
    BY <1>2, <2>1
  <2>3. QED
    BY <1>2, <2>2 DEF K
<1>4. x \in LeerPrimero(w, k, m)
  BY <1>2, <1>3 DEF Luego
<1>5. e.cl[c].est = "leyendo"
  BY PorAtenderEs
<1>6. EnCamino(w, k, "leyendo", n)
  BY <1>2, <1>5 DEF Esperando
<1>7. Resultado(w, x, k, m.id, "leyendo")
  BY <1>4, <1>6, LeerPrimeroCierto DEF EnCamino
<1>8. QED
  BY <1>2, <1>5, <1>6, <1>7, EmpiezaAceptada

LEMMA AceptaEscritura ==
    ASSUME NEW e, e.vsk = "atendiendo", NEW ps, NEW c, NEW m, NEW n, PorAtender(e, ps, c, m, n), m.t = "WRITE",
           NEW x \in AtenderCliente(e, c, m), Calma(x)
    PROVE  Aceptada(e, c, n, m.id, x)
<1>1. PICK k, w : Hallado(e, c, m, n, k, w)
  BY HallaEmpieza
<1>2. /\ FdPorSocket(e, c) = k /\ k # 0 /\ w = [e EXCEPT !.fds[k].sys = m.t, !.fds[k].paso = 0]
      /\ w.vsk = e.vsk /\ Salvo(e, w) /\ w.fds[k].sock = c
      /\ e.cl[c].est \in Esperando => EnCamino(w, k, e.cl[c].est, n)
  BY <1>1 DEF Hallado
<1>3. x \in Luego({w}, LAMBDA y : EscribirPrimero(y, k, m))
  <2> DEFINE K(q) == x \in Luego({IF q = 0 THEN Fin(e, "muerta")
                                 ELSE [e EXCEPT !.fds[q].sys = "WRITE", !.fds[q].paso = 0]},
                                LAMBDA y : EscribirPrimero(y, q, m))
  <2>1. K(FdPorSocket(e, c))
    BY DEF AtenderCliente
  <2> HIDE DEF K
  <2>2. K(k)
    BY <1>2, <2>1
  <2>3. QED
    BY <1>2, <2>2 DEF K
<1>4. x \in EscribirPrimero(w, k, m)
  BY <1>2, <1>3 DEF Luego
<1>5. e.cl[c].est = "escribiendo"
  BY PorAtenderEs
<1>6. EnCamino(w, k, "escribiendo", n)
  BY <1>2, <1>5 DEF Esperando
<1>7. Resultado(w, x, k, m.id, "escribiendo")
  BY <1>4, <1>6, EscribirPrimeroCierto DEF EnCamino, EnLlamada, Resultado
<1>8. QED
  BY <1>2, <1>5, <1>6, <1>7, EmpiezaAceptada

\* Whatever the request is.
LEMMA Acepta ==
    ASSUME NEW e, e.vsk = "atendiendo", NEW ps, NEW c, NEW m, NEW n, PorAtender(e, ps, c, m, n),
           NEW x \in AtenderCliente(e, c, m), Calma(x)
    PROVE  Aceptada(e, c, n, m.id, x)
<1>1. m.t \in {"OPEN", "LIST", "READ", "WRITE", "CLOSE"}
  BY PorAtenderEs, ZenonT(40)
<1>2. CASE m.t \in {"OPEN", "LIST"}
  BY <1>2, AceptaNuevo
<1>3. CASE m.t = "CLOSE"
  BY <1>3, AceptaCierre
<1>4. CASE m.t = "READ"
  BY <1>4, AceptaLectura
<1>5. CASE m.t = "WRITE"
  BY <1>5, AceptaEscritura
<1>6. QED
  BY <1>1, <1>2, <1>3, <1>4, <1>5

-----------------------------------------------------------------------------
(* The queues, and who waits for what they hold *)

\* A queue with no more than another had, but for what is sent in the name of id: to
\* the SFS two sectors are asked only for a write.
MasPara(p, q, id) ==
    \A i : /\ HayDe(p, i) => HayDe(q, i) \/ i = id
           /\ UnoDe(q, i) /\ ~(HayDe(q, i) /\ i = id) => UnoDe(p, i)
DosPara(p, q, id, est) ==
    \A i : HayTipo(p, "DOS", i) => HayTipo(q, "DOS", i) \/ (i = id /\ est = "escribiendo")
Menos(p, q) == \A i : /\ HayDe(p, i) => HayDe(q, i)
                      /\ UnoDe(q, i) => UnoDe(p, i)
                      /\ \A t : HayTipo(p, t, i) => HayTipo(q, t, i)

\* A queue has no more than itself.
LEMMA MenosMismo == ASSUME NEW q PROVE Menos(q, q)
BY DEF Menos

LEMMA MenosVacia == ASSUME NEW q PROVE Menos(<<>>, q)
BY NingunoDe DEF Menos

LEMMA MenosCola == ASSUME NEW q, EsSec(q), q # <<>> PROVE Menos(Tail(q), q)
BY MenosDe DEF Menos

\* With less in the queues, what is said of what travels still holds.
LEMMA MenosMensajes ==
    ASSUME NEW v, NEW cs, NEW ps, NEW p, NEW d, NEW a, NEW r, Mensajes(v, cs, ps, p, d, a, r),
           NEW p1, NEW d1, NEW a1, NEW r1, Menos(p1, p), Menos(d1, d), Menos(a1, a), Menos(r1, r)
    PROVE  Mensajes(v, cs, ps, p1, d1, a1, r1)
<1> SUFFICES ASSUME NEW i, i # 0
             PROVE  /\ UnoViaja(p1, d1, a1, r1, i)
                    /\ Viaja(p1, d1, a1, r1, i) => IF i = -1 THEN v = "espera CHS"
                                                   ELSE DeAlguien(cs, ps, p1, d1, i)
  BY DEF Mensajes
<1>1. /\ UnoViaja(p, d, a, r, i)
      /\ Viaja(p, d, a, r, i) => IF i = -1 THEN v = "espera CHS" ELSE DeAlguien(cs, ps, p, d, i)
  BY DEF Mensajes
<1>2. UnoViaja(p1, d1, a1, r1, i)
  BY <1>1 DEF UnoViaja, Menos
<1>3. Viaja(p1, d1, a1, r1, i) => Viaja(p, d, a, r, i)
  BY DEF Viaja, Menos
<1>4. DeAlguien(cs, ps, p, d, i) => DeAlguien(cs, ps, p1, d1, i)
  BY DEF DeAlguien, Menos
<1>5. QED
  BY <1>1, <1>2, <1>3, <1>4

\* The first of a queue does not travel when it is taken.
LEMMA PrimeroSale ==
    ASSUME NEW q, EsSec(q), q # <<>>, NEW i, Quien(Head(q)) = i
    PROVE  /\ HayDe(q, i) /\ (UnoDe(q, i) => ~HayDe(Tail(q), i))
           /\ HayTipo(q, Head(q).t, i)
BY MenosDe

\* One more message in the name of id.
LEMMA MasParaMas ==
    ASSUME NEW q, EsSec(q), NEW m, NEW id, Quien(m) = id
    PROVE  /\ MasPara(Append(q, m), q, id)
           /\ \A est : (m.t = "DOS" => est = "escribiendo") => DosPara(Append(q, m), q, id, est)
<1>1. \A i : /\ HayDe(Append(q, m), i) <=> HayDe(q, i) \/ Quien(m) = i
             /\ UnoDe(Append(q, m), i) <=> UnoDe(q, i) /\ ~(HayDe(q, i) /\ Quien(m) = i)
             /\ \A t : HayTipo(Append(q, m), t, i) <=> HayTipo(q, t, i) \/ (Quien(m) = i /\ m.t = t)
  BY MasDe
<1>2. QED
  BY <1>1 DEF MasPara, DosPara

\* What is sent in no one's name.
LEMMA MasParaNadie ==
    ASSUME NEW v, NEW cs, NEW ps, NEW p, NEW d, NEW a, NEW r, Mensajes(v, cs, ps, p, d, a, r),
           NEW p1, NEW a1, MasPara(p1, p, 0), DosPara(p1, p, 0, "escribiendo"), MasPara(a1, a, 0)
    PROVE  Mensajes(v, cs, ps, p1, d, a1, r)
<1> SUFFICES ASSUME NEW i, i # 0
             PROVE  /\ UnoViaja(p1, d, a1, r, i)
                    /\ Viaja(p1, d, a1, r, i) => IF i = -1 THEN v = "espera CHS"
                                                 ELSE DeAlguien(cs, ps, p1, d, i)
  BY DEF Mensajes
<1>1. /\ UnoViaja(p, d, a, r, i)
      /\ Viaja(p, d, a, r, i) => IF i = -1 THEN v = "espera CHS" ELSE DeAlguien(cs, ps, p, d, i)
  BY DEF Mensajes
<1>2. /\ HayDe(p1, i) => HayDe(p, i)
      /\ UnoDe(p, i) => UnoDe(p1, i)
      /\ HayDe(a1, i) => HayDe(a, i)
      /\ UnoDe(a, i) => UnoDe(a1, i)
      /\ HayTipo(p1, "DOS", i) => HayTipo(p, "DOS", i)
  BY DEF MasPara, DosPara
<1>3. UnoViaja(p1, d, a1, r, i)
  BY <1>1, <1>2 DEF UnoViaja
<1>4. Viaja(p1, d, a1, r, i) => Viaja(p, d, a, r, i)
  BY <1>2 DEF Viaja
<1>5. DeAlguien(cs, ps, p, d, i) => DeAlguien(cs, ps, p1, d, i)
  BY <1>2 DEF DeAlguien
<1>6. QED
  BY <1>1, <1>3, <1>4, <1>5

LEMMA MasParaMismo == ASSUME NEW q, NEW id PROVE MasPara(q, q, id)
BY DEF MasPara

\* A request that nobody waits for gives nobody a second message.
LEMMA AnotaPara ==
    ASSUME NEW p, EsSec(p), NEW p1, Anota(p, p1)
    PROVE  MasPara(p1, p, 0) /\ DosPara(p1, p, 0, "escribiendo")
<1>1. CASE p1 = p
  BY <1>1 DEF MasPara, DosPara
<1>2. CASE \E m : p1 = Append(p, m) /\ Quien(m) = 0
  BY <1>2, MasParaMas
<1>3. QED
  BY <1>1, <1>2 DEF Anota

LEMMA AnotaMensajes ==
    ASSUME NEW v, NEW cs, NEW ps, NEW p, NEW d, NEW a, NEW r, Mensajes(v, cs, ps, p, d, a, r),
           EsSec(p), NEW p1, Anota(p, p1)
    PROVE  Mensajes(v, cs, ps, p1, d, a, r)
BY AnotaPara, MasParaMismo, MasParaNadie

\* And what a session asks that waits, and of which nothing travels.
Espera1(cs, ps, id, est) == \E c \in Sockets : Aguarda(cs, ps, id, c) /\ cs[c].est = est

\* A message in the name of who waits, and has none on its way.
LEMMA MasParaUno ==
    ASSUME NEW v, NEW cs, NEW ps, NEW p, NEW d, NEW a, NEW r, Mensajes(v, cs, ps, p, d, a, r),
           NEW id, id # -1, ~Viaja(p, d, a, r, id), NEW est, Espera1(cs, ps, id, est),
           NEW p1, NEW a1, \/ MasPara(p1, p, id) /\ DosPara(p1, p, id, est) /\ a1 = a
                           \/ p1 = p /\ MasPara(a1, a, id)
    PROVE  Mensajes(v, cs, ps, p1, d, a1, r)
<1> SUFFICES ASSUME NEW i, i # 0
             PROVE  /\ UnoViaja(p1, d, a1, r, i)
                    /\ Viaja(p1, d, a1, r, i) => IF i = -1 THEN v = "espera CHS"
                                                 ELSE DeAlguien(cs, ps, p1, d, i)
  BY DEF Mensajes
<1>1. /\ UnoViaja(p, d, a, r, i)
      /\ Viaja(p, d, a, r, i) => IF i = -1 THEN v = "espera CHS" ELSE DeAlguien(cs, ps, p, d, i)
  BY DEF Mensajes
<1>2. /\ HayDe(p1, i) => HayDe(p, i) \/ i = id
      /\ UnoDe(p, i) /\ ~(HayDe(p, i) /\ i = id) => UnoDe(p1, i)
      /\ HayTipo(p1, "DOS", i) => HayTipo(p, "DOS", i) \/ (i = id /\ est = "escribiendo")
      /\ HayDe(a1, i) => HayDe(a, i) \/ i = id
      /\ UnoDe(a, i) /\ ~(HayDe(a, i) /\ i = id) => UnoDe(a1, i)
      /\ (HayDe(p1, i) => HayDe(p, i)) \/ (HayDe(a1, i) => HayDe(a, i))
  BY DEF MasPara, DosPara
<1>3. CASE i # id
  <2>1. UnoViaja(p1, d, a1, r, i)
    BY <1>1, <1>2, <1>3 DEF UnoViaja
  <2>2. Viaja(p1, d, a1, r, i) => Viaja(p, d, a, r, i)
    BY <1>2, <1>3 DEF Viaja
  <2>3. DeAlguien(cs, ps, p, d, i) => DeAlguien(cs, ps, p1, d, i)
    BY <1>2, <1>3 DEF DeAlguien
  <2>4. QED
    BY <1>1, <2>1, <2>2, <2>3
<1>4. CASE i = id
  <2>1. ~HayDe(p, i) /\ ~HayDe(d, i) /\ ~HayDe(a, i) /\ ~HayDe(r, i)
    BY <1>4 DEF Viaja
  <2>2. UnoViaja(p1, d, a1, r, i)
    BY <1>1, <1>2, <2>1 DEF UnoViaja
  <2>3. ~HayTipo(p, "DOS", i) /\ ~HayTipo(d, "ERROR", i)
    BY <2>1 DEF HayTipo, HayDe
  <2>4. DeAlguien(cs, ps, p1, d, i)
    BY <1>2, <1>4, <2>3 DEF DeAlguien, Espera1
  <2>5. QED
    BY <1>4, <2>2, <2>4
<1>5. QED
  BY <1>3, <1>4

\* What a handler sends is in the name of who waits for it.
LEMMA EnvioMensajes ==
    ASSUME NEW v, NEW cs, NEW ps, NEW p, NEW d, NEW a, NEW r, Mensajes(v, cs, ps, p, d, a, r),
           EsSec(p), EsSec(a), NEW id, NEW est,
           id = 0 \/ (id # -1 /\ ~Viaja(p, d, a, r, id) /\ Espera1(cs, ps, id, est)),
           NEW p1, NEW a1, Envio(p, a, p1, a1, id, est)
    PROVE  Mensajes(v, cs, ps, p1, d, a1, r)
<1>1. CASE Anota(p, p1) /\ a1 = a
  BY <1>1, AnotaMensajes
<1>2. CASE Reclama(p, p1, id, est) /\ a1 = a
  <2>1. PICK m : p1 = Append(p, m) /\ Quien(m) = id /\ (m.t = "DOS" => est = "escribiendo")
    BY <1>2 DEF Reclama
  <2>2. MasPara(p1, p, id) /\ DosPara(p1, p, id, est) /\ DosPara(p1, p, id, "escribiendo")
    BY <2>1, MasParaMas
  <2>3. CASE id = 0
    BY <1>2, <2>2, <2>3, MasParaMismo, MasParaNadie
  <2>4. CASE id # 0
    BY <1>2, <2>2, <2>4, MasParaUno
  <2>5. QED
    BY <2>3, <2>4
<1>3. CASE Anota(p, p1) /\ \E m : a1 = Append(a, m) /\ Quien(m) = id
  <2>1. MasPara(a1, a, id)
    BY <1>3, MasParaMas
  <2>2. MasPara(p1, p, 0) /\ DosPara(p1, p, 0, "escribiendo")
    BY <1>3, AnotaPara
  <2>3. CASE id = 0
    BY <2>1, <2>2, <2>3, MasParaNadie
  <2>4. CASE id # 0
    <3>1. Mensajes(v, cs, ps, p1, d, a, r)
      BY <1>3, AnotaMensajes
    <3>2. id # -1 /\ ~Viaja(p1, d, a, r, id) /\ Espera1(cs, ps, id, est)
      BY <2>2, <2>4 DEF Viaja, MasPara
    <3>3. QED
      BY <2>1, <3>1, <3>2, MasParaUno
  <2>5. QED
    BY <2>3, <2>4
<1>4. QED
  BY <1>1, <1>2, <1>3 DEF Envio

\* A change in a session in whose name nothing travels.
LEMMA CambiaClienteMensajes ==
    ASSUME NEW v, NEW cs, NEW ps, NEW p, NEW d, NEW a, NEW r, Mensajes(v, cs, ps, p, d, a, r),
           NEW c, \A i : Aguarda(cs, ps, i, c) => ~Viaja(p, d, a, r, i),
           NEW cs1, NEW ps1, \A b \in Sockets : b # c => cs1[b] = cs[b] /\ ps1[b] = ps[b]
    PROVE  Mensajes(v, cs1, ps1, p, d, a, r)
<1> SUFFICES ASSUME NEW i, i # 0, i # -1, Viaja(p, d, a, r, i)
             PROVE  DeAlguien(cs1, ps1, p, d, i)
  BY DEF Mensajes
<1>1. DeAlguien(cs, ps, p, d, i)
  BY DEF Mensajes
<1>2. PICK b \in Sockets : /\ Aguarda(cs, ps, i, b)
                           /\ HayTipo(p, "DOS", i) \/ HayTipo(d, "ERROR", i) => cs[b].est = "escribiendo"
  BY <1>1 DEF DeAlguien
<1>3. b # c
  BY <1>2
<1>4. cs1[b] = cs[b] /\ ps1[b] = ps[b]
  BY <1>3
<1>5. Aguarda(cs1, ps1, i, b)
  BY <1>2, <1>4 DEF Aguarda
<1>6. QED
  BY <1>2, <1>4, <1>5 DEF DeAlguien

\* While the loop goes round no answer of the format is on its way.
LEMMA AtendiendoMensajes ==
    ASSUME NEW cs, NEW ps, NEW p, NEW d, NEW a, NEW r, Mensajes("atendiendo", cs, ps, p, d, a, r), NEW v
    PROVE  Mensajes(v, cs, ps, p, d, a, r) /\ ~Viaja(p, d, a, r, -1)
<1>1. -1 # 0
  OBVIOUS
<1>2. ~Viaja(p, d, a, r, -1)
  BY <1>1 DEF Mensajes
<1>3. QED
  BY <1>2 DEF Mensajes

-----------------------------------------------------------------------------
(* What the end of a handler leaves in the queues *)

\* What surrounds a call under way: in its name nothing else travels.
Contestable(e, k, est, n, d, r, id) ==
    /\ EnCamino(e, k, est, n) /\ EsSec(e.aSfs)
    /\ Mensajes("atendiendo", e.cl, e.ped, e.aSfs, d, e.aDa, r)
    /\ ~Viaja(e.aSfs, d, e.aDa, r, e.fds[k].id) /\ id \in {0, e.fds[k].id}

\* Whatever a call leaves, what travels is of who waits.
LEMMA ResultadoMensajes ==
    ASSUME NEW e, NEW k, NEW est, NEW n, NEW d, NEW r, NEW id, Contestable(e, k, est, n, d, r, id),
           NEW x, Resultado(e, x, k, id, est)
    PROVE  Mensajes(x.vsk, x.cl, x.ped, x.aSfs, d, x.aDa, r) /\ x.ajena = e.ajena
<1> DEFINE c == e.fds[k].sock
<1>0. /\ EnCamino(e, k, est, n) /\ EsSec(e.aSfs)
      /\ Mensajes("atendiendo", e.cl, e.ped, e.aSfs, d, e.aDa, r)
      /\ ~Viaja(e.aSfs, d, e.aDa, r, e.fds[k].id) /\ id \in {0, e.fds[k].id}
  BY DEF Contestable
<1>1. /\ EsSes(e) /\ Sesiones(e.cl, e.ped, e.fds, n) /\ k \in DOMAIN e.fds /\ est \in Esperando
      /\ e.cl[c].est = est /\ e.cl[c].id = e.fds[k].id /\ e.ped[c].t = Nada
  BY <1>0 DEF EnCamino, EnLlamada
<1>2. c \in Sockets /\ EsSec(e.aDa) /\ DOMAIN e.cl = Sockets /\ DOMAIN e.ped = Sockets
  BY <1>1 DEF EsSes, EsFichas, EsClientes, EsVsk, EsPed
<1>3. e.fds[k].id \in 1..n
  BY <1>1 DEF Sesiones
<1>4. e.fds[k].id # -1
  BY <1>3
<1> HIDE DEF c
<1>5. CASE Manda(e, x, id, est)
  <2>1. /\ x.cl = e.cl /\ x.ped = e.ped /\ x.ajena = e.ajena
        /\ Envio(e.aSfs, e.aDa, x.aSfs, x.aDa, id, est)
    BY <1>5 DEF Manda
  <2>2. Espera1(e.cl, e.ped, e.fds[k].id, est)
    BY <1>1, <1>2 DEF Espera1, Aguarda
  <2>3. id = 0 \/ (id # -1 /\ ~Viaja(e.aSfs, d, e.aDa, r, id) /\ Espera1(e.cl, e.ped, id, est))
    BY <1>0, <1>4, <2>2
  <2>4. Mensajes("atendiendo", e.cl, e.ped, x.aSfs, d, x.aDa, r)
    BY <1>0, <1>2, <2>1, <2>3, EnvioMensajes
  <2>5. QED
    BY <2>1, <2>4, AtendiendoMensajes
<1>6. CASE Contestado(e, x, k) \/ Salido(e, x, c)
  <2>1. /\ x.ajena = e.ajena /\ x.aSfs = e.aSfs /\ x.aDa = e.aDa
        /\ \A b \in Sockets : b # c => x.cl[b] = e.cl[b] /\ x.ped[b] = e.ped[b]
    <3>1. CASE Contestado(e, x, k)
      BY <1>2, <3>1 DEF Contestado, c
    <3>2. CASE Salido(e, x, c)
      BY <1>2, <3>2 DEF Salido
    <3>3. QED
      BY <1>6, <3>1, <3>2
  <2>2. \A i : Aguarda(e.cl, e.ped, i, c) => ~Viaja(e.aSfs, d, e.aDa, r, i)
    BY <1>0, <1>1 DEF Aguarda
  <2>3. Mensajes("atendiendo", x.cl, x.ped, e.aSfs, d, e.aDa, r)
    BY <1>0, <2>1, <2>2, CambiaClienteMensajes
  <2>4. QED
    BY <2>1, <2>3, AtendiendoMensajes
<1>7. QED
  BY <1>5, <1>6 DEF Resultado, c

-----------------------------------------------------------------------------
(* What the SFS answers: at most once, to who asked, and the error only to who *)
(* asked for two sectors                                                       *)

\* An answer of type t that is due to the request m.
Debida(t, m) == /\ t \notin {"AGREGAR", "FORMATEAR", "CHS", "GET"} /\ m.t # "AGREGAR"
                /\ t = "FORMATEADO" <=> m.t = "FORMATEAR"
                /\ t = "ERROR" => m.t = "DOS"
Callado(x) == DOMAIN x = CamposSfs /\ x.rta = <<>>
Debido(m, x) == x.rta = <<>> \/ \E t, s : x.rta = <<Rta(t, m, s)>> /\ Debida(t, m)

\* A handler of the SFS goes on, fails or stops where LDAP answers.
LEMMA LdapCasos ==
    ASSUME NEW e, NEW op, NEW acepta, NEW bien, NEW mal, NEW x \in Ldap(e, op, acepta, bien, mal)
    PROVE  x \in bien \/ x \in mal \/ x = Muere(e)
BY DEF Ldap

\* A state that answered nothing may change what is not an answer.
LEMMA CalladoSigue ==
    ASSUME NEW y, Callado(y)
    PROVE  /\ Callado(Muere(y)) /\ Callado(Desligar(y))
           /\ \A c : Callado(Culpa(y, c)) /\ Callado(Desligar(Culpa(y, c)))
           /\ \A v : /\ Callado([y EXCEPT !.nombre = v]) /\ Callado([y EXCEPT !.ucBuf = v])
                     /\ Callado([y EXCEPT !.lista = v]) /\ Callado([y EXCEPT !.libres = v])
           /\ \A m : Debido(m, y)
<1>1. Callado(Muere(y)) /\ Callado(Desligar(y))
  BY DEF Callado, CamposSfs, Muere, Desligar, Culpa
<1>2. ASSUME NEW c PROVE Callado(Culpa(y, c)) /\ Callado(Desligar(Culpa(y, c)))
  BY DEF Callado, CamposSfs, Desligar, Culpa
<1>3. ASSUME NEW v PROVE /\ Callado([y EXCEPT !.nombre = v]) /\ Callado([y EXCEPT !.ucBuf = v])
                         /\ Callado([y EXCEPT !.lista = v]) /\ Callado([y EXCEPT !.libres = v])
  BY DEF Callado, CamposSfs
<1>4. QED
  BY <1>1, <1>2, <1>3 DEF Callado, Debido

LEMMA RespondeDebido ==
    ASSUME NEW y, Callado(y), NEW t, NEW m, Debida(t, m), NEW s, NEW x, x = Responde(y, t, m, s)
    PROVE  DOMAIN x = CamposSfs /\ x.rta = <<Rta(t, m, s)>> /\ Debido(m, x)
<1> DEFINE r == Rta(t, m, s)
<1> HIDE DEF r
<1>1. Append(<<>>, r) = <<r>>
  BY Sola
<1>2. x = [y EXCEPT !.rta = Append(@, r)]
  BY DEF Responde, r
<1>3. DOMAIN x = CamposSfs /\ x.rta = <<r>>
  BY <1>1, <1>2 DEF Callado, CamposSfs
<1>4. QED
  BY <1>3 DEF Debido, r

LEMMA MismaRta ==
    ASSUME NEW y, DOMAIN y = CamposSfs, NEW m, Debido(m, y), NEW x,
           \/ x = y
           \/ x = Muere(y)
           \/ \E l : x \in QuitarDosSectoresDA(y, l)
           \/ \E c : x = Muere(Culpa(y, c))
    PROVE  DOMAIN x = CamposSfs /\ Debido(m, x)
<1>1. DOMAIN x = CamposSfs /\ x.rta = y.rta
  <2>1. CASE \E l : x \in QuitarDosSectoresDA(y, l)
    BY <2>1, QuitarEfecto
  <2>2. CASE x = Muere(y) \/ \E c : x = Muere(Culpa(y, c))
    BY <2>2 DEF Muere, Culpa, CamposSfs
  <2>3. QED
    BY <2>1, <2>2
<1>2. QED
  BY <1>1 DEF Debido

LEMMA ExisteDebido ==
    ASSUME NEW e, Callado(e), NEW m, m.t = "EXISTE", NEW x \in ExisteArchivo(e, m)
    PROVE  Debido(m, x)
<1> DEFINE y == [e EXCEPT !.nombre = m.a]
           u == IF Hay(y, m.a) THEN "SI" ELSE "NO"
<1>1. x = Responde(y, u, m, <<>>) \/ x = Responde(y, "SI", m, <<>>) \/ x = Muere(y)
  BY LdapCasos DEF ExisteArchivo
<1>2. Callado(y)
  BY CalladoSigue
<1>3. Debida(u, m) /\ Debida("SI", m)
  BY DEF Debida
<1> HIDE DEF y, u
<1>4. QED
  BY <1>1, <1>2, <1>3, CalladoSigue, RespondeDebido

LEMMA InfoDebido ==
    ASSUME NEW e, Callado(e), NEW m, m.t = "INFO", NEW x \in InfoArchivo(e, m)
    PROVE  Debido(m, x)
<1>1. PICK y \in Indefinido(e, "nombreArchivo") :
          x \in IF y.fin = "muere" THEN {y}
                ELSE Ldap(y, "buscar", Hay(y, y.nombre),
                          {Responde(y, "INFO", m, SectoresInfo(y.archivos[y.nombre]))},
                          {Responde(y, "TEXTO", m, <<>>)})
  BY DEF InfoArchivo
<1>2. Callado(y)
  BY CalladoSigue DEF Indefinido
<1>3. x = y \/ x = Responde(y, "INFO", m, SectoresInfo(y.archivos[y.nombre]))
      \/ x = Responde(y, "TEXTO", m, <<>>) \/ x = Muere(y)
  BY <1>1, LdapCasos
<1>4. Debida("INFO", m) /\ Debida("TEXTO", m)
  BY DEF Debida
<1>5. QED
  BY <1>2, <1>3, <1>4, CalladoSigue, RespondeDebido

LEMMA EliminaDebido ==
    ASSUME NEW e, Callado(e), NEW m, m.t = "ELIMINA", NEW x \in EliminaArchivo(e, m)
    PROVE  Debido(m, x)
<1> DEFINE w == [e EXCEPT !.nombre = m.a]
           y0 == IF w.archivos[m.a].sec = <<>> THEN Culpa(w, "vacio") ELSE w
           liberado == UNION {IF y.fin = "muere" THEN {y}
                              ELSE QuitarDosSectoresDA(y, SectoresLiberados(y, m.a)) :
                                y \in SectoresLibresDEL(y0)}
           B(y) == Ldap(y, "borrar", TRUE,
                        {Responde([y EXCEPT !.archivos[m.a] = NoHay], "ELIMINADO", m, <<>>)},
                        {Responde(Culpa(y, "borrar"), "ERROR SOLO", m, <<>>)})
           L == UNION {IF y.fin = "muere" THEN {y} ELSE Corte(y, "eliminar") \union
                       UNION {IF z.fin = "muere" THEN {z} ELSE Indefinido(z, "bfr") : z \in B(y)} :
                         y \in liberado}
<1>1. x \in Ldap(w, "buscar", Hay(w, m.a), L, {Muere(w)})
  BY DEF EliminaArchivo
<1>2. Callado(w) /\ Callado(y0)
  BY CalladoSigue
<1>3. ASSUME NEW y \in SectoresLibresDEL(y0) PROVE Callado(y)
  <2> HIDE DEF y0
  <2>1. y = [y0 EXCEPT !.lista = y0.libres] \/ y = [Culpa(y0, "libres") EXCEPT !.lista = <<>>] \/ y = Muere(y0)
    BY LdapCasos DEF SectoresLibresDEL
  <2>2. Callado(y0)
    BY <1>2
  <2>3. Callado(Culpa(y0, "libres"))
    BY <2>2, CalladoSigue
  <2>4. Callado([y0 EXCEPT !.lista = y0.libres]) /\ Callado([Culpa(y0, "libres") EXCEPT !.lista = <<>>])
        /\ Callado(Muere(y0))
    BY <2>2, <2>3, CalladoSigue
  <2>5. QED
    BY <2>1, <2>4
<1>4. ASSUME NEW y \in liberado PROVE Callado(y)
  <2>1. PICK q \in SectoresLibresDEL(y0) : y \in IF q.fin = "muere" THEN {q}
                                               ELSE QuitarDosSectoresDA(q, SectoresLiberados(q, m.a))
    OBVIOUS
  <2>2. Callado(q)
    BY <1>3
  <2>3. QED
    BY <2>1, <2>2, QuitarEfecto DEF Callado
<1>5. ASSUME NEW y, Callado(y), NEW z \in B(y) PROVE DOMAIN z = CamposSfs /\ Debido(m, z)
  <2>1. z = Responde([y EXCEPT !.archivos[m.a] = NoHay], "ELIMINADO", m, <<>>)
        \/ z = Responde(Culpa(y, "borrar"), "ERROR SOLO", m, <<>>) \/ z = Muere(y)
    BY <1>5, LdapCasos
  <2>2. Callado([y EXCEPT !.archivos[m.a] = NoHay]) /\ Callado(Culpa(y, "borrar")) /\ Callado(Muere(y))
    BY <1>5 DEF Callado, CamposSfs, Culpa, Muere
  <2>3. Debida("ELIMINADO", m) /\ Debida("ERROR SOLO", m)
    BY DEF Debida
  <2>4. CASE z = Responde([y EXCEPT !.archivos[m.a] = NoHay], "ELIMINADO", m, <<>>)
    BY <2>2, <2>3, <2>4, RespondeDebido
  <2>5. CASE z = Responde(Culpa(y, "borrar"), "ERROR SOLO", m, <<>>)
    BY <2>2, <2>3, <2>5, RespondeDebido
  <2>6. CASE z = Muere(y)
    BY <2>2, <2>6, CalladoSigue DEF Callado
  <2>7. QED
    BY <2>1, <2>4, <2>5, <2>6
<1>6. ASSUME NEW y \in liberado,
             x \in IF y.fin = "muere" THEN {y} ELSE Corte(y, "eliminar") \union
                   UNION {IF z.fin = "muere" THEN {z} ELSE Indefinido(z, "bfr") : z \in B(y)}
      PROVE  Debido(m, x)
  <2>1. Callado(y)
    BY <1>4
  <2> HIDE DEF liberado, B
  <2>2. x = y \/ x \in Corte(y, "eliminar")
        \/ \E z \in B(y) : x \in IF z.fin = "muere" THEN {z} ELSE Indefinido(z, "bfr")
    BY <1>6
  <2>3. CASE x = y
    BY <2>1, <2>3, CalladoSigue
  <2>4. CASE x \in Corte(y, "eliminar")
    <3>1. x = Muere(Culpa(y, "corte"))
      BY <2>4 DEF Corte
    <3>2. QED
      BY <2>1, <3>1, CalladoSigue
  <2>5. CASE \E z \in B(y) : x \in IF z.fin = "muere" THEN {z} ELSE Indefinido(z, "bfr")
    <3>1. PICK z \in B(y) : x = z \/ x = Muere(z)
      BY <2>5 DEF Indefinido
    <3>2. DOMAIN z = CamposSfs /\ Debido(m, z)
      BY <1>5, <2>1
    <3>3. QED
      BY <3>1, <3>2, MismaRta
  <2>6. QED
    BY <2>2, <2>3, <2>4, <2>5
<1>7. x \in L \/ x = Muere(w)
  BY <1>1, LdapCasos
<1>8. CASE x \in L
  BY <1>6, <1>8
<1>9. CASE x = Muere(w)
  BY <1>2, <1>9, CalladoSigue
<1>10. QED
  BY <1>7, <1>8, <1>9

LEMMA CrearDebido ==
    ASSUME NEW e, Callado(e), NEW m, m.t = "CREAR", NEW x \in CrearArchivo(e, m)
    PROVE  Debido(m, x)
<1> DEFINE y == [e EXCEPT !.archivos[m.a] = Nuevo]
<1>1. x = Responde(y, "CREADO", m, <<>>) \/ x = Responde(Desligar(e), "ERROR SOLO", m, <<>>) \/ x = Muere(e)
  BY LdapCasos DEF CrearArchivo
<1>2. Callado(y) /\ Callado(Desligar(e)) /\ Callado(Muere(e))
  BY DEF Callado, CamposSfs, Desligar, Muere, Culpa
<1>3. Debida("CREADO", m) /\ Debida("ERROR SOLO", m)
  BY DEF Debida
<1> HIDE DEF y
<1>4. QED
  BY <1>1, <1>2, <1>3, CalladoSigue, RespondeDebido

LEMMA TamanioDebido ==
    ASSUME NEW e, Callado(e), NEW m, m.t = "TAMANIO", NEW x \in ActualizarTamanio(e, m)
    PROVE  Debido(m, x)
<1> DEFINE y == [e EXCEPT !.archivos[m.a].tam = m.s[1]]
<1>1. x = Responde(y, "TAMANIO", m, <<>>) \/ x = Responde(e, "ERROR SOLO", m, <<>>) \/ x = Muere(e)
  BY LdapCasos DEF ActualizarTamanio
<1>2. Callado(y) /\ Callado(Muere(e))
  BY DEF Callado, CamposSfs, Muere
<1>3. Debida("TAMANIO", m) /\ Debida("ERROR SOLO", m)
  BY DEF Debida
<1> HIDE DEF y
<1>4. QED
  BY <1>1, <1>2, <1>3, CalladoSigue, RespondeDebido

LEMMA DarDosDebido ==
    ASSUME NEW e, Callado(e), NEW m, m.t = "DOS", NEW x \in DarDosSectores(e, m)
    PROVE  Debido(m, x)
<1> DEFINE w == <<e.libres[1], IF Len(e.libres) > 1 THEN e.libres[2] ELSE e.ucBuf[2]>>
           q == Responde([e EXCEPT !.ucBuf = w], "DOS", m, w)
           y == IF Len(e.libres) = 1 THEN Culpa(q, "impar") ELSE q
           l == SubSeq(e.libres, 3, Len(e.libres))
<1>1. x \in Corte(y, "dos") \/ x \in QuitarDosSectoresDA(y, l)
  BY DEF DarDosSectores
<1>2. Debida("DOS", m)
  BY DEF Debida
<1>3. DOMAIN q = CamposSfs /\ Debido(m, q)
  <2>1. Callado([e EXCEPT !.ucBuf = w])
    BY DEF Callado, CamposSfs
  <2> HIDE DEF w
  <2>2. QED
    BY <1>2, <2>1, RespondeDebido
<1> HIDE DEF q, l
<1>4. DOMAIN y = CamposSfs /\ Debido(m, y)
  BY <1>3 DEF Culpa, CamposSfs, Debido
<1> HIDE DEF y
<1>5. x = Muere(Culpa(y, "corte")) \/ x \in QuitarDosSectoresDA(y, l)
  BY <1>1 DEF Corte
<1>6. QED
  BY <1>4, <1>5, MismaRta

LEMMA DosDebido ==
    ASSUME NEW e, Callado(e), NEW m, m.t = "DOS", NEW x \in DosSectoresLibres(e, m)
    PROVE  Debido(m, x)
<1> DEFINE y == [e EXCEPT !.ucBuf = <<Otra, Otra>>]
           z == Responde(Culpa(e, "libres"), "DOS", m, e.ucBuf)
<1>1. x \in DarDosSectores(e, m) \/ x = Responde(y, "ERROR", m, <<>>)
      \/ x \in QuitarDosSectoresDA(z, <<>>) \/ x = Muere(e)
  BY LdapCasos DEF DosSectoresLibres
<1>2. Debida("DOS", m) /\ Debida("ERROR", m)
  BY DEF Debida
<1>3. Callado(y) /\ Callado(Culpa(e, "libres"))
  BY CalladoSigue
<1>4. DOMAIN z = CamposSfs /\ Debido(m, z)
  BY <1>2, <1>3, RespondeDebido
<1> HIDE DEF y, z
<1>5. CASE x \in DarDosSectores(e, m)
  BY <1>5, DarDosDebido
<1>6. CASE x = Responde(y, "ERROR", m, <<>>)
  BY <1>2, <1>3, <1>6, RespondeDebido
<1>7. CASE x \in QuitarDosSectoresDA(z, <<>>)
  BY <1>4, <1>7, MismaRta
<1>8. CASE x = Muere(e)
  BY <1>8, CalladoSigue
<1>9. QED
  BY <1>1, <1>5, <1>6, <1>7, <1>8

LEMMA AgregarDebido ==
    ASSUME NEW e, Callado(e), NEW m, NEW x \in AgregarSectores(e, m)
    PROVE  x.rta = <<>>
<1> DEFINE junto == e.archivos[m.a].sec \o m.s
           u == <<Otra, m.s[2]>>
           v == <<Otra, IF Len(junto) = 2 THEN m.s[2] ELSE Otra>>
           y == [e EXCEPT !.archivos[m.a].sec = junto, !.ucBuf = v]
           z == Culpa([y EXCEPT !.archivos = e.archivos], "agregar")
           w == Culpa([e EXCEPT !.ucBuf = u], "sin archivo")
<1>1. x = y \/ x = z \/ x = w \/ x = Muere(e)
  <2>1. x \in Ldap(e, "buscar", Hay(e, m.a), Ldap(e, "agregar", TRUE, {y}, {z}), {w})
    BY DEF AgregarSectores
  <2>2. x \in Ldap(e, "agregar", TRUE, {y}, {z}) \/ x = w \/ x = Muere(e)
    <3> HIDE DEF y, z, w
    <3>1. QED
      BY <2>1, LdapCasos
  <2> HIDE DEF y, z, w
  <2>3. QED
    BY <2>2, LdapCasos
<1>2. y.rta = <<>> /\ z.rta = <<>> /\ w.rta = <<>> /\ Muere(e).rta = <<>>
  <2> HIDE DEF junto, u, v
  <2>1. QED
    BY DEF Callado, CamposSfs, Culpa, Muere
<1> HIDE DEF y, z, w
<1>3. QED
  BY <1>1, <1>2

LEMMA ListarDebido ==
    ASSUME NEW e, Callado(e), NEW m, m.t = "LISTAR", NEW x \in ListarDirectorio(e, m)
    PROVE  Debido(m, x)
<1>1. x = Responde(e, "LISTADO", m, <<>>) \/ x = Muere(e)
  BY LdapCasos DEF ListarDirectorio
<1>2. Debida("LISTADO", m)
  BY DEF Debida
<1>3. QED
  BY <1>1, <1>2, CalladoSigue, RespondeDebido

LEMMA FormatearDebido ==
    ASSUME NEW e, Callado(e), NEW m, m.t = "FORMATEAR", NEW x \in Formatear(e, m)
    PROVE  Debido(m, x)
<1> DEFINE w == [e EXCEPT !.ucBuf = <<Otra, Otra>>]
           todos == [k \in 1..m.s[1] |-> k - 1]
           y == [w EXCEPT !.formateado = TRUE, !.libres = todos]
<1>1. x = Muere(w) \/ x = Responde(Desligar(w), "FORMATEADO", m, <<>>) \/ x = Responde(y, "FORMATEADO", m, <<>>)
  BY LdapCasos DEF Formatear
<1>2. Callado(w)
  BY CalladoSigue
<1>3. Callado(y) /\ Callado(Desligar(w)) /\ Callado(Muere(w))
  <2> HIDE DEF w, todos
  <2>1. Callado(y)
    BY <1>2 DEF Callado, CamposSfs
  <2> HIDE DEF y
  <2>2. QED
    BY <1>2, <2>1, CalladoSigue
<1>4. Debida("FORMATEADO", m)
  BY DEF Debida
<1> HIDE DEF w, y
<1>5. QED
  BY <1>1, <1>3, <1>4, CalladoSigue, RespondeDebido

LEMMA AtenderDebido ==
    ASSUME NEW e, Callado(e), NEW m, m.t \in TiposSfs, NEW x \in Atender(e, m)
    PROVE  Debido(m, x)
<1>1. CASE m.t = "EXISTE"
  BY <1>1, ExisteDebido DEF Atender
<1>2. CASE m.t = "INFO"
  BY <1>2, InfoDebido DEF Atender
<1>3. CASE m.t = "ELIMINA"
  BY <1>3, EliminaDebido DEF Atender
<1>4. CASE m.t = "CREAR"
  BY <1>4, CrearDebido DEF Atender
<1>5. CASE m.t = "TAMANIO"
  BY <1>5, TamanioDebido DEF Atender
<1>6. CASE m.t = "DOS"
  BY <1>6, DosDebido DEF Atender
<1>7. CASE m.t = "AGREGAR"
  BY <1>7, AgregarDebido DEF Atender, Debido
<1>8. CASE m.t = "LISTAR"
  BY <1>8, ListarDebido DEF Atender
<1>9. CASE m.t = "FORMATEAR"
  BY <1>9, FormatearDebido DEF Atender
<1>10. QED
  BY <1>1, <1>2, <1>3, <1>4, <1>5, <1>6, <1>7, <1>8, <1>9 DEF TiposSfs

-----------------------------------------------------------------------------
(* A request becomes its answer *)

\* A queue without its first message.
LEMMA SacaDe ==
    ASSUME NEW q, EsSec(q), q # <<>>, NEW p, p = Tail(q) \/ p = <<>>, NEW i
    PROVE  /\ HayDe(p, i) => HayDe(q, i)
           /\ UnoDe(q, i) => UnoDe(p, i) /\ ~(HayDe(p, i) /\ Quien(Head(q)) = i)
           /\ Quien(Head(q)) = i => HayDe(q, i) /\ HayTipo(q, Head(q).t, i)
           /\ \A t : HayTipo(p, t, i) => HayTipo(q, t, i)
<1>1. CASE p = Tail(q)
  BY <1>1, MenosDe
<1>2. CASE p = <<>>
  BY <1>2, MenosDe, NingunoDe
<1>3. QED
  BY <1>1, <1>2

\* The SFS takes a request, and may leave its answer.
LEMMA PasaSfs ==
    ASSUME NEW v, NEW cs, NEW ps, NEW p, NEW d, NEW a, NEW r, Mensajes(v, cs, ps, p, d, a, r),
           EsSec(p), p # <<>>, EsSec(d), NEW g, Quien(g) = Quien(Head(p)),
           g.t = "ERROR" => Head(p).t = "DOS", NEW p1, p1 = Tail(p) \/ p1 = <<>>
    PROVE  Mensajes(v, cs, ps, p1, Append(d, g), a, r)
<1> DEFINE d1 == Append(d, g)
<1> SUFFICES ASSUME NEW i, i # 0
             PROVE  /\ UnoViaja(p1, d1, a, r, i)
                    /\ Viaja(p1, d1, a, r, i) => IF i = -1 THEN v = "espera CHS"
                                                 ELSE DeAlguien(cs, ps, p1, d1, i)
  BY DEF Mensajes
<1>1. /\ UnoViaja(p, d, a, r, i)
      /\ Viaja(p, d, a, r, i) => IF i = -1 THEN v = "espera CHS" ELSE DeAlguien(cs, ps, p, d, i)
  BY DEF Mensajes
<1>2. /\ HayDe(p1, i) => HayDe(p, i)
      /\ UnoDe(p, i) => UnoDe(p1, i) /\ ~(HayDe(p1, i) /\ Quien(Head(p)) = i)
      /\ Quien(Head(p)) = i => HayDe(p, i) /\ HayTipo(p, Head(p).t, i)
      /\ \A t : HayTipo(p1, t, i) => HayTipo(p, t, i)
  BY SacaDe
<1>3. /\ HayDe(d1, i) <=> HayDe(d, i) \/ Quien(g) = i
      /\ UnoDe(d1, i) <=> UnoDe(d, i) /\ ~(HayDe(d, i) /\ Quien(g) = i)
      /\ \A t : HayTipo(d1, t, i) <=> HayTipo(d, t, i) \/ (Quien(g) = i /\ g.t = t)
  BY MasDe
<1> HIDE DEF d1
<1>4. UnoViaja(p1, d1, a, r, i)
  BY <1>1, <1>2, <1>3 DEF UnoViaja
<1>5. Viaja(p1, d1, a, r, i) => Viaja(p, d, a, r, i)
  BY <1>2, <1>3 DEF Viaja
<1>6. HayTipo(p1, "DOS", i) \/ HayTipo(d1, "ERROR", i) => HayTipo(p, "DOS", i) \/ HayTipo(d, "ERROR", i)
  BY <1>2, <1>3
<1>7. DeAlguien(cs, ps, p, d, i) => DeAlguien(cs, ps, p1, d1, i)
  BY <1>6 DEF DeAlguien
<1>8. QED
  BY <1>1, <1>4, <1>5, <1>7

\* So does the DA.
LEMMA PasaDa ==
    ASSUME NEW v, NEW cs, NEW ps, NEW p, NEW d, NEW a, NEW r, Mensajes(v, cs, ps, p, d, a, r),
           EsSec(a), a # <<>>, EsSec(r), NEW g, Quien(g) = Quien(Head(a)), NEW a1, a1 = Tail(a) \/ a1 = <<>>
    PROVE  Mensajes(v, cs, ps, p, d, a1, Append(r, g))
<1> DEFINE r1 == Append(r, g)
<1> SUFFICES ASSUME NEW i, i # 0
             PROVE  /\ UnoViaja(p, d, a1, r1, i)
                    /\ Viaja(p, d, a1, r1, i) => IF i = -1 THEN v = "espera CHS"
                                                 ELSE DeAlguien(cs, ps, p, d, i)
  BY DEF Mensajes
<1>1. /\ UnoViaja(p, d, a, r, i)
      /\ Viaja(p, d, a, r, i) => IF i = -1 THEN v = "espera CHS" ELSE DeAlguien(cs, ps, p, d, i)
  BY DEF Mensajes
<1>2. /\ HayDe(a1, i) => HayDe(a, i)
      /\ UnoDe(a, i) => UnoDe(a1, i) /\ ~(HayDe(a1, i) /\ Quien(Head(a)) = i)
      /\ Quien(Head(a)) = i => HayDe(a, i)
  BY SacaDe
<1>3. /\ HayDe(r1, i) <=> HayDe(r, i) \/ Quien(g) = i
      /\ UnoDe(r1, i) <=> UnoDe(r, i) /\ ~(HayDe(r, i) /\ Quien(g) = i)
  BY MasDe
<1> HIDE DEF r1
<1>4. UnoViaja(p, d, a1, r1, i)
  BY <1>1, <1>2, <1>3 DEF UnoViaja
<1>5. Viaja(p, d, a1, r1, i) => Viaja(p, d, a, r, i)
  BY <1>2, <1>3 DEF Viaja
<1>6. QED
  BY <1>1, <1>4, <1>5

-----------------------------------------------------------------------------
(* The invariant: while no client is cut, and nothing of what the property excepts *)
(* happens, the descriptors are the ones of the sessions and what travels is of    *)
(* the one that waits for it                                                       *)

\* No client was cut, and nothing happened of what the property excepts.
Tranquilo == cuenta.k = 0 /\ culpas \intersect {"consola", "descartada", "ajeno"} = {}
RtasSolas(d) == \A j \in DOMAIN d : d[j].t \notin {"AGREGAR", "FORMATEAR", "GET"}
Propias ==
    /\ ~ajena /\ EsFichas(fds) /\ EsClientes(cl) /\ EsSec(aDa)
    /\ Sesiones(cl, ped, fds, cuenta.s)
    /\ RtasSolas(deSfs) /\ Mensajes(vsk, cl, ped, aSfs, deSfs, aDa, deDa)
Cuenta == DOMAIN cuenta = {"s", "k", "r", "o"} /\ cuenta.s \in Nat /\ cuenta.k \in Nat
InvPropias == Cuenta /\ (Tranquilo => Propias)

\* It is what the property says.
LEMMA PropiasRespuesta ==
    ASSUME InvPropias
    PROVE  RespuestaPropia
<1> SUFFICES ASSUME ajena, ~(cuenta.k > 0),
                    culpas \intersect {"consola", "descartada", "ajeno"} = {}
             PROVE  FALSE
  BY DEF RespuestaPropia
<1>1. cuenta.k = 0
  BY DEF InvPropias, Cuenta
<1>2. QED
  BY <1>1 DEF InvPropias, Tranquilo, Propias

\* At the start there are neither sessions nor messages.
LEMMA InitPropias ==
    ASSUME Init
    PROVE  InvPropias
<1>1. /\ fds = <<>> /\ aSfs = <<>> /\ deSfs = <<>> /\ aDa = <<>> /\ deDa = <<>>
      /\ cl = [c \in Sockets |-> Fuera] /\ ped = [c \in Sockets |-> NoLlamada]
      /\ ajena = FALSE /\ cuenta = [s |-> 0, k |-> 0, r |-> 0, o |-> 0]
  BY DEF Init, InitSfs
<1>2. Cuenta
  BY <1>1 DEF Cuenta
<1>3. EsSec(<<>>) /\ DOMAIN <<>> = {}
  BY ColaVacia DEF EsSec
<1>4. EsFichas(fds) /\ EsSec(aDa) /\ RtasSolas(deSfs)
  BY <1>1, <1>3 DEF EsFichas, RtasSolas
<1>5. EsClientes(cl)
  BY <1>1 DEF EsClientes, Fuera, CamposCl
<1>6. Sesiones(cl, ped, fds, cuenta.s)
  BY <1>1, <1>3 DEF Sesiones, Sesion, Fuera, NoLlamada, Llamada, Ests
<1>7. Mensajes(vsk, cl, ped, aSfs, deSfs, aDa, deDa)
  <2>1. \A i : ~HayDe(<<>>, i) /\ UnoDe(<<>>, i)
    BY NingunoDe
  <2>2. QED
    BY <1>1, <2>1 DEF Mensajes, UnoViaja, Viaja
<1>8. QED
  BY <1>1, <1>2, <1>4, <1>5, <1>6, <1>7 DEF InvPropias, Propias

\* What a step of the VSK finds, and what it has to leave.
LEMMA EstadoPropio ==
    ASSUME Formas, Propias
    PROVE  /\ EsSes(EstadoVsk) /\ EstadoVsk.fds = fds /\ EstadoVsk.cl = cl /\ EstadoVsk.ped = ped
           /\ EstadoVsk.aSfs = aSfs /\ EstadoVsk.aDa = aDa /\ EstadoVsk.ajena = ajena
           /\ EstadoVsk.vsk = vsk /\ EstadoVsk.culpas = culpas /\ EsSec(aSfs) /\ EsSec(deSfs)
           /\ EsSec(deDa) /\ EsPed(ped) /\ EsSec(aDa)
<1>1. EsVsk(EstadoVsk)
  BY EstadoEs
<1>2. /\ EstadoVsk.fds = fds /\ EstadoVsk.cl = cl /\ EstadoVsk.ped = ped
      /\ EstadoVsk.aSfs = aSfs /\ EstadoVsk.aDa = aDa /\ EstadoVsk.ajena = ajena
      /\ EstadoVsk.vsk = vsk /\ EstadoVsk.culpas = culpas
  BY DEF EstadoVsk
<1>3. EsSes(EstadoVsk)
  BY <1>1, <1>2 DEF EsSes, Propias
<1>4. QED
  BY <1>2, <1>3 DEF Formas, Propias

\* A step that leaves sessions and messages as they should be keeps the invariant.
LEMMA DejaPropias ==
    ASSUME NEW x, Aplica(x), EsSes(x), Sesiones(x.cl, x.ped, x.fds, cuenta.s), ~x.ajena,
           cuenta'.s = cuenta.s, RtasSolas(deSfs'), Mensajes(x.vsk, x.cl, x.ped, x.aSfs, deSfs', x.aDa, deDa')
    PROVE  Propias'
<1>1. /\ vsk' = x.vsk /\ fds' = x.fds /\ cl' = x.cl /\ ped' = x.ped /\ aSfs' = x.aSfs /\ aDa' = x.aDa
      /\ ajena' = x.ajena
  BY DEF Aplica
<1>2. EsFichas(x.fds) /\ EsClientes(x.cl) /\ EsSec(x.aDa)
  BY DEF EsSes
<1>3. /\ EsFichas(fds') /\ EsClientes(cl') /\ EsSec(aDa') /\ Sesiones(cl', ped', fds', cuenta.s)
      /\ Mensajes(vsk', cl', ped', aSfs', deSfs', aDa', deDa') /\ ~ajena'
  BY <1>1, <1>2
<1>4. Sesiones(cl', ped', fds', cuenta'.s)
  BY <1>3
<1>5. QED
  BY <1>3, <1>4 DEF Propias

\* With fewer answers of the SFS, they are still of its types.
LEMMA RtasSolasMenos ==
    ASSUME NEW d, EsSec(d), d # <<>>, RtasSolas(d)
    PROVE  RtasSolas(Tail(d)) /\ Head(d).t \notin {"AGREGAR", "FORMATEAR", "GET"}
<1>1. /\ Len(d) \in Nat \ {0} /\ DOMAIN d = 1..Len(d) /\ Head(d) = d[1]
      /\ \A j \in DOMAIN Tail(d) : j + 1 \in DOMAIN d /\ Tail(d)[j] = d[j + 1]
  BY EsSecMenos
<1>2. QED
  BY <1>1 DEF RtasSolas

\* While nothing happens that is excepted, nothing had happened.
LEMMA TranquiloAntes ==
    ASSUME Tranquilo', cuenta'.k = cuenta.k, \A c \in culpas : c \in culpas'
    PROVE  Tranquilo
BY DEF Tranquilo

\* Who has a message on its way waits, and has its descriptor.
LEMMA QuienEspera ==
    ASSUME NEW e, EsSes(e), NEW n, Sesiones(e.cl, e.ped, e.fds, n),
           NEW p, NEW d, NEW id, DeAlguien(e.cl, e.ped, p, d, id)
    PROVE  \E k, est : /\ EnCamino(e, k, est, n) /\ e.fds[k].id = id
                       /\ HayTipo(d, "ERROR", id) => est = "escribiendo"
<1>1. PICK c \in Sockets : /\ Aguarda(e.cl, e.ped, id, c)
                           /\ HayTipo(d, "ERROR", id) => e.cl[c].est = "escribiendo"
  BY DEF DeAlguien
<1>2. e.cl[c].est \in Esperando /\ e.cl[c].id = id /\ e.ped[c].t = Nada /\ e.cl[c].est # "fuera"
  BY <1>1 DEF Aguarda, Esperando
<1>3. Sesion(e.cl, e.ped, e.fds, n, c) /\ Nada \notin {"OPEN", "LIST"}
  BY DEF Sesiones, Nada
<1>4. Abierta(e.cl[c], e.ped[c], e.fds, c)
  BY <1>2, <1>3 DEF Sesion
<1>5. PICK k \in DOMAIN e.fds : SuFd(e.fds, k, c, e.cl[c].id)
  BY <1>4 DEF Abierta
<1>6. EnCamino(e, k, e.cl[c].est, n) /\ e.fds[k].id = id
  BY <1>2, <1>5 DEF EnCamino, EnLlamada, SuFd
<1>7. QED
  BY <1>1, <1>6

\* A call begins.
LEMMA ClientePropias ==
    ASSUME InvCuentas, InvPropias, NEW c \in Sockets, VskCliente(c), Tranquilo'
    PROVE  Propias'
<1> DEFINE e == [EstadoVsk EXCEPT !.ped[c] = NoLlamada]
           m == ped[c]
           n == cuenta.s
<1>1. /\ vsk = "atendiendo" /\ m.t # Nada /\ cuenta' = cuenta /\ deSfs' = deSfs /\ deDa' = deDa
  BY DEF VskCliente
<1>2. PICK x \in AtenderCliente(e, c, m) : Aplica(x)
  BY DEF VskCliente
<1>3. Formas /\ \A q \in culpas : q \in culpas'
  BY ClienteAparte DEF InvCuentas, Aparte
<1>4. Tranquilo /\ Propias
  BY <1>1, <1>3, TranquiloAntes DEF InvPropias
<1>5. /\ EsSes(EstadoVsk) /\ EsSec(aSfs) /\ EsPed(ped) /\ EsSec(aDa) /\ ~ajena
      /\ Sesiones(cl, ped, fds, n) /\ RtasSolas(deSfs)
      /\ Mensajes("atendiendo", cl, ped, aSfs, deSfs, aDa, deDa)
  BY <1>1, <1>3, <1>4, EstadoPropio DEF Propias
<1> DEFINE ps1 == [ped EXCEPT ![c] = NoLlamada]
<1>6. /\ EsSes(e) /\ e.cl = cl /\ e.ped = ps1 /\ e.fds = fds /\ e.aSfs = aSfs /\ e.aDa = aDa
      /\ e.ajena = ajena /\ e.vsk = vsk
  <2> DEFINE E == EstadoVsk
  <2>1. /\ E.fds = fds /\ E.cl = cl /\ E.ped = ped /\ E.aSfs = aSfs /\ E.aDa = aDa /\ E.ajena = ajena
        /\ E.vsk = vsk
    BY <1>3, <1>4, EstadoPropio
  <2>2. EsSes(E) /\ DOMAIN E = Campos /\ EsVsk(E)
    BY <1>5 DEF EsSes, EsVsk
  <2>3. EsPed(ps1)
    BY <1>5 DEF EsPed, NoLlamada, Llamada
  <2>4. e = [E EXCEPT !.ped = ps1]
    BY <2>1
  <2> HIDE DEF E, e, ps1
  <2>5. /\ DOMAIN e = Campos /\ e.ped = ps1 /\ e.cl = E.cl /\ e.fds = E.fds /\ e.aSfs = E.aSfs
        /\ e.aDa = E.aDa /\ e.ajena = E.ajena /\ e.oft = E.oft /\ e.vsk = E.vsk
    BY <2>2, <2>4 DEF Campos
  <2>6. EsSes(e)
    BY <2>2, <2>3, <2>5 DEF EsSes, EsVsk
  <2>7. QED
    BY <2>1, <2>5, <2>6
<1> HIDE DEF e
<1>7. PorAtender(e, ped, c, m, n)
  <2>1. DOMAIN ped = Sockets
    BY <1>5 DEF EsPed
  <2>2. QED
    BY <1>1, <1>5, <1>6, <2>1 DEF PorAtender
<1>8. Calma(x)
  BY <1>2 DEF Tranquilo, Calma, Aplica
<1>9. Aceptada(e, c, n, m.id, x)
  BY <1>1, <1>2, <1>6, <1>7, <1>8, Acepta
<1>10. /\ cl[c].est # "fuera" /\ m.id \in {0, cl[c].id}
  BY <1>6, <1>7, PorAtenderEs
<1>11. ~Viaja(aSfs, deSfs, aDa, deDa, cl[c].id)
  <2>1. Sesion(cl, ped, fds, n, c)
    BY <1>5 DEF Sesiones
  <2>2. cl[c].id \in 1..n /\ \A b \in Sockets : cl[b].est # "fuera" /\ cl[b].id = cl[c].id => b = c
    BY <1>10, <2>1 DEF Sesion
  <2>3. cl[c].id # 0 /\ cl[c].id # -1
    BY <2>2
  <2>4. ASSUME Viaja(aSfs, deSfs, aDa, deDa, cl[c].id) PROVE FALSE
    <3>1. DeAlguien(cl, ped, aSfs, deSfs, cl[c].id)
      BY <1>5, <2>3, <2>4 DEF Mensajes
    <3>2. PICK b \in Sockets : Aguarda(cl, ped, cl[c].id, b)
      BY <3>1 DEF DeAlguien
    <3>3. b = c
      BY <2>2, <3>2 DEF Aguarda, Esperando
    <3>4. QED
      BY <1>1, <3>2, <3>3 DEF Aguarda
  <2>5. QED
    BY <2>4
<1>12. Mensajes("atendiendo", cl, ps1, aSfs, deSfs, aDa, deDa)
  <2>1. \A i : ~Aguarda(cl, ped, i, c)
    BY <1>1 DEF Aguarda
  <2>2. \A b \in Sockets : b # c => cl[b] = cl[b] /\ ps1[b] = ped[b]
    BY <1>5 DEF EsPed
  <2> HIDE DEF ps1
  <2>3. QED
    BY <1>5, <2>1, <2>2, CambiaClienteMensajes
<1> HIDE DEF ps1, m, n
<1>13. CASE Empezada(e, c, n, m.id, x)
  <2>1. PICK y, k : /\ Salvo(e, y) /\ EnCamino(y, k, e.cl[c].est, n) /\ y.fds[k].sock = c
                    /\ Resultado(y, x, k, m.id, e.cl[c].est)
    BY <1>13 DEF Empezada
  <2>2. /\ y.cl = cl /\ y.ped = ps1 /\ y.ajena = ajena /\ y.aSfs = aSfs /\ y.aDa = aDa
    BY <1>6, <2>1 DEF Salvo
  <2>3. y.fds[k].id = cl[c].id
    BY <2>1, <2>2 DEF EnCamino, EnLlamada
  <2>4. EsSes(x) /\ Sesiones(x.cl, x.ped, x.fds, n)
    BY <2>1, SesionesResultado
  <2>5. /\ EnCamino(y, k, e.cl[c].est, n) /\ EsSec(y.aSfs) /\ Resultado(y, x, k, m.id, e.cl[c].est)
        /\ Mensajes("atendiendo", y.cl, y.ped, y.aSfs, deSfs, y.aDa, deDa)
        /\ ~Viaja(y.aSfs, deSfs, y.aDa, deDa, y.fds[k].id) /\ m.id \in {0, y.fds[k].id}
    BY <1>5, <1>10, <1>11, <1>12, <2>1, <2>2, <2>3
  <2>6. Mensajes(x.vsk, x.cl, x.ped, x.aSfs, deSfs, x.aDa, deDa) /\ x.ajena = y.ajena
    <3>1. Contestable(y, k, e.cl[c].est, n, deSfs, deDa, m.id)
      BY <2>5 DEF Contestable
    <3>2. QED
      BY <2>5, <3>1, ResultadoMensajes
  <2>7. QED
    BY <1>1, <1>2, <1>5, <2>2, <2>4, <2>6, DejaPropias DEF n
<1>14. CASE Salvo(e, x) /\ Sesiones(x.cl, x.ped, x.fds, n)
  <2>1. /\ EsSes(x) /\ x.cl = cl /\ x.ped = ps1 /\ x.ajena = ajena /\ x.aSfs = aSfs /\ x.aDa = aDa
    BY <1>6, <1>14 DEF Salvo
  <2>2. Mensajes(x.vsk, x.cl, x.ped, x.aSfs, deSfs, x.aDa, deDa)
    BY <1>12, <2>1, AtendiendoMensajes
  <2>3. QED
    BY <1>1, <1>2, <1>5, <1>14, <2>1, <2>2, DejaPropias DEF n
<1>15. QED
  BY <1>9, <1>13, <1>14 DEF Aceptada

\* What is left when an answer is taken: its call goes on, or ends.
LEMMA ContestaPropias ==
    ASSUME Formas, Propias, vsk = "atendiendo", cuenta' = cuenta,
           NEW k, NEW est, EnCamino(EstadoVsk, k, est, cuenta.s),
           RtasSolas(deSfs'), Mensajes("atendiendo", cl, ped, aSfs, deSfs', aDa, deDa'),
           ~Viaja(aSfs, deSfs', aDa, deDa', fds[k].id),
           NEW x, Resultado(EstadoVsk, x, k, fds[k].id, est), Aplica(x)
    PROVE  Propias'
<1>1. /\ EstadoVsk.fds = fds /\ EstadoVsk.cl = cl /\ EstadoVsk.ped = ped
      /\ EstadoVsk.aSfs = aSfs /\ EstadoVsk.aDa = aDa /\ EstadoVsk.ajena = ajena /\ EsSec(aSfs) /\ ~ajena
  BY EstadoPropio DEF Propias
<1>2. EsSes(x) /\ Sesiones(x.cl, x.ped, x.fds, cuenta.s)
  BY SesionesResultado
<1> DEFINE e == EstadoVsk
           d == deSfs'
           r == deDa'
<1>3. /\ EnCamino(e, k, est, cuenta.s) /\ EsSec(e.aSfs) /\ Resultado(e, x, k, e.fds[k].id, est)
      /\ Mensajes("atendiendo", e.cl, e.ped, e.aSfs, d, e.aDa, r)
      /\ ~Viaja(e.aSfs, d, e.aDa, r, e.fds[k].id) /\ e.fds[k].id \in {0, e.fds[k].id}
      /\ e.ajena = ajena
  BY <1>1
<1> HIDE DEF e, d, r
<1>4. Mensajes(x.vsk, x.cl, x.ped, x.aSfs, d, x.aDa, r) /\ x.ajena = e.ajena
  <2>1. Contestable(e, k, est, cuenta.s, d, r, e.fds[k].id)
    BY <1>3 DEF Contestable
  <2>2. QED
    BY <1>3, <2>1, ResultadoMensajes
<1>5. QED
  BY <1>1, <1>2, <1>3, <1>4, DejaPropias DEF d, r

-----------------------------------------------------------------------------
(* The answers that the VSK takes *)

\* The process may be lost with the pair it was given: nothing else changes.
LEMMA CaeIleso ==
    ASSUME NEW x, EsVsk(x), NEW m, NEW z, z = CaeConPar(x, m)
    PROVE  Ileso(x, z)
<1>1. z = Culpa(x, "caida") \/ z = x
  BY DEF CaeConPar
<1>2. CASE z = Culpa(x, "caida")
  BY <1>2 DEF Culpa, Ileso, EsVsk, Campos, Recuerda
<1>3. QED
  BY <1>1, <1>2, MismoIleso

\* A call goes on from what an answer left.
LEMMA ResultadoSigue ==
    ASSUME NEW e, NEW x, NEW k, NEW id, NEW est, Resultado(e, x, k, id, est), NEW z, Ileso(x, z)
    PROVE  Resultado(e, z, k, id, est)
<1>1. CASE Manda(e, x, id, est)
  <2>1. Manda(e, z, id, est)
    BY <1>1 DEF Manda, Ileso, Recuerda
  <2>2. QED
    BY <2>1 DEF Resultado
<1>2. CASE Contestado(e, x, k)
  <2>1. Contestado(e, z, k)
    BY <1>2 DEF Contestado, Ileso, Recuerda
  <2>2. QED
    BY <2>1 DEF Resultado
<1>3. CASE Salido(e, x, e.fds[k].sock)
  <2>1. Salido(e, z, e.fds[k].sock)
    BY <1>3 DEF Salido, Ileso, Recuerda
  <2>2. QED
    BY <2>1 DEF Resultado
<1>4. QED
  BY <1>1, <1>2, <1>3 DEF Resultado

\* What was blameless after a step was so before it.
LEMMA AntesPropias ==
    ASSUME InvCuentas, InvPropias, Tranquilo', cuenta'.k = cuenta.k, \A q \in culpas : q \in culpas'
    PROVE  Formas /\ Tranquilo /\ Propias
BY TranquiloAntes DEF InvCuentas, InvPropias

\* An answer that is nobody's changes nothing.
LEMMA NadiePropias ==
    ASSUME Formas, Propias, cuenta'.s = cuenta.s, RtasSolas(deSfs'),
           Mensajes("atendiendo", cl, ped, aSfs, deSfs', aDa, deDa'),
           NEW x, Ileso(EstadoVsk, x), Aplica(x)
    PROVE  Propias'
<1> DEFINE e == EstadoVsk
<1>1. /\ EsSes(e) /\ e.fds = fds /\ e.cl = cl /\ e.ped = ped /\ e.aSfs = aSfs /\ e.aDa = aDa
      /\ e.ajena = ajena /\ ~ajena /\ Sesiones(cl, ped, fds, cuenta.s)
  BY EstadoPropio DEF Propias
<1> HIDE DEF e
<1>2. /\ EsSes(x) /\ x.fds = fds /\ x.cl = cl /\ x.ped = ped /\ x.aSfs = aSfs /\ x.aDa = aDa
      /\ x.ajena = ajena
  BY <1>1, IlesoManso DEF Ileso, e
<1>3. Mensajes(x.vsk, x.cl, x.ped, x.aSfs, deSfs', x.aDa, deDa')
  BY <1>2, AtendiendoMensajes
<1>4. QED
  BY <1>1, <1>2, <1>3, DejaPropias

\* An answer of the SFS, and one of the DA.
LEMMA SfsPropias ==
    ASSUME InvCuentas, InvPropias, VskSfs, Tranquilo'
    PROVE  Propias'
<1> DEFINE m == Head(deSfs)
           d == Tail(deSfs)
           e == EstadoVsk
           n == cuenta.s
<1>1. /\ vsk = "atendiendo" /\ deSfs # <<>> /\ deSfs' = d /\ deDa' = deDa /\ cuenta' = cuenta
  BY DEF VskSfs
<1>2. PICK x \in AtenderSfs(e, m) : Aplica(CaeConPar(x, m))
  BY DEF VskSfs
<1>3. Formas /\ Propias
  BY <1>1, VskSfsAparte, AntesPropias DEF Aparte
<1>4. /\ EsSes(e) /\ EsSec(deSfs) /\ RtasSolas(deSfs) /\ e.vsk = "atendiendo"
      /\ e.fds = fds /\ e.cl = cl /\ e.ped = ped
      /\ Sesiones(cl, ped, fds, n) /\ Mensajes("atendiendo", cl, ped, aSfs, deSfs, aDa, deDa)
  BY <1>1, <1>3, EstadoPropio DEF Propias
<1>5. RtasSolas(d) /\ m.t \notin {"AGREGAR", "FORMATEAR"}
  BY <1>1, <1>4, RtasSolasMenos
<1>6. Mensajes("atendiendo", cl, ped, aSfs, d, aDa, deDa)
  <2>1. Menos(d, deSfs) /\ Menos(aSfs, aSfs) /\ Menos(aDa, aDa) /\ Menos(deDa, deDa)
    BY <1>1, <1>4, MenosCola, MenosMismo
  <2> HIDE DEF d
  <2>2. QED
    BY <1>4, <2>1, MenosMensajes
<1>7. PICK z : z = CaeConPar(x, m)
  OBVIOUS
<1>8. Aplica(z)
  BY <1>2, <1>7
<1> HIDE DEF m, e, n, d
<1>9. Ileso(x, z) /\ Calma(x)
  <2>1. AtiendeBien(e, m, x)
    BY <1>2, <1>4, AtenderSfsBien DEF EsSes
  <2>2. EsVsk(x)
    BY <2>1 DEF AtiendeBien, Pasado, Pide, Igual, PideUno
  <2>3. Ileso(x, z)
    BY <1>7, <2>2, CaeIleso
  <2>4. Calma(z)
    BY <1>8 DEF Tranquilo, Calma, Aplica
  <2>5. Calma(x)
    BY <2>3, <2>4, CalmaAntes DEF Ileso
  <2>6. QED
    BY <2>3, <2>5
<1>10. CASE m.id = 0 \/ m.t = "FORMATEADO"
  <2>1. Ileso(e, x) \/ x = [e EXCEPT !.con = "rota"]
    BY <1>2, <1>4, <1>9, <1>10, AtenderSfsDeNadie
  <2>2. ASSUME x = [e EXCEPT !.con = "rota"] PROVE Ileso(e, x)
    <3>1. EsVsk(e)
      BY <1>4 DEF EsSes
    <3>2. QED
      BY <2>2, <3>1 DEF Ileso, EsVsk, Campos, Recuerda
  <2>3. Ileso(e, z)
    BY <1>9, <2>1, <2>2, IlesoIleso
  <2>4. QED
    BY <1>1, <1>3, <1>5, <1>6, <1>8, <2>3, NadiePropias DEF e
<1>11. CASE m.id # 0 /\ m.t # "FORMATEADO"
  <2> DEFINE i == Quien(m)
  <2>1. HayDe(deSfs, i) /\ (UnoDe(deSfs, i) => ~HayDe(d, i)) /\ HayTipo(deSfs, m.t, i)
    BY <1>1, <1>4, PrimeroSale DEF m, d
  <2>2. i = -1 \/ i = m.id
    BY <1>5, <1>11 DEF Quien
  <2>3. i # -1
    BY <1>4, <2>1, AtendiendoMensajes DEF Viaja
  <2> HIDE DEF i
  <2>4. i = m.id /\ i # 0
    BY <1>11, <2>2, <2>3
  <2>5. UnoViaja(aSfs, deSfs, aDa, deDa, i) /\ DeAlguien(cl, ped, aSfs, deSfs, i)
    BY <1>4, <2>1, <2>3, <2>4 DEF Mensajes, Viaja
  <2>6. ~Viaja(aSfs, d, aDa, deDa, i)
    BY <2>1, <2>5 DEF UnoViaja, Viaja
  <2>7. PICK k, est : /\ EnCamino(e, k, est, n) /\ e.fds[k].id = i
                      /\ HayTipo(deSfs, "ERROR", i) => est = "escribiendo"
    BY <1>4, <2>5, QuienEspera
  <2>8. m.t = "ERROR" => est = "escribiendo"
    BY <2>1, <2>7
  <2>9. Resultado(e, x, k, m.id, est)
    BY <1>2, <1>4, <1>9, <1>11, <2>4, <2>7, <2>8, AtenderSfsCierto
  <2>10. Resultado(e, z, k, m.id, est)
    BY <1>9, <2>9, ResultadoSigue
  <2>11. m.id = fds[k].id
    BY <1>4, <2>4, <2>7
  <2>12. /\ EnCamino(EstadoVsk, k, est, cuenta.s) /\ Resultado(EstadoVsk, z, k, fds[k].id, est)
         /\ RtasSolas(deSfs') /\ Mensajes("atendiendo", cl, ped, aSfs, deSfs', aDa, deDa')
         /\ ~Viaja(aSfs, deSfs', aDa, deDa', fds[k].id)
    BY <1>1, <1>5, <1>6, <2>4, <2>6, <2>7, <2>10, <2>11 DEF e, n
  <2>13. QED
    BY <1>1, <1>3, <1>8, <2>12, ContestaPropias
<1>12. QED
  BY <1>10, <1>11

LEMMA DaPropias ==
    ASSUME InvCuentas, InvPropias, VskDa, Tranquilo'
    PROVE  Propias'
<1> DEFINE m == Head(deDa)
           r == Tail(deDa)
           e == EstadoVsk
           n == cuenta.s
<1>1. /\ vsk = "atendiendo" /\ deDa # <<>> /\ deDa' = r /\ deSfs' = deSfs /\ cuenta' = cuenta
  BY DEF VskDa
<1>2. PICK x \in Respuesta(e, m) : Aplica(x)
  BY DEF VskDa
<1>3. Formas /\ Propias
  BY <1>1, DaAparte, AntesPropias DEF Aparte
<1>4. /\ EsSes(e) /\ EsSec(deDa) /\ RtasSolas(deSfs) /\ e.vsk = "atendiendo"
      /\ e.fds = fds /\ e.cl = cl /\ e.ped = ped
      /\ Sesiones(cl, ped, fds, n) /\ Mensajes("atendiendo", cl, ped, aSfs, deSfs, aDa, deDa)
  BY <1>1, <1>3, EstadoPropio DEF Propias
<1>5. m.t \in {"GET", "GET1", "PUT", "CHS"}
  <2>1. Head(deDa) = deDa[1] /\ 1 \in DOMAIN deDa
    BY <1>1, <1>4, EsSecMenos
  <2>2. QED
    BY <1>3, <2>1 DEF Formas
<1>6. Mensajes("atendiendo", cl, ped, aSfs, deSfs, aDa, r)
  <2>1. Menos(r, deDa) /\ Menos(aSfs, aSfs) /\ Menos(aDa, aDa) /\ Menos(deSfs, deSfs)
    BY <1>1, <1>4, MenosCola, MenosMismo
  <2> HIDE DEF r
  <2>2. QED
    BY <1>4, <2>1, MenosMensajes
<1>7. Calma(x)
  BY <1>2 DEF Tranquilo, Calma, Aplica
<1> HIDE DEF m, e, n, r
<1>8. CASE m.id = 0
  <2>1. x = e
    BY <1>2, <1>4, <1>7, <1>8, RespuestaDeNadie
  <2>2. Ileso(e, x)
    BY <1>4, <2>1, MismoIleso DEF EsSes
  <2>3. QED
    BY <1>1, <1>2, <1>3, <1>4, <1>6, <2>2, NadiePropias DEF e
<1>9. CASE m.id # 0
  <2> DEFINE i == Quien(m)
  <2>1. HayDe(deDa, i) /\ (UnoDe(deDa, i) => ~HayDe(r, i))
    BY <1>1, <1>4, PrimeroSale DEF m, r
  <2>2. i = -1 \/ i = m.id
    BY <1>5 DEF Quien
  <2>3. i # -1
    BY <1>4, <2>1, AtendiendoMensajes DEF Viaja
  <2> HIDE DEF i
  <2>4. i = m.id /\ i # 0
    BY <1>9, <2>2, <2>3
  <2>5. UnoViaja(aSfs, deSfs, aDa, deDa, i) /\ DeAlguien(cl, ped, aSfs, deSfs, i)
    BY <1>4, <2>1, <2>3, <2>4 DEF Mensajes, Viaja
  <2>6. ~Viaja(aSfs, deSfs, aDa, r, i)
    BY <2>1, <2>5 DEF UnoViaja, Viaja
  <2>7. PICK k, est : EnCamino(e, k, est, n) /\ e.fds[k].id = i
    BY <1>4, <2>5, QuienEspera
  <2>8. Resultado(e, x, k, m.id, est)
    BY <1>2, <1>4, <1>7, <2>4, <2>7, RespuestaCierta
  <2>9. m.id = fds[k].id
    BY <1>4, <2>4, <2>7
  <2>10. /\ EnCamino(EstadoVsk, k, est, cuenta.s) /\ Resultado(EstadoVsk, x, k, fds[k].id, est)
         /\ RtasSolas(deSfs') /\ Mensajes("atendiendo", cl, ped, aSfs, deSfs', aDa, deDa')
         /\ ~Viaja(aSfs, deSfs', aDa, deDa', fds[k].id)
    BY <1>1, <1>4, <1>6, <2>4, <2>6, <2>7, <2>8, <2>9 DEF e, n
  <2>11. QED
    BY <1>1, <1>2, <1>3, <2>10, ContestaPropias
<1>10. QED
  BY <1>8, <1>9

\* No client was cut.
LEMMA PierdeClientePropias ==
    ASSUME InvCuentas, InvPropias, NEW c \in Sockets, VskPierdeCliente(c), Tranquilo'
    PROVE  Propias'
<1>1. cl[c].est = "cortado" /\ cuenta' = cuenta
  BY DEF VskPierdeCliente
<1>2. Propias
  BY <1>1, PierdeClienteAparte, AntesPropias DEF Aparte
<1>3. Sesion(cl, ped, fds, cuenta.s, c)
  BY <1>2 DEF Propias, Sesiones
<1>4. QED
  BY <1>1, <1>3 DEF Sesion, Ests, Esperando

\* The VSK finds the SFS gone: no session and no message changes.
LEMMA PierdeSfsPropias ==
    ASSUME InvCuentas, InvPropias, VskPierdeSfs, Tranquilo'
    PROVE  Propias'
<1> DEFINE e == EstadoVsk
<1>1. PICK x : x = [e EXCEPT !.con = "no", !.aux = IF @ = "SFS" THEN "suelto" ELSE @]
  OBVIOUS
<1>2. Aplica(x) /\ vsk = "atendiendo" /\ UNCHANGED <<deSfs, deDa, cuenta>>
  BY <1>1 DEF VskPierdeSfs
<1>3. Formas /\ Propias
  BY <1>2, PierdeSfsAparte, AntesPropias DEF Aparte
<1>4. EsVsk(e)
  BY <1>3, EstadoPropio DEF EsSes
<1> HIDE DEF e
<1>5. Ileso(e, x)
  BY <1>1, <1>4 DEF Ileso, EsVsk, Campos, Recuerda
<1>6. RtasSolas(deSfs') /\ Mensajes("atendiendo", cl, ped, aSfs, deSfs', aDa, deDa')
  BY <1>2, <1>3 DEF Propias
<1>7. QED
  BY <1>2, <1>3, <1>5, <1>6, NadiePropias DEF e

-----------------------------------------------------------------------------
(* The console *)

\* The format asks the DA for its sectors, and its answer is taken by nobody else.
LEMMA PideChsMensajes ==
    ASSUME NEW cs, NEW ps, NEW p, NEW d, NEW a, NEW r, Mensajes("atendiendo", cs, ps, p, d, a, r),
           EsSec(a), NEW g, Quien(g) = -1, NEW a1, a1 = a \/ a1 = Append(a, g)
    PROVE  Mensajes("espera CHS", cs, ps, p, d, a1, r)
<1>1. ~Viaja(p, d, a, r, -1)
  BY AtendiendoMensajes
<1> SUFFICES ASSUME NEW i, i # 0
             PROVE  /\ UnoViaja(p, d, a1, r, i)
                    /\ Viaja(p, d, a1, r, i) /\ i # -1 => DeAlguien(cs, ps, p, d, i)
  BY DEF Mensajes
<1>2. /\ UnoViaja(p, d, a, r, i)
      /\ Viaja(p, d, a, r, i) /\ i # -1 => DeAlguien(cs, ps, p, d, i)
  BY DEF Mensajes
<1>3. /\ HayDe(a1, i) => HayDe(a, i) \/ i = -1
      /\ UnoDe(a, i) /\ ~(HayDe(a, i) /\ i = -1) => UnoDe(a1, i)
  <2> DEFINE w == Append(a, g)
  <2>1. /\ HayDe(w, i) <=> HayDe(a, i) \/ Quien(g) = i
        /\ UnoDe(w, i) <=> UnoDe(a, i) /\ ~(HayDe(a, i) /\ Quien(g) = i)
    BY MasDe
  <2>2. a1 = a \/ a1 = w
    OBVIOUS
  <2> HIDE DEF w
  <2>3. QED
    BY <2>1, <2>2, Zenon
<1>4. UnoViaja(p, d, a1, r, i)
  BY <1>1, <1>2, <1>3 DEF UnoViaja, Viaja
<1>5. Viaja(p, d, a1, r, i) => Viaja(p, d, a, r, i) \/ i = -1
  BY <1>3 DEF Viaja
<1>6. QED
  BY <1>2, <1>4, <1>5

\* The answer of the format arrives.
LEMMA LlegaChsMensajes ==
    ASSUME NEW v, NEW cs, NEW ps, NEW p, NEW d, NEW a, NEW r, Mensajes(v, cs, ps, p, d, a, r),
           EsSec(r), r # <<>>, Quien(Head(r)) = -1
    PROVE  Mensajes("atendiendo", cs, ps, p, d, a, Tail(r))
<1> DEFINE t == Tail(r)
<1>1. HayDe(r, -1) /\ (UnoDe(r, -1) => ~HayDe(t, -1))
  BY PrimeroSale
<1>2. Menos(t, r) /\ Menos(p, p) /\ Menos(d, d) /\ Menos(a, a)
  BY MenosCola, MenosMismo
<1> HIDE DEF t
<1>3. Mensajes(v, cs, ps, p, d, a, t)
  BY <1>2, MenosMensajes
<1>4. -1 # 0
  OBVIOUS
<1>5. UnoViaja(p, d, a, r, -1)
  BY <1>4 DEF Mensajes
<1>6. ~Viaja(p, d, a, t, -1)
  BY <1>1, <1>5 DEF UnoViaja, Viaja
<1>7. Mensajes("atendiendo", cs, ps, p, d, a, t)
  BY <1>3, <1>6 DEF Mensajes
<1>8. QED
  BY <1>7 DEF t

\* When the format ends, the loop goes round with what travels as it was.
LEMMA OtroMensajes ==
    ASSUME NEW v, v # "espera CHS", NEW cs, NEW ps, NEW p, NEW d, NEW a, NEW r,
           Mensajes(v, cs, ps, p, d, a, r)
    PROVE  Mensajes("atendiendo", cs, ps, p, d, a, r)
BY DEF Mensajes

\* What the console leaves, if it does not speak with a client's DescriptorID.
Mandado(e, x) ==
    \/ Ileso(e, x)
    \/ /\ EsVsk(x) /\ Recuerda(e, x) /\ x.cl = e.cl /\ x.ped = e.ped /\ x.ajena = e.ajena
       /\ x.aSfs = e.aSfs /\ x.fds = e.fds /\ x.vsk = "espera CHS"
       /\ x.aDa = e.aDa \/ \E g : Quien(g) = -1 /\ x.aDa = Append(e.aDa, g)

\* A command of the console sends nothing in a client's name.
LEMMA ComandoMandado ==
    ASSUME NEW e, EsVsk(e), NEW t, t \in Comandos, NEW x \in Comando(e, t), Calma(x)
    PROVE  Mandado(e, x)
<1>1. PICK y \in Encuentra(e) :
         \/ x \in {IF y.aux = "DA" THEN [y EXCEPT !.montado = (t = "montar")] ELSE y}
         \/ x \in UNION {PideConsola(Culpa(y, "consola"), t, <<s, s>>, <<Vacio, Vacio>>) : s \in Sectores}
         \/ x \in PideConsola(Culpa(y, "consola"), t, <<>>, <<>>)
         \/ x \in {Fin(z, "espera CHS") : z \in PideConsola(y, "CHS", <<>>, <<>>)}
         \/ x = y
  BY VskAssumption, Zenon DEF Comando
<1>2. Ileso(e, y) /\ EsVsk(y)
  <2>1. y = [e EXCEPT !.aux = "DA"] \/ y = [e EXCEPT !.aux = "nulo"]
    BY DEF Encuentra
  <2>2. QED
    BY <2>1 DEF Ileso, EsVsk, Campos, Recuerda
<1> DEFINE c == Culpa(y, "consola")
<1>3. EsVsk(c) /\ "consola" \in c.culpas
  BY <1>2 DEF Culpa, EsVsk, Campos
<1> HIDE DEF c
<1>4. ASSUME NEW s, NEW v, x \in PideConsola(c, t, s, v) PROVE FALSE
  <2>1. Recuerda(c, x)
    BY <1>3, <1>4, PideDaIgual DEF PideConsola, Igual, Recuerda
  <2>2. QED
    BY <1>3, <2>1 DEF Recuerda, Calma
<1>5. CASE x \in {IF y.aux = "DA" THEN [y EXCEPT !.montado = (t = "montar")] ELSE y}
  <2>1. CASE x = y
    BY <1>2, <2>1 DEF Mandado
  <2>2. CASE x = [y EXCEPT !.montado = (t = "montar")]
    <3>1. Ileso(y, x)
      BY <1>2, <2>2 DEF Ileso, EsVsk, Campos, Recuerda
    <3>2. QED
      BY <1>2, <3>1, IlesoIleso DEF Mandado
  <2>3. QED
    BY <1>5, <2>1, <2>2
<1>6. CASE x \in UNION {PideConsola(c, t, <<s, s>>, <<Vacio, Vacio>>) : s \in Sectores}
  BY <1>4, <1>6
<1>7. CASE x \in PideConsola(c, t, <<>>, <<>>)
  BY <1>4, <1>7
<1>8. CASE x \in {Fin(z, "espera CHS") : z \in PideConsola(y, "CHS", <<>>, <<>>)}
  <2>1. PICK z \in PideConsola(y, "CHS", <<>>, <<>>) : x = Fin(z, "espera CHS")
    BY <1>8
  <2> DEFINE g == DePedido("CHS", ultId, <<>>, <<>>)
  <2>2. \/ z = y
        \/ z = [y EXCEPT !.aDa = Append(@, g)]
        \/ z = Fin(y, "muerta") /\ z.vsk # "muerta"
    <3>1. z = y \/ (z \in PideDa(y, "CHS", ultId, <<>>, <<>>) /\ z.vsk # "muerta")
      BY DEF PideConsola
    <3>2. QED
      BY <3>1 DEF PideDa
  <2>3. Quien(g) = -1
    BY DEF Quien, DePedido
  <2> HIDE DEF g
  <2>4. z = y \/ z = [y EXCEPT !.aDa = Append(@, g)]
    <3>1. Fin(y, "muerta").vsk = "muerta"
      BY <1>2, FinIleso
    <3>2. QED
      BY <2>2, <3>1
  <2>5. /\ EsVsk(z) /\ Recuerda(y, z) /\ z.cl = y.cl /\ z.ped = y.ped /\ z.ajena = y.ajena
        /\ z.aSfs = y.aSfs /\ z.fds = y.fds
        /\ z.aDa = y.aDa \/ z.aDa = Append(y.aDa, g)
    BY <1>2, <2>4 DEF EsVsk, Campos, Recuerda
  <2>6. Ileso(z, x) /\ x.vsk = "espera CHS"
    BY <2>1, <2>5, FinIleso
  <2>7. /\ EsVsk(x) /\ Recuerda(e, x) /\ x.cl = e.cl /\ x.ped = e.ped /\ x.ajena = e.ajena
        /\ x.aSfs = e.aSfs /\ x.fds = e.fds
        /\ x.aDa = e.aDa \/ x.aDa = Append(e.aDa, g)
    BY <1>2, <2>5, <2>6 DEF Ileso, Recuerda
  <2>8. x.aDa = e.aDa \/ \E w : Quien(w) = -1 /\ x.aDa = Append(e.aDa, w)
    BY <2>3, <2>7
  <2>9. QED
    BY <2>6, <2>7, <2>8 DEF Mandado
<1>9. CASE x = y
  BY <1>2, <1>9 DEF Mandado
<1>10. QED
  BY <1>1, <1>5, <1>6, <1>7, <1>8, <1>9 DEF c

\* The console, and the three steps in which a format goes on.
LEMMA ConsolaPropias ==
    ASSUME InvCuentas, InvPropias, Consola, Tranquilo'
    PROVE  Propias'
<1> DEFINE e == EstadoVsk
<1>1. /\ vsk = "atendiendo" /\ deSfs' = deSfs /\ deDa' = deDa /\ cuenta' = [cuenta EXCEPT !.o = @ + 1]
      /\ \E t \in Comandos : \E x \in Comando(e, t) : Aplica(x)
  BY DEF Consola
<1>2. PICK t \in Comandos : \E x \in Comando(e, t) : Aplica(x)
  BY <1>1
<1>3. PICK x \in Comando(e, t) : Aplica(x)
  BY <1>2
<1>4. cuenta'.s = cuenta.s /\ cuenta'.k = cuenta.k
  BY <1>1 DEF InvPropias, Cuenta
<1>5. Formas /\ Propias
  BY <1>4, ConsolaAparte, AntesPropias DEF Aparte
<1>6. /\ EsSes(e) /\ e.fds = fds /\ e.cl = cl /\ e.ped = ped /\ e.aSfs = aSfs /\ e.aDa = aDa
      /\ e.ajena = ajena /\ EsSec(aDa)
  BY <1>5, EstadoPropio
<1>7. /\ RtasSolas(deSfs') /\ Mensajes("atendiendo", cl, ped, aSfs, deSfs', aDa, deDa') /\ ~ajena
      /\ Sesiones(cl, ped, fds, cuenta.s)
  BY <1>1, <1>5 DEF Propias
<1>8. Calma(x)
  BY <1>3 DEF Tranquilo, Calma, Aplica
<1> HIDE DEF e
<1>9. Mandado(e, x)
  BY <1>3, <1>6, <1>8, ComandoMandado DEF EsSes
<1>10. CASE Ileso(e, x)
  BY <1>3, <1>4, <1>5, <1>7, <1>10, NadiePropias DEF e
<1>11. ASSUME ~Ileso(e, x) PROVE Propias'
  <2>1. PICK g : /\ EsVsk(x) /\ x.cl = cl /\ x.ped = ped /\ x.ajena = ajena
                 /\ x.aSfs = aSfs /\ x.fds = fds /\ x.vsk = "espera CHS"
                 /\ x.aDa = aDa \/ (Quien(g) = -1 /\ x.aDa = Append(aDa, g))
    BY <1>6, <1>9, <1>11 DEF Mandado
  <2>2. EsSec(x.aDa)
    <3>1. EsSec(Append(aDa, g))
      BY <1>6, EsSecMas
    <3>2. QED
      BY <1>6, <2>1, <3>1
  <2>3. EsSes(x)
    BY <1>6, <2>1, <2>2 DEF EsSes
  <2>4. Mensajes("espera CHS", cl, ped, aSfs, deSfs', x.aDa, deDa')
    <3>1. CASE x.aDa = aDa
      BY <1>7, <3>1, AtendiendoMensajes
    <3>2. CASE Quien(g) = -1 /\ x.aDa = Append(aDa, g)
      BY <1>6, <1>7, <3>2, PideChsMensajes
    <3>3. QED
      BY <2>1, <3>1, <3>2
  <2>5. QED
    BY <1>3, <1>4, <1>7, <2>1, <2>3, <2>4, DejaPropias
<1>12. QED
  BY <1>10, <1>11

\* The format asks the SFS, and nobody waits for its answer but the format.
LEMMA FormatoSuma ==
    ASSUME NEW e, EsSes(e), NEW id, NEW n, NEW x \in PideFormato(e, id, n)
    PROVE  Suma(e, x)
<1> DEFINE w == BuscaSfs(e)
           A == Luego({w}, LAMBDA y : PideSfs(y, "FORMATEAR", "-", id, Nada, <<n>>))
<1>1. PICK z \in A : x = Fin(z, "espera formato") \/ x = z
  BY DEF PideFormato, Luego
<1>2. z = w \/ z \in PideSfs(w, "FORMATEAR", "-", id, Nada, <<n>>)
  BY DEF Luego
<1> HIDE DEF A
<1>3. Ileso(e, w)
  BY BuscaSfsIleso DEF EsSes
<1>4. EsSes(w)
  BY <1>3, IlesoManso
<1>5. PICK u : u = w
  OBVIOUS
<1>6. Ileso(e, u) /\ EsSes(u) /\ (z = u \/ z \in PideSfs(u, "FORMATEAR", "-", id, Nada, <<n>>))
  BY <1>2, <1>3, <1>4, <1>5
<1> HIDE DEF w
<1>7. Suma(e, u)
  BY <1>6 DEF Suma, Ileso, Anota
<1>8. Suma(e, z)
  <2>1. CASE z \in PideSfs(u, "FORMATEAR", "-", id, Nada, <<n>>)
    <3>1. Suma(u, z)
      BY <1>6, <2>1, AgregarSuma
    <3>2. QED
      BY <1>6, <3>1 DEF Suma, Ileso, Recuerda, Anota
  <2>2. QED
    BY <1>6, <1>7, <2>1
<1>9. EsVsk(z)
  BY <1>8 DEF Suma, EsSes
<1>10. Ileso(z, x)
  BY <1>1, <1>9, FinIleso, MismoIleso
<1>11. QED
  BY <1>8, <1>10, SumaIleso

LEMMA FormatoChsPropias ==
    ASSUME InvCuentas, InvPropias, FormatoChs, Tranquilo'
    PROVE  Propias'
<1> DEFINE m == Head(deDa)
           E == EstadoVsk
           C == E.culpas \union (IF m.t = "CHS" THEN {} ELSE {"descartada"})
           e == [E EXCEPT !.vsk = "atendiendo",
                     !.culpas = @ \union (IF m.t = "CHS" THEN {} ELSE {"descartada"})]
           n == IF m.t = "CHS" THEN NumSectores ELSE Otra
           id == m.id
<1>1. /\ deDa # <<>> /\ deDa' = Tail(deDa) /\ deSfs' = deSfs /\ cuenta' = cuenta
      /\ \E y \in PideFormato(e, id, n) : Aplica(y)
  BY DEF FormatoChs, PideFormato
<1>2. PICK x \in PideFormato(e, id, n) : Aplica(x)
  BY <1>1
<1>3. Formas /\ Propias
  BY <1>1, FormatoChsAparte, AntesPropias DEF Aparte
<1>4. /\ EsSes(E) /\ E.fds = fds /\ E.cl = cl /\ E.ped = ped /\ E.aSfs = aSfs /\ E.aDa = aDa
      /\ E.ajena = ajena /\ EsSec(aSfs) /\ EsSec(deDa)
  BY <1>3, EstadoPropio
<1>5. /\ RtasSolas(deSfs') /\ Mensajes(vsk, cl, ped, aSfs, deSfs', aDa, deDa) /\ ~ajena
      /\ Sesiones(cl, ped, fds, cuenta.s)
  BY <1>1, <1>3 DEF Propias
<1>6. e = [E EXCEPT !.vsk = "atendiendo", !.culpas = C] /\ EsVsk(E) /\ (m.t # "CHS" => "descartada" \in C)
      /\ \A q \in E.culpas : q \in C
  BY <1>4 DEF EsSes
<1> HIDE DEF E, e, C, n, id
<1>7. Ileso(E, e) /\ e.culpas = C
  BY <1>6 DEF Ileso, EsVsk, Campos, Recuerda
<1>8. EsSes(e)
  BY <1>4, <1>7, IlesoManso
<1>9. Suma(e, x)
  BY <1>2, <1>8, FormatoSuma
<1>10. m.t = "CHS"
  <2>1. Calma(x)
    BY <1>2 DEF Tranquilo, Calma, Aplica
  <2>2. Calma(e)
    BY <1>9, <2>1, CalmaAntes DEF Suma
  <2>3. QED
    BY <1>6, <1>7, <2>2 DEF Calma
<1>11. Mensajes("atendiendo", cl, ped, aSfs, deSfs', aDa, deDa')
  <2>1. Quien(Head(deDa)) = -1
    BY <1>10 DEF Quien
  <2>2. QED
    BY <1>1, <1>4, <1>5, <2>1, LlegaChsMensajes
<1> HIDE DEF m
<1>12. /\ EsSes(x) /\ x.cl = cl /\ x.ped = ped /\ x.ajena = ajena /\ x.fds = fds /\ x.aDa = aDa
       /\ Anota(aSfs, x.aSfs)
  BY <1>4, <1>7, <1>9 DEF Suma, Ileso
<1>13. Mensajes("atendiendo", cl, ped, x.aSfs, deSfs', aDa, deDa')
  BY <1>4, <1>11, <1>12, AnotaMensajes
<1>14. Mensajes(x.vsk, x.cl, x.ped, x.aSfs, deSfs', x.aDa, deDa')
  BY <1>12, <1>13, AtendiendoMensajes
<1>15. QED
  BY <1>1, <1>2, <1>5, <1>12, <1>14, DejaPropias

LEMMA FormatoVueltaPropias ==
    ASSUME InvCuentas, InvPropias, FormatoVuelta, Tranquilo'
    PROVE  Propias'
<1> DEFINE m == Head(deSfs)
           E == EstadoVsk
           C == E.culpas \union (IF m.t = "FORMATEADO" THEN {} ELSE {"descartada"})
           e == [E EXCEPT !.vsk = "atendiendo",
                     !.culpas = @ \union (IF m.t = "FORMATEADO" THEN {} ELSE {"descartada"})]
           x == IF m.t \in ConPayload \union {"ERROR", "ERROR SOLO", "TEXTO"} THEN Desfasa(e) ELSE e
           d == Tail(deSfs)
<1>1. /\ vsk = "espera formato" /\ deSfs # <<>> /\ deSfs' = d /\ deDa' = deDa /\ cuenta' = cuenta
      /\ Aplica(x)
  BY DEF FormatoVuelta
<1>2. Formas /\ Propias
  BY <1>1, FormatoVueltaAparte, AntesPropias DEF Aparte
<1>3. EsSes(E) /\ EsSec(deSfs)
  BY <1>2, EstadoPropio
<1>4. e = [E EXCEPT !.vsk = "atendiendo", !.culpas = C] /\ EsVsk(E)
      /\ (m.t # "FORMATEADO" => "descartada" \in C) /\ \A q \in E.culpas : q \in C
  BY <1>3 DEF EsSes
<1>5. RtasSolas(d)
  BY <1>1, <1>2, <1>3, RtasSolasMenos DEF Propias
<1>6. Mensajes("atendiendo", cl, ped, aSfs, d, aDa, deDa)
  <2>1. Menos(d, deSfs) /\ Menos(aSfs, aSfs) /\ Menos(aDa, aDa) /\ Menos(deDa, deDa)
    BY <1>1, <1>3, MenosCola, MenosMismo
  <2> HIDE DEF d
  <2>2. Mensajes(vsk, cl, ped, aSfs, d, aDa, deDa)
    BY <1>2, <2>1, MenosMensajes DEF Propias
  <2>3. vsk # "espera CHS"
    BY <1>1
  <2>4. QED
    BY <2>2, <2>3, OtroMensajes
<1> HIDE DEF d
<1> HIDE DEF E, e, C
<1>7. Ileso(E, e) /\ e.culpas = C
  BY <1>4 DEF Ileso, EsVsk, Campos, Recuerda
<1>8. Calma(x) /\ (x = e \/ x = Desfasa(e))
  BY <1>1 DEF Tranquilo, Calma, Aplica
<1> HIDE DEF x, m
<1>9. x = e
  BY <1>7, <1>8, DesfasaNo DEF Ileso
<1>10. Ileso(EstadoVsk, x)
  BY <1>7, <1>9 DEF E
<1>11. RtasSolas(deSfs') /\ Mensajes("atendiendo", cl, ped, aSfs, deSfs', aDa, deDa')
  BY <1>1, <1>5, <1>6
<1>12. QED
  BY <1>1, <1>2, <1>10, <1>11, NadiePropias

LEMMA FormatoSinSfsPropias ==
    ASSUME InvCuentas, InvPropias, FormatoSinSfs, Tranquilo'
    PROVE  Propias'
<1> DEFINE E == EstadoVsk
<1>1. PICK x : x = [E EXCEPT !.vsk = "atendiendo"]
  OBVIOUS
<1>2. /\ vsk = "espera formato" /\ deSfs' = deSfs /\ deDa' = deDa /\ cuenta' = cuenta
      /\ Aplica(x)
  BY <1>1 DEF FormatoSinSfs
<1>3. Formas /\ Propias
  BY <1>2, FormatoSinSfsAparte, AntesPropias DEF Aparte
<1>4. EsVsk(E)
  BY <1>3, EstadoPropio DEF EsSes
<1> HIDE DEF E
<1>5. Ileso(E, x)
  BY <1>1, <1>4 DEF Ileso, EsVsk, Campos, Recuerda
<1>6. RtasSolas(deSfs') /\ Mensajes("atendiendo", cl, ped, aSfs, deSfs', aDa, deDa')
  BY <1>2, <1>3, OtroMensajes DEF Propias
<1>7. QED
  BY <1>2, <1>3, <1>5, <1>6, NadiePropias DEF E

-----------------------------------------------------------------------------
(* The SFS, the DA and who starts them *)

\* What the SFS answers is of whom asked.
LEMMA RtaQuien ==
    ASSUME NEW m, m.t \in TiposSfs, NEW t, NEW s, Debida(t, m), NEW g, g = Rta(t, m, s)
    PROVE  /\ Quien(g) = Quien(m) /\ (g.t = "ERROR" => m.t = "DOS")
           /\ g.t \notin {"AGREGAR", "FORMATEAR", "GET"}
<1>1. g.t = t /\ g.id = m.id
  BY DEF Rta
<1>2. t \notin {"AGREGAR", "FORMATEAR", "CHS", "GET"} /\ (t = "FORMATEADO" <=> m.t = "FORMATEAR")
      /\ m.t \notin {"AGREGAR", "FORMATEADO", "CHS"} /\ (t = "ERROR" => m.t = "DOS")
  BY DEF Debida, TiposSfs
<1> HIDE DEF Rta
<1>3. CASE t = "FORMATEADO"
  BY <1>1, <1>2, <1>3 DEF Quien
<1>4. CASE t # "FORMATEADO"
  BY <1>1, <1>2, <1>4 DEF Quien
<1>5. QED
  BY <1>1, <1>2, <1>3, <1>4

\* One more answer, of the types there are.
LEMMA RtasSolasMas ==
    ASSUME NEW d, EsSec(d), RtasSolas(d), NEW g, g.t \notin {"AGREGAR", "FORMATEAR", "GET"}
    PROVE  RtasSolas(Append(d, g))
<1> DEFINE c == Append(d, g)
<1>1. \A j \in DOMAIN c : c[j] = g \/ (j \in DOMAIN d /\ c[j] = d[j])
  BY EsSecMas
<1> HIDE DEF c
<1>2. RtasSolas(c)
  BY <1>1 DEF RtasSolas
<1>3. QED
  BY <1>2 DEF c

\* Only the queues move.
LEMMA ColasPropias ==
    ASSUME Propias, UNCHANGED <<vsk, fds, cl, ped, ajena>>, cuenta'.s = cuenta.s, EsSec(aDa'),
           RtasSolas(deSfs'), Mensajes(vsk, cl, ped, aSfs', deSfs', aDa', deDa')
    PROVE  Propias'
<1>1. /\ ~ajena' /\ EsFichas(fds') /\ EsClientes(cl') /\ Sesiones(cl', ped', fds', cuenta'.s)
      /\ Mensajes(vsk', cl', ped', aSfs', deSfs', aDa', deDa')
  BY DEF Propias
<1>2. QED
  BY <1>1 DEF Propias

\* The steps of the SFS and of the DA.
LEMMA SfsAtiendePropias ==
    ASSUME InvCuentas, InvPropias, Sfs, Tranquilo'
    PROVE  Propias'
<1> DEFINE m == Head(aSfs)
           e == Estado
<1>1. /\ SfsAtiende /\ aSfs # <<>> /\ UNCHANGED <<vsk, fds, cl, ped, ajena, cuenta, aDa, deDa>>
  BY DEF Sfs, SfsAtiende, varsVsk
<1>2. Formas
  BY DEF InvCuentas
<1>3. \A q \in culpas : q \in culpas'
  BY <1>1, <1>2, SfsDeja, SfsCuentas
<1>4. Propias
  BY <1>1, <1>3, AntesPropias
<1>5. PICK x \in Atender(e, m) : /\ deSfs' = deSfs \o x.rta
                                 /\ aSfs' = <<>> \/ aSfs' = Tail(aSfs)
  BY <1>1 DEF SfsAtiende
<1>6. Callado(e)
  BY <1>2, EstadoSfsEs DEF Callado, EsEstado
<1>7. m.t \in TiposSfs
  BY <1>1, <1>2, FormasPartes, MenosPedidos DEF PedidoBien
<1>8. EsSec(aSfs) /\ EsSec(deSfs) /\ EsSec(aDa) /\ RtasSolas(deSfs)
      /\ Mensajes(vsk, cl, ped, aSfs, deSfs, aDa, deDa)
  BY <1>2, <1>4 DEF Formas, Propias
<1> HIDE DEF e
<1>9. Debido(m, x)
  BY <1>5, <1>6, <1>7, AtenderDebido
<1>10. CASE x.rta = <<>>
  <2>1. deSfs' = deSfs
    BY <1>5, <1>8, <1>10, AlFinal
  <2>2. Menos(aSfs', aSfs) /\ Menos(deSfs, deSfs) /\ Menos(aDa, aDa) /\ Menos(deDa, deDa)
    BY <1>1, <1>5, <1>8, MenosCola, MenosVacia, MenosMismo
  <2>3. Mensajes(vsk, cl, ped, aSfs', deSfs, aDa, deDa)
    BY <1>8, <2>2, MenosMensajes
  <2>4. QED
    BY <1>1, <1>4, <1>8, <2>1, <2>3, ColasPropias
<1>11. ASSUME NEW t, NEW s, x.rta = <<Rta(t, m, s)>>, Debida(t, m) PROVE Propias'
  <2>1. PICK g : g = Rta(t, m, s)
    OBVIOUS
  <2>2. /\ Quien(g) = Quien(m) /\ (g.t = "ERROR" => m.t = "DOS")
        /\ g.t \notin {"AGREGAR", "FORMATEAR", "GET"}
    BY <1>7, <1>11, <2>1, RtaQuien
  <2>3. deSfs' = Append(deSfs, g)
    BY <1>5, <1>8, <1>11, <2>1, AlFinal
  <2>4. RtasSolas(deSfs')
    BY <1>8, <2>2, <2>3, RtasSolasMas
  <2>5. Mensajes(vsk, cl, ped, aSfs', Append(deSfs, g), aDa, deDa)
    BY <1>1, <1>5, <1>8, <2>2, PasaSfs
  <2>6. QED
    BY <1>1, <1>4, <1>8, <2>3, <2>4, <2>5, ColasPropias
<1>12. QED
  BY <1>9, <1>10, <1>11 DEF Debido

LEMMA SfsTerminaPropias ==
    ASSUME InvCuentas, InvPropias, SfsTermina, Tranquilo'
    PROVE  Propias'
<1>1. UNCHANGED <<vsk, fds, cl, ped, ajena, cuenta, aSfs, deSfs, aDa, deDa, culpas>>
  BY DEF SfsTermina, varsVsk
<1>2. Propias
  BY <1>1, AntesPropias
<1>3. EsSec(aDa) /\ RtasSolas(deSfs) /\ Mensajes(vsk, cl, ped, aSfs, deSfs, aDa, deDa)
  BY <1>2 DEF Propias
<1>4. QED
  BY <1>1, <1>2, <1>3, ColasPropias

\* What the DA answers is of whom asked.
LEMMA DaQuien ==
    ASSUME Da
    PROVE  \/ deDa' = deDa
           \/ \E g : deDa' = Append(deDa, g) /\ Quien(g) = Quien(Head(aDa))
<1> DEFINE m == Head(aDa)
           R(t, v) == [t |-> t, modo |-> "-", id |-> m.id, s |-> <<>>, v |-> v]
<1>1. \/ deDa' = deDa
      \/ m.t \in {"GET", "GET1"} /\ deDa' = Append(deDa, R(m.t, [i \in DOMAIN m.s |-> disco[m.s[i]]]))
      \/ m.t = "PUT" /\ deDa' = Append(deDa, R("PUT", <<>>))
      \/ m.t = "CHS" /\ deDa' = Append(deDa, R("CHS", <<>>))
  BY Zenon DEF Da
<1>2. \A t, v : R(t, v).t = t /\ R(t, v).id = m.id
  OBVIOUS
<1> HIDE DEF R, m
<1>3. ASSUME NEW t, t \in {"GET", "GET1", "PUT", "CHS"}, m.t = t, NEW v, deDa' = Append(deDa, R(t, v))
      PROVE  \E g : deDa' = Append(deDa, g) /\ Quien(g) = Quien(m)
  <2>1. PICK g : g = R(t, v)
    OBVIOUS
  <2>2. g.t = m.t /\ g.id = m.id
    BY <1>2, <1>3, <2>1
  <2>3. Quien(g) = Quien(m)
    BY <2>2 DEF Quien
  <2>4. QED
    BY <1>3, <2>1, <2>3
<1>4. QED
  BY <1>1, <1>3 DEF m

LEMMA DaSigue ==
    ASSUME InvCuentas, InvPropias, Da, Tranquilo'
    PROVE  Propias'
<1>1. /\ UNCHANGED <<vsk, fds, cl, ped, ajena, cuenta, aSfs, deSfs>> /\ aDa # <<>>
      /\ aDa' = <<>> \/ aDa' = Tail(aDa)
  BY DEF Da, varsSfs
<1>2. Formas /\ Propias
  BY <1>1, DaContesta, AntesPropias DEF Aparte
<1>3. EsSec(aDa) /\ EsSec(deDa) /\ RtasSolas(deSfs) /\ Mensajes(vsk, cl, ped, aSfs, deSfs, aDa, deDa)
  BY <1>2 DEF Propias, Formas
<1>4. EsSec(aDa')
  <2>1. EsSec(<<>>) /\ EsSec(Tail(aDa))
    BY <1>1, <1>3, ColaVacia, EsSecMenos
  <2>2. QED
    BY <1>1, <2>1
<1>5. Mensajes(vsk, cl, ped, aSfs, deSfs, aDa', deDa')
  <2>1. CASE deDa' = deDa
    <3>1. Menos(aSfs, aSfs) /\ Menos(deSfs, deSfs) /\ Menos(aDa', aDa) /\ Menos(deDa, deDa)
      BY <1>1, <1>3, MenosCola, MenosVacia, MenosMismo
    <3>2. QED
      BY <1>3, <2>1, <3>1, MenosMensajes
  <2>2. ASSUME NEW g, deDa' = Append(deDa, g), Quien(g) = Quien(Head(aDa))
        PROVE  Mensajes(vsk, cl, ped, aSfs, deSfs, aDa', deDa')
    BY <1>1, <1>3, <2>2, PasaDa
  <2>3. QED
    BY <2>1, <2>2, DaQuien
<1>6. QED
  BY <1>1, <1>2, <1>3, <1>4, <1>5, ColasPropias

\* The SFS is started again, and so is everything.
LEMMA ReiniciaSfsPropias ==
    ASSUME InvCuentas, InvPropias, ReiniciaSfs, Tranquilo'
    PROVE  Propias'
<1>1. /\ aSfs' = <<>> /\ deSfs' = <<>> /\ UNCHANGED <<vsk, fds, cl, ped, ajena, aDa, deDa, culpas>>
      /\ cuenta' = [cuenta EXCEPT !.r = @ + 1]
  BY DEF ReiniciaSfs, SfsArranca
<1>2. cuenta'.s = cuenta.s /\ cuenta'.k = cuenta.k
  BY <1>1 DEF InvPropias, Cuenta
<1>3. Propias
  BY <1>1, <1>2, AntesPropias
<1>4. EsSec(aDa) /\ Mensajes(vsk, cl, ped, aSfs, deSfs, aDa, deDa)
  BY <1>3 DEF Propias
<1>5. Mensajes(vsk, cl, ped, <<>>, <<>>, aDa, deDa)
  <2>1. Menos(<<>>, aSfs) /\ Menos(<<>>, deSfs) /\ Menos(aDa, aDa) /\ Menos(deDa, deDa)
    BY MenosVacia, MenosMismo
  <2>2. QED
    BY <1>4, <2>1, MenosMensajes
<1>6. RtasSolas(<<>>)
  BY DEF RtasSolas
<1>7. QED
  BY <1>1, <1>2, <1>3, <1>4, <1>5, <1>6, ColasPropias

LEMMA ReiniciaTodoPropias ==
    ASSUME InvCuentas, InvPropias, ReiniciaTodo, Tranquilo'
    PROVE  Propias'
<1>1. /\ fds' = <<>> /\ aSfs' = <<>> /\ deSfs' = <<>> /\ aDa' = <<>> /\ deDa' = <<>>
      /\ cl' = [c \in Sockets |-> Fuera] /\ ped' = [c \in Sockets |-> NoLlamada]
      /\ ajena' = ajena /\ cuenta' = [cuenta EXCEPT !.r = @ + 1]
  BY DEF ReiniciaTodo, SfsArranca
<1>2. cuenta'.s = cuenta.s /\ cuenta'.k = cuenta.k
  BY <1>1 DEF InvPropias, Cuenta
<1>3. ~ajena'
  BY <1>1, <1>2, ReiniciaTodoAparte, AntesPropias DEF Aparte, Propias
<1>4. EsSec(<<>>) /\ DOMAIN <<>> = {}
  BY ColaVacia DEF EsSec
<1>5. EsFichas(fds') /\ EsSec(aDa') /\ RtasSolas(deSfs')
  BY <1>1, <1>4 DEF EsFichas, RtasSolas
<1>6. EsClientes(cl')
  BY <1>1 DEF EsClientes, Fuera, CamposCl
<1>7. Sesiones(cl', ped', fds', cuenta'.s)
  BY <1>1, <1>4 DEF Sesiones, Sesion, Fuera, NoLlamada, Llamada, Ests
<1>8. Mensajes(vsk', cl', ped', aSfs', deSfs', aDa', deDa')
  <2>1. \A i : ~HayDe(<<>>, i) /\ UnoDe(<<>>, i)
    BY NingunoDe
  <2>2. QED
    BY <1>1, <2>1 DEF Mensajes, UnoViaja, Viaja
<1>9. QED
  BY <1>3, <1>5, <1>6, <1>7, <1>8 DEF Propias

-----------------------------------------------------------------------------
(* The clients *)

\* A client makes a call: of a new session, or of the one it has.
Llamante(cs, ps, f, n, c, r, m, n1) ==
    /\ Sesiones(cs, ps, f, n) /\ EsClientes(cs) /\ DOMAIN ps = Sockets /\ c \in Sockets
    /\ n \in Nat /\ n1 \in Nat /\ n <= n1
    /\ r.est \in Ests \ {"fuera"} /\ r.id \in 1..n1
    /\ \A b \in Sockets \ {c} : cs[b].est # "fuera" => cs[b].id # r.id
    /\ m.t # Nada => m.t = SysDe(r.est) /\ m.id \in {0, r.id}
    /\ IF m.t \in {"OPEN", "LIST"} THEN PorAbrir(r, m, f) ELSE Abierta(r, m, f, c)

LEMMA SesionesLlama ==
    ASSUME NEW cs, NEW ps, NEW f, NEW n, NEW c, NEW r, NEW m, NEW n1,
           Llamante(cs, ps, f, n, c, r, m, n1), NEW cs1, cs1 = [cs EXCEPT ![c] = r],
           NEW ps1, ps1 = [ps EXCEPT ![c] = m]
    PROVE  Sesiones(cs1, ps1, f, n1)
<1>1. /\ Sesiones(cs, ps, f, n) /\ EsClientes(cs) /\ DOMAIN ps = Sockets /\ c \in Sockets
      /\ n \in Nat /\ n1 \in Nat /\ n <= n1
      /\ r.est \in Ests /\ r.est # "fuera" /\ r.id \in 1..n1
      /\ \A b \in Sockets \ {c} : cs[b].est # "fuera" => cs[b].id # r.id
      /\ m.t # Nada => m.t = SysDe(r.est) /\ m.id \in {0, r.id}
      /\ IF m.t \in {"OPEN", "LIST"} THEN PorAbrir(r, m, f) ELSE Abierta(r, m, f, c)
  BY DEF Llamante
<1>2. /\ cs1[c] = r /\ ps1[c] = m
      /\ \A b \in Sockets : b # c => cs1[b] = cs[b] /\ ps1[b] = ps[b]
  BY <1>1 DEF EsClientes
<1>3. \A i : i \in 1..n => i \in 1..n1
  BY <1>1
<1>4. \A k \in DOMAIN f : f[k].id \in 1..n1
  BY <1>1, <1>3 DEF Sesiones
<1>5. \A j, k \in DOMAIN f : f[j].id = f[k].id => j = k
  BY <1>1 DEF Sesiones
<1>6. Sesion(cs1, ps1, f, n1, c)
  <2>1. \A b \in Sockets : cs1[b].est # "fuera" /\ cs1[b].id = r.id => b = c
    BY <1>1, <1>2
  <2>2. QED
    BY <1>1, <1>2, <2>1 DEF Sesion
<1>7. ASSUME NEW b \in Sockets, b # c PROVE Sesion(cs1, ps1, f, n1, b)
  <2>1. cs1[b] = cs[b] /\ ps1[b] = ps[b] /\ Sesion(cs, ps, f, n, b)
    BY <1>1, <1>2, <1>7 DEF Sesiones
  <2>2. cs[b].est \in Ests /\ (cs[b].est = "fuera" => ps[b].t = Nada)
    BY <2>1 DEF Sesion
  <2>3. ASSUME cs[b].est # "fuera"
        PROVE  /\ cs[b].id \in 1..n1
               /\ \A a \in Sockets : cs1[a].est # "fuera" /\ cs1[a].id = cs[b].id => a = b
               /\ ps[b].t # Nada => ps[b].t = SysDe(cs[b].est) /\ ps[b].id \in {0, cs[b].id}
               /\ IF ps[b].t \in {"OPEN", "LIST"} THEN PorAbrir(cs[b], ps[b], f)
                  ELSE Abierta(cs[b], ps[b], f, b)
    <3>1. /\ cs[b].id \in 1..n
          /\ \A a \in Sockets : cs[a].est # "fuera" /\ cs[a].id = cs[b].id => a = b
          /\ ps[b].t # Nada => ps[b].t = SysDe(cs[b].est) /\ ps[b].id \in {0, cs[b].id}
          /\ IF ps[b].t \in {"OPEN", "LIST"} THEN PorAbrir(cs[b], ps[b], f)
             ELSE Abierta(cs[b], ps[b], f, b)
      BY <2>1, <2>3 DEF Sesion
    <3>2. cs[b].id # r.id
      BY <1>1, <1>7, <2>3
    <3>3. \A a \in Sockets : cs1[a].est # "fuera" /\ cs1[a].id = cs[b].id => a = b
      BY <1>2, <3>1, <3>2
    <3>4. QED
      BY <1>3, <3>1, <3>3
  <2>4. QED
    BY <2>1, <2>2, <2>3 DEF Sesion
<1>8. QED
  BY <1>4, <1>5, <1>6, <1>7 DEF Sesiones

\* A client that waits for nothing makes a call.
LEMMA LlamaPropias ==
    ASSUME Propias, EsPed(ped), NEW c \in Sockets, NEW r, NEW m, DOMAIN r = CamposCl, cl[c].est \notin Esperando,
           cl' = [cl EXCEPT ![c] = r], ped' = [ped EXCEPT ![c] = m], UNCHANGED SinCliente,
           Llamante(cl, ped, fds, cuenta.s, c, r, m, cuenta'.s)
    PROVE  Propias'
<1>1. UNCHANGED <<vsk, fds, ajena, aSfs, deSfs, aDa, deDa>>
  BY DEF SinCliente, varsSfs
<1>2. /\ ~ajena /\ EsFichas(fds) /\ EsClientes(cl) /\ EsSec(aDa) /\ RtasSolas(deSfs)
      /\ Mensajes(vsk, cl, ped, aSfs, deSfs, aDa, deDa)
  BY DEF Propias
<1>3. Sesiones(cl', ped', fds, cuenta'.s)
  BY SesionesLlama
<1>4. EsClientes(cl')
  BY <1>2 DEF EsClientes
<1>5. Mensajes(vsk, cl', ped', aSfs, deSfs, aDa, deDa)
  <2>1. \A i : ~Aguarda(cl, ped, i, c)
    BY DEF Aguarda
  <2>2. \A b \in Sockets : b # c => cl'[b] = cl[b] /\ ped'[b] = ped[b]
    BY <1>2 DEF EsClientes, EsPed
  <2> DEFINE cs1 == cl'
             ps1 == ped'
  <2>3. \A b \in Sockets : b # c => cs1[b] = cl[b] /\ ps1[b] = ped[b]
    BY <2>2
  <2> HIDE DEF cs1, ps1
  <2>4. Mensajes(vsk, cs1, ps1, aSfs, deSfs, aDa, deDa)
    BY <1>2, <2>1, <2>3, CambiaClienteMensajes
  <2>5. QED
    BY <2>4 DEF cs1, ps1
<1>6. /\ ~ajena' /\ EsFichas(fds') /\ EsClientes(cl') /\ EsSec(aDa') /\ RtasSolas(deSfs')
      /\ Sesiones(cl', ped', fds', cuenta'.s)
      /\ Mensajes(vsk', cl', ped', aSfs', deSfs', aDa', deDa')
  BY <1>1, <1>2, <1>3, <1>4, <1>5
<1>7. QED
  BY <1>6 DEF Propias

LEMMA AbrePropias ==
    ASSUME InvCuentas, InvPropias, NEW c \in Sockets, Abre(c), Tranquilo'
    PROVE  Propias'
<1> DEFINE id == cuenta.s + 1
           R(modo, a) == [Fuera EXCEPT !.est = IF modo = "L" THEN "listando" ELSE "abriendo",
                                       !.id = id, !.modo = modo, !.a = a]
           M(modo, a) == Llamada(IF modo = "L" THEN "LIST" ELSE "OPEN", id, [modo |-> modo, a |-> a])
<1>1. PICK modo \in Modos : \E a \in Archivos \union {Nada} : Llama(c, R(modo, a), M(modo, a))
  BY DEF Abre
<1>2. PICK a \in Archivos \union {Nada} : Llama(c, R(modo, a), M(modo, a))
  BY <1>1
<1>3. /\ cl[c].est = "fuera" /\ cuenta' = [cuenta EXCEPT !.s = @ + 1] /\ UNCHANGED SinCliente
      /\ culpas' = culpas
  BY DEF Abre, SinCliente
<1>4. cuenta'.s = id /\ cuenta'.k = cuenta.k /\ cuenta.s \in Nat
  BY <1>3 DEF InvPropias, Cuenta
<1>5. Formas /\ Propias
  BY <1>3, <1>4, AntesPropias
<1>6. EsPed(ped) /\ Sesiones(cl, ped, fds, cuenta.s) /\ EsClientes(cl)
  BY <1>5 DEF Formas, Propias
<1>7. PICK r : r = R(modo, a)
  OBVIOUS
<1>8. PICK m : m = M(modo, a)
  OBVIOUS
<1>9. /\ DOMAIN r = CamposCl /\ r.id = id /\ m.id = id
      /\ \/ r.est = "listando" /\ m.t = "LIST"
         \/ r.est = "abriendo" /\ m.t = "OPEN"
  BY <1>7, <1>8 DEF Fuera, CamposCl, Llamada
<1>10. cl' = [cl EXCEPT ![c] = r] /\ ped' = [ped EXCEPT ![c] = m]
  BY <1>2, <1>7, <1>8 DEF Llama
<1> HIDE DEF R, M
<1>11. id \in 1..id /\ id \in Nat /\ cuenta.s <= id /\ id \notin 1..cuenta.s
  BY <1>4
<1> HIDE DEF id
<1>12. \A k \in DOMAIN fds : fds[k].id # id
  BY <1>6, <1>11 DEF Sesiones
<1>13. \A b \in Sockets : cl[b].est # "fuera" => cl[b].id # id
  BY <1>6, <1>11 DEF Sesiones, Sesion
<1>14. Llamante(cl, ped, fds, cuenta.s, c, r, m, id)
  <2>1. r.est \in Ests \ {"fuera"} /\ m.t = SysDe(r.est) /\ m.t \in {"OPEN", "LIST"}
    BY <1>9 DEF Ests, Esperando, SysDe
  <2>2. PorAbrir(r, m, fds)
    BY <1>9, <1>12 DEF PorAbrir
  <2>3. DOMAIN ped = Sockets
    BY <1>6 DEF EsPed
  <2>4. QED
    BY <1>4, <1>6, <1>9, <1>11, <1>13, <2>1, <2>2, <2>3 DEF Llamante
<1>15. cl[c].est \notin Esperando
  BY <1>3 DEF Esperando
<1>16. QED
  BY <1>3, <1>4, <1>5, <1>6, <1>9, <1>10, <1>14, <1>15, LlamaPropias

\* A number of sessions is not beyond itself.
LEMMA NoPasa ==
    ASSUME NEW q \in Nat PROVE q <= q
  OBVIOUS

\* A session that is open, and waits for nothing, goes on.
LEMMA SiguePropias ==
    ASSUME InvCuentas, InvPropias, NEW c \in Sockets, NEW est, NEW t, NEW s, Sigue(c, est, t, s), Tranquilo',
           cl[c].est \in {"abierto", "leido", "fallido"}, t \in Llamadas \ {"OPEN", "LIST"},
           est \in {"leyendo", "escribiendo", "cerrando", "cerrando nada"}, t = SysDe(est),
           est = "cerrando nada" => cl[c].est = "fallido"
    PROVE  Propias'
<1>1. PICK id \in IdsDe(c) : Llama(c, [cl[c] EXCEPT !.est = est], Llamada(t, id, s))
  BY DEF Sigue
<1>2. UNCHANGED SinCliente /\ cuenta' = cuenta /\ culpas' = culpas
  BY DEF Sigue, SinCliente
<1>3. Formas /\ Propias
  BY <1>2, AntesPropias
<1>4. EsPed(ped) /\ Sesiones(cl, ped, fds, cuenta.s) /\ EsClientes(cl) /\ cuenta.s \in Nat
  BY <1>3 DEF Formas, Propias, InvPropias, Cuenta
<1>5. PICK r : r = [cl[c] EXCEPT !.est = est]
  OBVIOUS
<1>6. PICK m : m = Llamada(t, id, s)
  OBVIOUS
<1>7. /\ DOMAIN r = CamposCl /\ r.id = cl[c].id /\ r.est = est
  BY <1>4, <1>5 DEF EsClientes, CamposCl
<1>8. m.t = t /\ m.id \in {0, r.id}
  BY <1>1, <1>6, <1>7 DEF Llamada, IdsDe
<1>9. cl' = [cl EXCEPT ![c] = r] /\ ped' = [ped EXCEPT ![c] = m]
  BY <1>1, <1>5, <1>6 DEF Llama
<1>10. cl[c].est # "fuera" /\ cl[c].est \notin Esperando
  BY DEF Esperando
<1>11. /\ cl[c].id \in 1..cuenta.s
       /\ \A b \in Sockets : cl[b].est # "fuera" /\ cl[b].id = cl[c].id => b = c
       /\ Abierta(cl[c], ped[c], fds, c)
  <2>1. Sesion(cl, ped, fds, cuenta.s, c)
    BY <1>4 DEF Sesiones
  <2>2. ped[c].t = Nada
    <3>1. SysDe(cl[c].est) = Nada
      BY DEF SysDe
    <3>2. QED
      BY <1>10, <2>1, <3>1 DEF Sesion
  <2>3. ped[c].t \notin {"OPEN", "LIST"}
    BY <2>2 DEF Nada
  <2>4. QED
    BY <1>10, <2>1, <2>3 DEF Sesion
<1>12. Abierta(r, m, fds, c)
  <2>1. PICK k \in DOMAIN fds : /\ SuFd(fds, k, c, cl[c].id)
                                /\ cl[c].est \in SinArchivo => fds[k].oft = 0
    BY <1>11 DEF Abierta
  <2>2. r.est \in SinArchivo => fds[k].oft = 0
    BY <1>7, <2>1 DEF SinArchivo
  <2>3. m.t # Nada
    BY <1>8 DEF Llamadas, Nada
  <2>4. QED
    BY <1>7, <2>1, <2>2, <2>3 DEF Abierta
<1>13. Llamante(cl, ped, fds, cuenta.s, c, r, m, cuenta.s)
  <2>1. r.est \in Ests \ {"fuera"} /\ m.t = SysDe(r.est) /\ m.t \notin {"OPEN", "LIST"}
    BY <1>7, <1>8 DEF Ests, Esperando
  <2>2. DOMAIN ped = Sockets /\ cuenta.s <= cuenta.s
    <3>1. DOMAIN ped = Sockets
      BY <1>4 DEF EsPed
    <3>2. cuenta.s <= cuenta.s
      BY <1>4, NoPasa
    <3>3. QED
      BY <3>1, <3>2
  <2>3. \A b \in Sockets \ {c} : cl[b].est # "fuera" => cl[b].id # r.id
    BY <1>7, <1>11
  <2>4. r.id \in 1..cuenta.s
    BY <1>7, <1>11
  <2>5. QED
    BY <1>4, <1>8, <1>12, <2>1, <2>2, <2>3, <2>4 DEF Llamante
<1>14. QED
  BY <1>2, <1>3, <1>4, <1>7, <1>9, <1>10, <1>13, LlamaPropias

LEMMA ClientesPropias ==
    ASSUME InvCuentas, InvPropias, NEW c \in Sockets,
           Abre(c) \/ Lee(c) \/ Escribe(c) \/ Cierra(c) \/ Corta(c), Tranquilo'
    PROVE  Propias'
<1>1. CASE Abre(c)
  BY <1>1, AbrePropias
<1>2. CASE Lee(c)
  <2>1. cl[c].est = "abierto" /\ Sigue(c, "leyendo", "READ", <<>>)
    BY <1>2 DEF Lee
  <2>2. "READ" \in Llamadas \ {"OPEN", "LIST"} /\ "READ" = SysDe("leyendo")
    BY DEF Llamadas, SysDe
  <2>3. QED
    BY <2>1, <2>2, SiguePropias
<1>3. CASE Escribe(c)
  <2>1. cl[c].est = "abierto" /\ Sigue(c, "escribiendo", "WRITE", Mitades(cl[c].id, cl[c].n + 1))
    BY <1>3 DEF Escribe
  <2>2. "WRITE" \in Llamadas \ {"OPEN", "LIST"} /\ "WRITE" = SysDe("escribiendo")
    BY DEF Llamadas, SysDe
  <2>3. QED
    BY <2>1, <2>2, SiguePropias
<1>4. CASE Cierra(c)
  <2>1. \/ cl[c].est \in {"leido", "abierto"} /\ Sigue(c, "cerrando", "CLOSE", <<>>)
        \/ cl[c].est = "fallido" /\ Sigue(c, "cerrando nada", "CLOSE", <<>>)
    BY <1>4 DEF Cierra
  <2>2. "CLOSE" \in Llamadas \ {"OPEN", "LIST"} /\ "CLOSE" = SysDe("cerrando")
        /\ "CLOSE" = SysDe("cerrando nada")
    BY DEF Llamadas, SysDe
  <2>3. QED
    BY <2>1, <2>2, SiguePropias
<1>5. CASE Corta(c)
  <2>1. cuenta' = [cuenta EXCEPT !.k = @ + 1]
    BY <1>5 DEF Corta
  <2>2. cuenta'.k = cuenta.k + 1 /\ cuenta.k \in Nat
    BY <2>1 DEF InvPropias, Cuenta
  <2>3. cuenta'.k # 0
    BY <2>2
  <2>4. QED
    BY <2>3 DEF Tranquilo
<1>6. QED
  BY <1>1, <1>2, <1>3, <1>4, <1>5

-----------------------------------------------------------------------------
(* The theorem *)

LEMMA CuentaSigue ==
    ASSUME Cuenta, [Next]_vars
    PROVE  Cuenta'
<1>1. \/ cuenta' = cuenta
      \/ cuenta' = [cuenta EXCEPT !.s = @ + 1]
      \/ cuenta' = [cuenta EXCEPT !.k = @ + 1]
      \/ cuenta' = [cuenta EXCEPT !.r = @ + 1]
      \/ cuenta' = [cuenta EXCEPT !.o = @ + 1]
  <2>1. CASE VskAtiende
    BY <2>1 DEF VskAtiende, VskCliente, VskSfs, VskDa
  <2>2. CASE \E c \in Sockets : VskPierdeCliente(c)
    BY <2>2 DEF VskPierdeCliente
  <2>3. CASE VskPierdeSfs \/ FormatoVuelta \/ FormatoSinSfs \/ Da
    BY <2>3 DEF VskPierdeSfs, FormatoVuelta, FormatoSinSfs, Da
  <2>4. CASE FormatoChs
    BY <2>4 DEF FormatoChs
  <2>5. CASE Consola
    BY <2>5 DEF Consola
  <2>6. CASE Sfs \/ SfsTermina
    BY <2>6 DEF Sfs, SfsTermina, varsVsk
  <2>7. CASE ReiniciaSfs \/ ReiniciaTodo
    BY <2>7 DEF ReiniciaSfs, ReiniciaTodo
  <2>8. CASE \E c \in Sockets : Abre(c) \/ Lee(c) \/ Escribe(c) \/ Cierra(c) \/ Corta(c)
    BY <2>8 DEF Abre, Lee, Escribe, Cierra, Corta, Sigue
  <2>9. CASE UNCHANGED vars
    BY <2>9 DEF vars, varsVsk
  <2>10. QED
    BY <2>1, <2>2, <2>3, <2>4, <2>5, <2>6, <2>7, <2>8, <2>9 DEF Next
<1>2. DOMAIN cuenta = {"s", "k", "r", "o"} /\ cuenta.s \in Nat /\ cuenta.k \in Nat
  BY DEF Cuenta
<1>3. QED
  BY <1>1, <1>2 DEF Cuenta

LEMMA NextPropias ==
    ASSUME InvCuentas, InvPropias, [Next]_vars
    PROVE  InvPropias'
<1>1. Cuenta'
  BY CuentaSigue DEF InvPropias
<1>2. ASSUME Tranquilo' PROVE Propias'
  <2>1. CASE \E c \in Sockets : VskCliente(c)
    BY <1>2, <2>1, ClientePropias
  <2>2. CASE VskSfs
    BY <1>2, <2>2, SfsPropias
  <2>3. CASE VskDa
    BY <1>2, <2>3, DaPropias
  <2>4. CASE \E c \in Sockets : VskPierdeCliente(c)
    BY <1>2, <2>4, PierdeClientePropias
  <2>5. CASE VskPierdeSfs
    BY <1>2, <2>5, PierdeSfsPropias
  <2>6. CASE Consola
    BY <1>2, <2>6, ConsolaPropias
  <2>7. CASE FormatoChs
    BY <1>2, <2>7, FormatoChsPropias
  <2>8. CASE FormatoVuelta
    BY <1>2, <2>8, FormatoVueltaPropias
  <2>9. CASE FormatoSinSfs
    BY <1>2, <2>9, FormatoSinSfsPropias
  <2>10. CASE Sfs
    BY <1>2, <2>10, SfsAtiendePropias
  <2>11. CASE SfsTermina
    BY <1>2, <2>11, SfsTerminaPropias
  <2>12. CASE Da
    BY <1>2, <2>12, DaSigue
  <2>13. CASE ReiniciaSfs
    BY <1>2, <2>13, ReiniciaSfsPropias
  <2>14. CASE ReiniciaTodo
    BY <1>2, <2>14, ReiniciaTodoPropias
  <2>15. CASE \E c \in Sockets : Abre(c) \/ Lee(c) \/ Escribe(c) \/ Cierra(c) \/ Corta(c)
    BY <1>2, <2>15, ClientesPropias
  <2>16. CASE UNCHANGED vars
    <3>1. Tranquilo /\ UNCHANGED <<vsk, fds, cl, ped, ajena, aSfs, deSfs, aDa, deDa, cuenta>>
      BY <1>2, <2>16 DEF Tranquilo, vars, varsSfs, varsVsk
    <3>2. Propias
      BY <3>1 DEF InvPropias
    <3>3. QED
      BY <3>1, <3>2 DEF Propias
  <2>17. QED
    BY <2>1, <2>2, <2>3, <2>4, <2>5, <2>6, <2>7, <2>8, <2>9, <2>10, <2>11, <2>12, <2>13, <2>14,
       <2>15, <2>16 DEF Next, VskAtiende
<1>3. QED
  BY <1>1, <1>2 DEF InvPropias

\* However the calls of the clients interleave, whatever the SFS and the DA fail or
\* lose, and whoever is started again, an answer reaches the session that asked,
\* unless a client was cut, the console spoke with its DescriptorID, an answer was
\* thrown away, or a close deleted the descriptor of a session that goes on.
THEOREM RespuestaPropiaSiempre == Spec => []RespuestaPropia
<1>1. Init => InvCuentas /\ InvPropias
  BY InitCuentas, InitPropias
<1>2. (InvCuentas /\ InvPropias) /\ [Next]_vars => (InvCuentas /\ InvPropias)'
  BY NextConserva, NextPropias
<1>3. InvCuentas /\ InvPropias => RespuestaPropia
  BY PropiasRespuesta
<1>4. QED
  BY <1>1, <1>2, <1>3, PTL DEF Spec

=============================================================================

--------------------------- MODULE VskCacheProofs ---------------------------
(***************************************************************************)
(* Theorem about the cache of sectors of the VSK: while sessions do not    *)
(* overlap, what is valid in it is what the device has.  The first parts   *)
(* say what each handler does to the cache and asks for; the next ones     *)
(* what the only session there is has on its way; the last ones that each  *)
(* step keeps both.                                                        *)
(***************************************************************************)
EXTENDS VskProofs

-----------------------------------------------------------------------------
(* What a handler does to the cache and to the only session there is *)

\* The shape of the cache, and of all that the formulas below read of a state.
EsCache(q) == EsSec(q) /\ \A n \in DOMAIN q : DOMAIN q[n] = {"s", "v", "ok"}
EsTodo(e) == EsSes(e) /\ EsCache(e.cache)

\* The descriptors but for what they remember of a call and for their files.
MismasFichas(f, g) == /\ EsFichas(g) /\ DOMAIN g = DOMAIN f
                      /\ \A j \in DOMAIN f : g[j].id = f[j].id /\ g[j].sock = f[j].sock

\* A step that neither sends nor tells anything; and one that leaves the cache too.
Muda(e, x) == /\ EsTodo(x) /\ Recuerda(e, x) /\ x.cl = e.cl /\ x.ped = e.ped
              /\ x.aSfs = e.aSfs /\ x.aDa = e.aDa /\ MismasFichas(e.fds, x.fds)
MismaCache(e, x) == x.cache = e.cache /\ x.cant = e.cant
Serena(e, x) == Muda(e, x) /\ MismaCache(e, x)

\* A write invalidated the sectors s; a request to the DA in the name of id, for the
\* descriptor k.
Invalidada(q, s) == \A n \in DOMAIN q : q[n].s \in Conjunto(s) => ~q[n].ok
Cabal(e) == e.cant \in Nat /\ (~HayCache => e.cache = <<>>)
PedidoDa(e, x, k, r, id) ==
    /\ Quien(r) = id /\ r.id = id
    /\ r.t = "PUT" => id = e.fds[k].id /\ (Cabal(e) => Invalidada(x.cache, r.s))
    /\ r.t \in {"GET", "PUT"} => DOMAIN r.s = 1..2
    /\ r.t = "GET" => x.fds[k].s = r.s
Envia(e, x, k, id) ==
    \/ x.aDa = e.aDa /\ (Anota(e.aSfs, x.aSfs) \/ \E r : x.aSfs = Append(e.aSfs, r) /\ Quien(r) = id)
    \/ Anota(e.aSfs, x.aSfs) /\ \E r : x.aDa = Append(e.aDa, r) /\ PedidoDa(e, x, k, r, id)

\* It asks for one thing at most; it tells something to the client of the socket c; or
\* it puts it out.
Encarga(e, x, k, id) ==
    /\ EsTodo(x) /\ Recuerda(e, x) /\ x.cl = e.cl /\ x.ped = e.ped
    /\ MismasFichas(e.fds, x.fds) /\ Envia(e, x, k, id)
Oye(e, x, c) ==
    /\ EsTodo(x) /\ Recuerda(e, x) /\ x.ped = e.ped /\ x.aSfs = e.aSfs /\ x.aDa = e.aDa
    /\ MismasFichas(e.fds, x.fds) /\ e.cl[c].est # "fuera"
    /\ \E s : /\ DOMAIN s = CamposCl /\ s.id = e.cl[c].id /\ s.est # "fuera"
              /\ x.cl = [e.cl EXCEPT ![c] = s]
Quedan(f, g) == \A j \in DOMAIN g : \E i \in DOMAIN f : g[j].id = f[i].id
Sale(e, x, c) ==
    /\ EsTodo(x) /\ Recuerda(e, x) /\ x.aSfs = e.aSfs /\ x.aDa = e.aDa
    /\ x.cl = [e.cl EXCEPT ![c] = Fuera] /\ x.ped = [e.ped EXCEPT ![c] = NoLlamada]
    /\ Quedan(e.fds, x.fds)
Efecto(e, x, k, id) ==
    Encarga(e, x, k, id) \/ Oye(e, x, e.fds[k].sock) \/ Sale(e, x, e.fds[k].sock)

LEMMA MansoSerena ==
    ASSUME NEW e, EsTodo(e), NEW k, NEW x, Manso(e, x, k) \/ Ileso(e, x), MismaCache(e, x)
    PROVE  Serena(e, x)
<1>1. Manso(e, x, k) /\ EsSes(x)
  BY IlesoManso, MansoEs DEF EsTodo
<1>2. MismasFichas(e.fds, x.fds)
  BY <1>1 DEF Manso, MismosFds, MismasFichas
<1>3. QED
  BY <1>1, <1>2 DEF Manso, Serena, Muda, MismaCache, EsTodo

LEMMA SerenaSerena ==
    ASSUME NEW e, NEW y, Serena(e, y), NEW x, Serena(y, x)
    PROVE  Serena(e, x)
<1>1. MismasFichas(e.fds, x.fds)
  BY DEF Serena, Muda, MismasFichas
<1>2. QED
  BY <1>1 DEF Serena, Muda, MismaCache, Recuerda

LEMMA MudaMuda ==
    ASSUME NEW e, NEW y, Muda(e, y), NEW x, Muda(y, x)
    PROVE  Muda(e, x)
<1>1. MismasFichas(e.fds, x.fds)
  BY DEF Muda, MismasFichas
<1>2. QED
  BY <1>1 DEF Muda, Recuerda

LEMMA SerenaMisma ==
    ASSUME NEW e, EsTodo(e)
    PROVE  Serena(e, e)
BY DEF Serena, Muda, MismaCache, Recuerda, MismasFichas, EsTodo, EsSes

LEMMA SerenaEs ==
    ASSUME NEW e, NEW x, Serena(e, x)
    PROVE  EsTodo(x) /\ DOMAIN x.fds = DOMAIN e.fds /\ MismaCache(e, x) /\ Muda(e, x)
           /\ \A k \in DOMAIN e.fds : x.fds[k].id = e.fds[k].id /\ x.fds[k].sock = e.fds[k].sock
BY DEF Serena, Muda, MismasFichas

\* Steps that leave the cache and the queues.
LEMMA FinSerena ==
    ASSUME NEW e, EsTodo(e), NEW v
    PROVE  Serena(e, Fin(e, v)) /\ Serena(e, Desfasa(e))
<1>1. EsVsk(e) /\ DOMAIN e = Campos
  BY DEF EsTodo, EsSes, EsVsk
<1>2. Ileso(e, Fin(e, v)) /\ MismaCache(e, Fin(e, v))
  BY <1>1, FinIleso DEF Fin, MismaCache, Campos
<1>3. Igual(e, Desfasa(e)) /\ MismaCache(e, Desfasa(e))
      /\ Desfasa(e).cl = e.cl /\ Desfasa(e).ped = e.ped /\ Desfasa(e).ajena = e.ajena
      /\ Desfasa(e).aDa = e.aDa /\ Desfasa(e).fds = e.fds
  BY <1>1, FinIgual DEF Desfasa, Fin, MismaCache, Campos
<1>4. Ileso(e, Desfasa(e))
  BY <1>3, IgualIleso
<1>5. QED
  BY <1>2, <1>3, <1>4, MansoSerena

LEMMA MuereSerena ==
    ASSUME NEW e, EsTodo(e), NEW a, NEW x \in PuedeMorir(e, a)
    PROVE  Serena(e, x)
BY FinSerena DEF PuedeMorir

LEMMA UsaArchivoSerena ==
    ASSUME NEW e, EsTodo(e), NEW k, NEW x \in UsaArchivo(e, k)
    PROVE  Serena(e, x) /\ (x = e \/ x.vsk = "muerta")
<1>1. x = e \/ x = Fin(e, "muerta")
  BY DEF UsaArchivo, PuedeMorir
<1>2. Fin(e, "muerta").vsk = "muerta"
  BY FinIleso DEF EsTodo, EsSes
<1>3. QED
  BY <1>1, <1>2, SerenaMisma, FinSerena

LEMMA BuscaSfsSerena ==
    ASSUME NEW e, EsTodo(e)
    PROVE  Serena(e, BuscaSfs(e)) /\ BuscaSfs(e).fds = e.fds
<1>1. Ileso(e, BuscaSfs(e))
  BY BuscaSfsIleso DEF EsTodo, EsSes
<1>2. MismaCache(e, BuscaSfs(e))
  BY DEF BuscaSfs, Fin, MismaCache, EsTodo, EsSes, EsVsk, Campos
<1>3. QED
  BY <1>1, <1>2, MansoSerena DEF Ileso

LEMMA QuitarOftSerena ==
    ASSUME NEW e, EsTodo(e), NEW guarda, NEW x \in QuitarOft(e, guarda)
    PROVE  Serena(e, x)
<1>1. Ileso(e, x)
  BY QuitarOftIleso DEF EsTodo, EsSes
<1>2. MismaCache(e, x)
  BY DEF QuitarOft, PuedeMorir, Fin, MismaCache, EsTodo, EsSes, EsVsk, Campos
<1>3. QED
  BY <1>1, <1>2, MansoSerena

LEMMA PasoSerena ==
    ASSUME NEW e, EsTodo(e), NEW k \in DOMAIN e.fds, NEW p, NEW x,
           \/ x = [e EXCEPT !.fds[k].pos = p]
           \/ x = [e EXCEPT !.fds[k].s = p]
           \/ x = [e EXCEPT !.fds[k].paso = p]
    PROVE  Serena(e, x) /\ k \in DOMAIN x.fds
<1>1. Manso(e, x, 0) /\ k \in DOMAIN x.fds
  BY RozaPaso DEF EsTodo
<1>2. MismaCache(e, x)
  BY DEF MismaCache, EsTodo, EsSes, EsVsk, Campos
<1>3. QED
  BY <1>1, <1>2, MansoSerena

LEMMA OftSerena ==
    ASSUME NEW e, EsTodo(e), NEW n, NEW b, NEW x,
           x = [e EXCEPT !.oft[n].buf = b] \/ x = [e EXCEPT !.oft[n].tam = b]
    PROVE  Serena(e, x) /\ x.fds = e.fds
<1>1. Ileso(e, x)
  BY RozaOft DEF EsTodo
<1>2. MismaCache(e, x)
  BY DEF MismaCache, EsTodo, EsSes, EsVsk, Campos
<1>3. QED
  BY <1>1, <1>2, MansoSerena DEF Ileso

LEMMA MeterOftSerena ==
    ASSUME NEW e, EsTodo(e), NEW k \in DOMAIN e.fds, NEW modo \in {"W", "R", "D"}, NEW sec,
           NEW x \in MeterOft(e, k, modo, sec)
    PROVE  Serena(e, x)
<1>1. Manso(e, x, k)
  BY MeterOftManso DEF EsTodo
<1>2. MismaCache(e, x)
  BY DEF MeterOft, MismaCache, EsTodo, EsSes, EsVsk, Campos
<1>3. QED
  BY <1>1, <1>2, MansoSerena

\* What a handler does to the cache: what is valid was so before, or is what the DA
\* answered to a read, and then nothing is asked to it.
Viene(q, s, v) == \E j \in DOMAIN q : q[j].ok /\ q[j].s = s /\ q[j].v = v
Traida(e, x, k, m, s, v) ==
    /\ m.t = "GET" /\ x.aDa = e.aDa
    /\ \E i \in 1..2 : s = e.fds[k].s[i] /\ v = m.v[i]
Almacena(e, x, k, m) ==
    /\ e.cant \in Nat => x.cant \in Nat
    /\ ~HayCache => x.cache = e.cache
    /\ \A n \in DOMAIN x.cache : x.cache[n].ok =>
          \/ Viene(e.cache, x.cache[n].s, x.cache[n].v)
          \/ Traida(e, x, k, m, x.cache[n].s, x.cache[n].v)

LEMMA MismaAlmacena ==
    ASSUME NEW e, NEW x, MismaCache(e, x), NEW k, NEW m
    PROVE  Almacena(e, x, k, m)
BY DEF MismaCache, Almacena, Viene

\* Steps one after another.
LEMMA SerenaEncarga ==
    ASSUME NEW e, NEW y, Serena(e, y), NEW k \in DOMAIN e.fds, NEW id, NEW x, Encarga(y, x, k, id)
    PROVE  Encarga(e, x, k, id)
<1>1. MismasFichas(e.fds, x.fds) /\ Recuerda(e, x) /\ y.fds[k].id = e.fds[k].id
  BY DEF Serena, Muda, Encarga, MismasFichas, Recuerda
<1>2. Cabal(e) => Cabal(y)
  BY DEF Serena, MismaCache, Cabal
<1>3. ASSUME NEW r, PedidoDa(y, x, k, r, id) PROVE PedidoDa(e, x, k, r, id)
  BY <1>1, <1>2, <1>3 DEF PedidoDa
<1>4. y.aSfs = e.aSfs /\ y.aDa = e.aDa
  BY DEF Serena, Muda
<1>5. Envia(e, x, k, id)
  BY <1>3, <1>4 DEF Encarga, Envia
<1>6. QED
  BY <1>1, <1>5 DEF Serena, Muda, Encarga

LEMMA MudaOye ==
    ASSUME NEW e, NEW y, Muda(e, y), NEW c, NEW x, Oye(y, x, c)
    PROVE  Oye(e, x, c)
<1>1. MismasFichas(e.fds, x.fds) /\ Recuerda(e, x)
  BY DEF Muda, Oye, MismasFichas, Recuerda
<1>2. QED
  BY <1>1 DEF Muda, Oye

LEMMA OyeSerena ==
    ASSUME NEW e, NEW y, NEW c, Oye(e, y, c), NEW x, Serena(y, x)
    PROVE  Oye(e, x, c)
<1>1. MismasFichas(e.fds, x.fds) /\ Recuerda(e, x)
  BY DEF Serena, Muda, Oye, MismasFichas, Recuerda
<1>2. QED
  BY <1>1 DEF Serena, Muda, Oye

LEMMA SerenaSale ==
    ASSUME NEW e, NEW y, Serena(e, y), NEW c, NEW x, Sale(y, x, c)
    PROVE  Sale(e, x, c)
<1>1. Recuerda(e, x)
  BY DEF Serena, Muda, Sale, Recuerda
<1>2. Quedan(e.fds, x.fds)
  BY DEF Serena, Muda, Sale, Quedan, MismasFichas
<1>3. QED
  BY <1>1, <1>2 DEF Serena, Muda, Sale

LEMMA OyeSale ==
    ASSUME NEW e, NEW y, NEW c, Oye(e, y, c), NEW x, Sale(y, x, c)
    PROVE  Sale(e, x, c)
<1>1. Recuerda(e, x)
  BY DEF Oye, Sale, Recuerda
<1>2. Quedan(e.fds, x.fds)
  BY DEF Oye, Sale, Quedan, MismasFichas
<1>3. x.cl = [e.cl EXCEPT ![c] = Fuera]
  BY DEF Oye, Sale
<1>4. QED
  BY <1>1, <1>2, <1>3 DEF Oye, Sale

LEMMA SaleSerena ==
    ASSUME NEW e, NEW y, NEW c, Sale(e, y, c), NEW x, Serena(y, x)
    PROVE  Sale(e, x, c)
<1>1. Recuerda(e, x)
  BY DEF Serena, Muda, Sale, Recuerda
<1>2. Quedan(e.fds, x.fds)
  BY DEF Serena, Muda, Sale, Quedan, MismasFichas
<1>3. QED
  BY <1>1, <1>2 DEF Serena, Muda, Sale

LEMMA MismaMisma ==
    ASSUME NEW e, NEW y, MismaCache(e, y), NEW x, MismaCache(y, x)
    PROVE  MismaCache(e, x)
BY DEF MismaCache

LEMMA SerenaEfecto ==
    ASSUME NEW e, NEW x, Serena(e, x), NEW k, NEW id, NEW m
    PROVE  Efecto(e, x, k, id) /\ Almacena(e, x, k, m)
<1>1. Encarga(e, x, k, id)
  BY DEF Serena, Muda, Encarga, Envia, Anota
<1>2. QED
  BY <1>1, MismaAlmacena DEF Efecto, Serena

\* What follows a step that changes nothing of what counts has the effect of both.
LEMMA SerenaLuego ==
    ASSUME NEW e, NEW y, Serena(e, y), NEW k \in DOMAIN e.fds, NEW id, NEW x, Efecto(y, x, k, id)
    PROVE  Efecto(e, x, k, id)
<1>1. y.fds[k].sock = e.fds[k].sock
  BY SerenaEs
<1>2. QED
  BY <1>1, SerenaEncarga, MudaOye, SerenaSale DEF Efecto, Serena

-----------------------------------------------------------------------------
(* A header to a client, and the end of a session *)

LEMMA EntregaOye ==
    ASSUME NEW e, EsTodo(e), NEW k \in DOMAIN e.fds, NEW t, NEW v, NEW x \in Entrega(e, k, t, v)
    PROVE  MismaCache(e, x) /\ (Serena(e, x) \/ Oye(e, x, e.fds[k].sock))
<1> DEFINE c == e.fds[k].sock
           r == e.cl[c]
<1>1. EsVsk(e) /\ DOMAIN e = Campos /\ c \in Sockets /\ DOMAIN r = CamposCl /\ DOMAIN e.cl = Sockets
  BY DEF EsTodo, EsSes, EsVsk, EsFichas, EsClientes
<1>2. \/ x = e \/ x \in PuedeMorir(e, "sigpipe")
      \/ r.est # "fuera" /\ t \in Espera(r.est) /\ \E w : x = [e EXCEPT !.cl[c] = Recibe(r, t, v), !.escrito = w]
      \/ r.est # "fuera" /\ x = [e EXCEPT !.cl[c].est = "confuso", !.ajena = TRUE]
  <2>1. CASE r.est = "fuera"
    BY <2>1 DEF Entrega, Espera
  <2>2. CASE r.est = "cortado"
    BY <2>2 DEF Entrega, Espera
  <2>3. CASE r.est \notin {"fuera", "cortado"} /\ r.id = e.fds[k].id /\ t \in Espera(r.est)
    BY <2>3 DEF Entrega
  <2>4. CASE r.est \notin {"fuera", "cortado"} /\ ~(r.id = e.fds[k].id /\ t \in Espera(r.est))
    BY <2>4 DEF Entrega
  <2>5. QED
    BY <2>1, <2>2, <2>3, <2>4
<1>3. CASE x = e \/ x \in PuedeMorir(e, "sigpipe")
  BY <1>3, SerenaMisma, MuereSerena DEF Serena
<1>4. ASSUME r.est # "fuera", NEW s, DOMAIN s = CamposCl, s.id = r.id, s.est # "fuera",
             x.cl = [e.cl EXCEPT ![c] = s], MismaCache(e, x), x.ped = e.ped, x.aDa = e.aDa, x.fds = e.fds
      PROVE  MismaCache(e, x) /\ Oye(e, x, c)
  <2>1. Igual(e, x)
    BY <1>1, EntregaIgual
  <2>2. EsClientes(x.cl)
    BY <1>1, <1>4 DEF EsClientes, EsTodo, EsSes
  <2>3. EsTodo(x)
    BY <1>4, <2>1, <2>2 DEF EsTodo, EsSes, Igual, MismaCache
  <2>4. MismasFichas(e.fds, x.fds)
    BY <1>4 DEF MismasFichas, EsTodo, EsSes
  <2>5. QED
    BY <1>4, <2>1, <2>3, <2>4 DEF Oye, Igual
<1> HIDE DEF c, r
<1>5. CASE r.est # "fuera" /\ t \in Espera(r.est) /\ \E w : x = [e EXCEPT !.cl[c] = Recibe(r, t, v), !.escrito = w]
  <2>1. DOMAIN Recibe(r, t, v) = CamposCl /\ Recibe(r, t, v).id = r.id /\ Recibe(r, t, v).est # "fuera"
    <3>1. t \in {"OPEN_OK", "OPEN_FAILED", "WRITE_OK", "READ_OK", "CLOSE_OK", "LIST_OK", "ERROR"}
      BY <1>5 DEF Espera
    <3>2. QED
      BY <1>1, <3>1 DEF Recibe, CamposCl
  <2>2. x.cl = [e.cl EXCEPT ![c] = Recibe(r, t, v)] /\ MismaCache(e, x) /\ x.ped = e.ped /\ x.aDa = e.aDa /\ x.fds = e.fds
    BY <1>1, <1>5 DEF Campos, MismaCache
  <2>3. QED
    BY <1>4, <1>5, <2>1, <2>2 DEF c
<1>6. CASE r.est # "fuera" /\ x = [e EXCEPT !.cl[c].est = "confuso", !.ajena = TRUE]
  <2> DEFINE s == [e.cl[c] EXCEPT !.est = "confuso"]
  <2>1. DOMAIN s = CamposCl /\ s.id = r.id /\ s.est # "fuera"
    BY <1>1 DEF CamposCl, r
  <2>2. x.cl = [e.cl EXCEPT ![c] = s] /\ MismaCache(e, x) /\ x.ped = e.ped /\ x.aDa = e.aDa /\ x.fds = e.fds
    BY <1>1, <1>6 DEF Campos, MismaCache
  <2> HIDE DEF s
  <2>3. QED
    BY <1>4, <1>6, <2>1, <2>2 DEF c
<1>7. QED
  BY <1>2, <1>3, <1>5, <1>6 DEF c

LEMMA CierraSocketSale ==
    ASSUME NEW e, EsTodo(e), NEW c \in Sockets, NEW x, x = CierraSocket(e, c)
    PROVE  Sale(e, x, c) /\ MismaCache(e, x) /\ x.fds = e.fds
<1>1. EsVsk(e) /\ DOMAIN e = Campos /\ EsClientes(e.cl)
  BY DEF EsTodo, EsSes, EsVsk
<1>2. Igual(e, x)
  BY <1>1, CierraIgual
<1>3. /\ x.aDa = e.aDa /\ x.fds = e.fds /\ MismaCache(e, x)
      /\ x.cl = [e.cl EXCEPT ![c] = Fuera] /\ x.ped = [e.ped EXCEPT ![c] = NoLlamada]
  BY <1>1 DEF CierraSocket, Campos, MismaCache
<1>4. EsClientes(x.cl)
  BY <1>1, <1>3 DEF EsClientes, Fuera, CamposCl
<1>5. EsTodo(x)
  BY <1>2, <1>3, <1>4 DEF EsTodo, EsSes, Igual, MismaCache
<1>6. QED
  BY <1>2, <1>3, <1>5 DEF Sale, Igual, Quedan

\* The close deletes a descriptor, its own or another: those that stay were there.
LEMMA QuitarFdQueda ==
    ASSUME NEW e, EsTodo(e), NEW c, NEW x, x = QuitarFdPorSocket(e, c)
    PROVE  /\ EsTodo(x) /\ Recuerda(e, x) /\ x.cl = e.cl /\ x.ped = e.ped
           /\ x.aSfs = e.aSfs /\ x.aDa = e.aDa /\ Quedan(e.fds, x.fds) /\ MismaCache(e, x)
<1> DEFINE K == {j \in DOMAIN e.fds : e.fds[j].sock # c}
           k == PrimeroDe(K)
<1>1. EsVsk(e) /\ DOMAIN e = Campos /\ EsFichas(e.fds)
  BY DEF EsTodo, EsSes, EsVsk
<1>2. Igual(e, x)
  BY <1>1, QuitarFdIgual
<1>3. CASE k = 0
  BY <1>1, <1>3 DEF QuitarFdPorSocket, Recuerda, Quedan, MismaCache
<1>4. CASE k # 0
  <2>1. k \in DOMAIN e.fds
    <3>1. K \subseteq Nat \ {0} /\ K \subseteq DOMAIN e.fds
      BY <1>1 DEF EsFichas, EsSec
    <3> HIDE DEF K
    <3>2. QED
      BY <1>4, <3>1, Primero
  <2>2. \E a, b : x = [e EXCEPT !.fds = RemoveAt(e.fds, k), !.culpas = a, !.basura = b]
    BY <1>4 DEF QuitarFdPorSocket
  <2> HIDE DEF k, K
  <2>3. /\ x.fds = RemoveAt(e.fds, k) /\ x.cl = e.cl /\ x.ped = e.ped /\ x.aDa = e.aDa
        /\ MismaCache(e, x)
    BY <1>1, <2>2 DEF Campos, MismaCache
  <2>4. /\ EsSec(x.fds)
        /\ \A j \in DOMAIN x.fds : \E i \in DOMAIN e.fds : x.fds[j] = e.fds[i]
    BY <1>1, <2>1, <2>3, QuitaUno DEF EsFichas
  <2>5. EsFichas(x.fds) /\ Quedan(e.fds, x.fds)
    BY <1>1, <2>4 DEF EsFichas, Quedan
  <2>6. EsTodo(x)
    BY <1>2, <2>3, <2>5 DEF EsTodo, EsSes, Igual, MismaCache
  <2>7. QED
    BY <1>2, <2>3, <2>5, <2>6 DEF Igual
<1>5. QED
  BY <1>3, <1>4

-----------------------------------------------------------------------------
(* A request *)

LEMMA PideSfsEncarga ==
    ASSUME NEW e, EsTodo(e), NEW k, NEW t \in TiposSfs \ {"AGREGAR", "FORMATEAR"}, NEW modo, NEW id,
           NEW a, NEW s, NEW x \in PideSfs(e, t, modo, id, a, s)
    PROVE  Encarga(e, x, k, id) /\ MismaCache(e, x)
<1> DEFINE r == Pedido(t, modo, id, a, s)
<1>1. EsVsk(e) /\ DOMAIN e = Campos /\ EsSes(e)
  BY DEF EsTodo, EsSes, EsVsk
<1>2. Manda(e, x, id, "escribiendo")
  BY <1>1, PideSfsManda
<1>3. /\ MismaCache(e, x) /\ x.aDa = e.aDa /\ x.fds = e.fds
      /\ x.aSfs = e.aSfs \/ x.aSfs = Append(e.aSfs, r)
  BY <1>1 DEF PideSfs, PuedeMorir, Fin, Campos, MismaCache
<1>4. Quien(r) = id
  BY DEF Quien, Pedido, TiposSfs
<1> HIDE DEF r
<1>5. EsTodo(x)
  BY <1>1, <1>2, <1>3 DEF EsTodo, EsSes, Manda, MismaCache
<1>6. MismasFichas(e.fds, x.fds)
  BY <1>1, <1>3 DEF MismasFichas, EsSes
<1>7. Envia(e, x, k, id)
  BY <1>3, <1>4 DEF Envia, Anota
<1>8. QED
  BY <1>2, <1>3, <1>5, <1>6, <1>7 DEF Encarga, Manda

\* A request to the DA is no write, or one of a session whose sectors are invalid; the
\* descriptor of a read has its sectors.
Pedible(e, k, t, id, s) ==
    /\ t \in {"GET", "GET1", "PUT", "DOS"}
    /\ t = "PUT" => id = e.fds[k].id /\ (Cabal(e) => Invalidada(e.cache, s))
    /\ t \in {"GET", "PUT"} => DOMAIN s = 1..2
    /\ t = "GET" => e.fds[k].s = s

LEMMA PideDaEncarga ==
    ASSUME NEW e, EsTodo(e), NEW k, NEW t, NEW id, NEW s, NEW v, Pedible(e, k, t, id, s),
           NEW x \in PideDa(e, t, id, s, v)
    PROVE  Encarga(e, x, k, id) /\ MismaCache(e, x) /\ x.aSfs = e.aSfs
<1> DEFINE r == DePedido(t, id, s, v)
<1>1. EsVsk(e) /\ DOMAIN e = Campos /\ EsSes(e)
  BY DEF EsTodo, EsSes, EsVsk
<1>2. Manda(e, x, id, "escribiendo")
  BY <1>1, PideDaManda DEF Pedible
<1>3. /\ MismaCache(e, x) /\ x.aSfs = e.aSfs /\ x.fds = e.fds
      /\ x.aDa = e.aDa \/ x.aDa = Append(e.aDa, r)
  BY <1>1 DEF PideDa, Fin, Campos, MismaCache
<1>4. Quien(r) = id /\ r.id = id /\ r.t = t /\ r.s = s
  BY DEF Quien, DePedido, Pedible
<1> HIDE DEF r
<1>5. EsTodo(x)
  BY <1>1, <1>2, <1>3 DEF EsTodo, EsSes, Manda, MismaCache
<1>6. MismasFichas(e.fds, x.fds)
  BY <1>1, <1>3 DEF MismasFichas, EsSes
<1>7. PedidoDa(e, x, k, r, id)
  BY <1>3, <1>4 DEF PedidoDa, MismaCache, Pedible
<1>8. Envia(e, x, k, id)
  BY <1>3, <1>7 DEF Envia, Anota
<1>9. QED
  BY <1>2, <1>3, <1>5, <1>6, <1>8 DEF Encarga, Manda

LEMMA AgregarEncarga ==
    ASSUME NEW e, EsTodo(e), NEW k, NEW id, NEW t \in {"AGREGAR", "FORMATEAR"}, NEW n, NEW a, NEW s,
           NEW x \in PideSfs(e, t, "-", n, a, s)
    PROVE  /\ Encarga(e, x, k, id) /\ MismaCache(e, x)
           /\ x.fds = e.fds /\ x.aDa = e.aDa /\ Anota(e.aSfs, x.aSfs)
<1>1. EsVsk(e) /\ DOMAIN e = Campos /\ EsSes(e)
  BY DEF EsTodo, EsSes, EsVsk
<1>2. Suma(e, x)
  BY <1>1, AgregarSuma
<1>3. MismaCache(e, x)
  BY <1>1 DEF PideSfs, PuedeMorir, Fin, Campos, MismaCache
<1>4. EsTodo(x) /\ MismasFichas(e.fds, x.fds)
  BY <1>1, <1>2, <1>3 DEF EsTodo, EsSes, Suma, MismaCache, MismasFichas
<1>5. QED
  BY <1>2, <1>3, <1>4 DEF Encarga, Envia, Suma

-----------------------------------------------------------------------------
(* The handlers, from any state *)

LEMMA AbrirPrimeroEfecto ==
    ASSUME NEW e, EsTodo(e), NEW k, NEW m, NEW x \in AbrirPrimero(e, k, m)
    PROVE  Efecto(e, x, k, m.id) /\ MismaCache(e, x)
<1>2. \/ x = e \/ x = Fin(e, "buscando")
      \/ x \in PideSfs(e, "EXISTE", m.s.modo, m.id, m.s.a, <<>>)
  BY DEF AbrirPrimero, VerificarAbierto
<1>3. CASE x = e \/ x = Fin(e, "buscando")
  BY <1>3, SerenaMisma, FinSerena, SerenaEfecto DEF Serena
<1>4. CASE x \in PideSfs(e, "EXISTE", m.s.modo, m.id, m.s.a, <<>>)
  <2>1. "EXISTE" \in TiposSfs \ {"AGREGAR", "FORMATEAR"}
    BY DEF TiposSfs
  <2>2. QED
    BY <1>4, <2>1, PideSfsEncarga DEF Efecto
<1>5. QED
  BY <1>2, <1>3, <1>4

LEMMA ListarPrimeroEfecto ==
    ASSUME NEW e, EsTodo(e), NEW k \in DOMAIN e.fds, NEW m, NEW x \in ListarPrimero(e, k, m)
    PROVE  Efecto(e, x, k, m.id) /\ MismaCache(e, x)
<1> DEFINE w == [e EXCEPT !.fds[k].paso = 1]
<1>2. \/ x = Fin(e, "bloqueada") \/ x = Desfasa(e)
      \/ x \in PideSfs(w, "LISTAR", "-", m.id, Nada, <<>>)
  BY DEF ListarPrimero
<1>3. Serena(e, w) /\ EsTodo(w)
  BY PasoSerena, SerenaEs
<1> HIDE DEF w
<1>4. CASE x = Fin(e, "bloqueada") \/ x = Desfasa(e)
  BY <1>4, FinSerena, SerenaEfecto DEF Serena
<1>5. CASE x \in PideSfs(w, "LISTAR", "-", m.id, Nada, <<>>)
  <2>1. "LISTAR" \in TiposSfs \ {"AGREGAR", "FORMATEAR"}
    BY DEF TiposSfs
  <2>2. Encarga(w, x, k, m.id) /\ MismaCache(w, x)
    BY <1>3, <1>5, <2>1, PideSfsEncarga
  <2>3. QED
    BY <1>3, <2>2, SerenaEncarga, MismaMisma DEF Efecto, Serena
<1>6. QED
  BY <1>2, <1>4, <1>5

LEMMA AbrirEfecto ==
    ASSUME NEW e, EsTodo(e), NEW k \in DOMAIN e.fds, NEW m, NEW x \in Abrir(e, k, m)
    PROVE  Efecto(e, x, k, m.id) /\ MismaCache(e, x)
<1> DEFINE P(t) == PideSfs(e, t, m.modo, m.id, e.fds[k].a, <<>>)
           Q(modo, sec) == UNION {Entrega(y, k, "OPEN_OK", <<>>) : y \in MeterOft(e, k, modo, sec)}
<1>1. \/ \E t \in {"ELIMINA", "CREAR", "INFO"} : x \in P(t)
      \/ \E modo \in {"W", "R", "D"} : \E sec : x \in Q(modo, sec)
      \/ x \in Entrega(e, k, "OPEN_FAILED", <<>>)
      \/ x = Desfasa(e) \/ x = e
  BY DEF Abrir
<1>3. ASSUME NEW t \in {"ELIMINA", "CREAR", "INFO"}, x \in P(t) PROVE Efecto(e, x, k, m.id) /\ MismaCache(e, x)
  <2>1. t \in TiposSfs \ {"AGREGAR", "FORMATEAR"}
    BY DEF TiposSfs
  <2>2. QED
    BY <1>3, <2>1, PideSfsEncarga DEF Efecto
<1>4. ASSUME NEW y, Serena(e, y), NEW t, x \in Entrega(y, k, t, <<>>) PROVE Efecto(e, x, k, m.id) /\ MismaCache(e, x)
  <2>1. EsTodo(y) /\ k \in DOMAIN y.fds /\ MismaCache(e, y)
    BY <1>4, SerenaEs
  <2>2. MismaCache(y, x) /\ Efecto(y, x, k, m.id)
    BY <1>4, <2>1, EntregaOye, SerenaEfecto DEF Efecto
  <2>3. QED
    BY <1>4, <2>1, <2>2, SerenaLuego, MismaMisma
<1>5. ASSUME NEW modo \in {"W", "R", "D"}, NEW sec, x \in Q(modo, sec) PROVE Efecto(e, x, k, m.id) /\ MismaCache(e, x)
  <2>1. PICK y \in MeterOft(e, k, modo, sec) : x \in Entrega(y, k, "OPEN_OK", <<>>)
    BY <1>5
  <2>2. QED
    BY <1>4, <2>1, MeterOftSerena
<1>6. CASE x = Desfasa(e) \/ x = e
  BY <1>6, SerenaMisma, FinSerena, SerenaEfecto DEF Serena
<1> HIDE DEF P, Q
<1>7. QED
  BY <1>1, <1>3, <1>4, <1>5, <1>6, SerenaMisma

LEMMA MuertaSerena ==
    ASSUME NEW e, EsTodo(e), NEW k, NEW id
    PROVE  /\ Efecto(e, e, k, id) /\ MismaCache(e, e)
           /\ Efecto(e, Desfasa(e), k, id) /\ MismaCache(e, Desfasa(e))
           /\ \A v : Efecto(e, Fin(e, v), k, id) /\ MismaCache(e, Fin(e, v))
BY SerenaMisma, FinSerena, SerenaEfecto DEF Serena

\* What is done after an answer that has a payload nobody read.
LEMMA EfectoDesfasa ==
    ASSUME NEW e, NEW k, NEW id, NEW y, Oye(e, y, e.fds[k].sock) \/ Sale(e, y, e.fds[k].sock) \/ Serena(e, y)
    PROVE  Efecto(e, Desfasa(y), k, id) /\ MismaCache(y, Desfasa(y))
<1>1. EsTodo(y)
  BY DEF Oye, Sale, Serena, Muda
<1>2. Serena(y, Desfasa(y))
  BY <1>1, FinSerena
<1>3. CASE Serena(e, y)
  BY <1>2, <1>3, SerenaSerena, SerenaEfecto DEF Serena
<1>4. QED
  BY <1>2, <1>3, OyeSerena, SaleSerena DEF Efecto, Serena

\* The end of a session, in the three forms it takes.
LEMMA TerminaComo ==
    ASSUME NEW e, EsTodo(e), e.vsk = "atendiendo", NEW k \in DOMAIN e.fds, NEW t, NEW x \in Termina(e, k, t)
    PROVE  /\ MismaCache(e, x) /\ EsTodo(x)
           /\ Oye(e, x, e.fds[k].sock) \/ Sale(e, x, e.fds[k].sock) \/ Serena(e, x)
<1> DEFINE c == e.fds[k].sock
<1>1. c \in Sockets
  BY DEF EsTodo, EsSes, EsFichas
<1>2. PICK y \in Entrega(e, k, t, <<>>) :
         \/ x = y
         \/ x = QuitarFdPorSocket(CierraSocket(y, c), c)
  BY DEF Termina, Luego
<1>3. MismaCache(e, y) /\ (Serena(e, y) \/ Oye(e, y, c)) /\ EsTodo(y)
  BY EntregaOye DEF Oye, Serena, Muda
<1>4. CASE x = y
  BY <1>3, <1>4
<1>5. CASE x = QuitarFdPorSocket(CierraSocket(y, c), c)
  <2> DEFINE z == CierraSocket(y, c)
  <2>1. Sale(y, z, c) /\ MismaCache(y, z)
    BY <1>1, <1>3, CierraSocketSale
  <2>2. x = QuitarFdPorSocket(z, c)
    BY <1>5
  <2> HIDE DEF z, c
  <2>3. Sale(e, z, c)
    BY <1>3, <2>1, SerenaSale, OyeSale
  <2>4. MismaCache(e, z) /\ EsTodo(z)
    BY <1>3, <2>1, <2>3, MismaMisma DEF Sale
  <2>5. /\ EsTodo(x) /\ Recuerda(z, x) /\ x.cl = z.cl /\ x.ped = z.ped
        /\ x.aSfs = z.aSfs /\ x.aDa = z.aDa /\ Quedan(z.fds, x.fds) /\ MismaCache(z, x)
    BY <2>2, <2>4, QuitarFdQueda
  <2>6. Recuerda(e, x) /\ Quedan(e.fds, x.fds)
    BY <2>3, <2>5 DEF Sale, Recuerda, Quedan
  <2>7. Sale(e, x, c)
    BY <2>3, <2>5, <2>6 DEF Sale
  <2>8. QED
    BY <2>4, <2>5, <2>7, MismaMisma DEF c
<1>6. QED
  BY <1>2, <1>4, <1>5

\* A call that ends with its session tells it to the client and puts it out, or the
\* process dies before.
LEMMA TerminaEfecto ==
    ASSUME NEW e, NEW y, Serena(e, y), y.vsk = "atendiendo", NEW k \in DOMAIN e.fds, NEW t, NEW z \in Termina(y, k, t),
           NEW x, x = z \/ x = Desfasa(z), NEW id
    PROVE  MismaCache(e, x) /\ Efecto(e, x, k, id)
<1>1. EsTodo(y) /\ k \in DOMAIN y.fds /\ MismaCache(e, y)
  BY SerenaEs
<1>2. /\ MismaCache(y, z) /\ EsTodo(z)
      /\ Oye(y, z, y.fds[k].sock) \/ Sale(y, z, y.fds[k].sock) \/ Serena(y, z)
  BY <1>1, TerminaComo
<1>3. Efecto(y, z, k, id)
  BY <1>2, SerenaEfecto DEF Efecto
<1>4. Efecto(y, x, k, id) /\ MismaCache(y, x)
  BY <1>2, <1>3, EfectoDesfasa, MismaMisma
<1>5. QED
  BY <1>1, <1>4, SerenaLuego, MismaMisma

LEMMA ListarEfecto ==
    ASSUME NEW e, EsTodo(e), e.vsk = "atendiendo", NEW k \in DOMAIN e.fds, NEW m, NEW x \in Listar(e, k, m)
    PROVE  Efecto(e, x, k, m.id) /\ MismaCache(e, x)
<1>1. x \in Termina(e, k, "LIST_OK") \/ x = Desfasa(e) \/ x = e
  BY DEF Listar
<1>2. Serena(e, e)
  BY SerenaMisma
<1>3. QED
  BY <1>1, <1>2, TerminaEfecto, MuertaSerena

LEMMA CerrarPrimeroEfecto ==
    ASSUME NEW e, EsTodo(e), e.vsk = "atendiendo", NEW k \in DOMAIN e.fds, NEW m, NEW x \in CerrarPrimero(e, k, m)
    PROVE  Efecto(e, x, k, m.id) /\ MismaCache(e, x)
<1> DEFINE f == e.oft[e.fds[k].oft]
           w == [e EXCEPT !.fds[k].paso = 1]
           P(modo, t, s) == PideSfs(w, t, modo, m.id, f.a, s)
<1>1. Serena(e, w) /\ EsTodo(w) /\ EsVsk(e)
  BY PasoSerena, SerenaEs DEF EsTodo, EsSes
<1>2. CASE e.fds[k].oft = 0
  <2>1. x = w
    BY <1>2 DEF CerrarPrimero
  <2> HIDE DEF w
  <2>2. QED
    BY <1>1, <2>1, SerenaEfecto DEF Serena
<1>3. e.fds[k].oft # 0 => x \in Luego(UsaArchivo(e, k), LAMBDA y :
            CASE f.modo = "R" -> Luego(QuitarOft(y, FALSE), LAMBDA z : Termina(z, k, "CLOSE_OK"))
              [] f.modo = "W" -> P("W", "TAMANIO", <<f.tam>>)
              [] f.modo = "D" -> P("D", "ELIMINA", <<>>))
  BY DEF CerrarPrimero
<1>4. ASSUME NEW t \in {"TAMANIO", "ELIMINA"}, NEW modo, NEW s, x \in P(modo, t, s)
      PROVE  Efecto(e, x, k, m.id) /\ MismaCache(e, x)
  <2>1. t \in TiposSfs \ {"AGREGAR", "FORMATEAR"}
    BY DEF TiposSfs
  <2>2. Encarga(w, x, k, m.id) /\ MismaCache(w, x)
    BY <1>1, <1>4, <2>1, PideSfsEncarga
  <2> HIDE DEF w
  <2>3. QED
    BY <1>1, <2>2, SerenaEncarga, MismaMisma DEF Efecto, Serena
<1> HIDE DEF P, w
<1>5. CASE e.fds[k].oft # 0
  <2>1. f.modo \in {"W", "R", "D"}
    <3>1. e.fds[k].oft \in DOMAIN e.oft
      BY <1>1, <1>5 DEF EsVsk, EsFds, EsOft, EsSec
    <3>2. QED
      BY <1>1, <3>1 DEF EsVsk, EsOft
  <2> HIDE DEF f
  <2>2. PICK y \in UsaArchivo(e, k) :
           \/ x = y
           \/ x \in CASE f.modo = "R" -> Luego(QuitarOft(y, FALSE), LAMBDA z : Termina(z, k, "CLOSE_OK"))
                      [] f.modo = "W" -> P("W", "TAMANIO", <<f.tam>>)
                      [] f.modo = "D" -> P("D", "ELIMINA", <<>>)
    BY <1>3, <1>5 DEF Luego
  <2>3. Serena(e, y) /\ EsTodo(y)
    BY UsaArchivoSerena, SerenaEs
  <2>4. CASE x = y
    BY <2>3, <2>4, SerenaEfecto DEF Serena
  <2>5. CASE x \in Luego(QuitarOft(y, FALSE), LAMBDA z : Termina(z, k, "CLOSE_OK"))
    <3>1. PICK z \in QuitarOft(y, FALSE) :
             \/ x = z
             \/ z.vsk = "atendiendo" /\ x \in Termina(z, k, "CLOSE_OK")
      BY <2>5 DEF Luego
    <3>2. Serena(e, z)
      BY <2>3, QuitarOftSerena, SerenaSerena
    <3>3. CASE x = z
      BY <3>2, <3>3, SerenaEfecto DEF Serena
    <3>4. QED
      BY <3>1, <3>2, <3>3, TerminaEfecto
  <2>6. QED
    BY <1>4, <2>1, <2>2, <2>4, <2>5
<1>6. QED
  BY <1>2, <1>5

LEMMA CerrarEfecto ==
    ASSUME NEW e, EsTodo(e), NEW k \in DOMAIN e.fds, NEW m, NEW x \in Cerrar(e, k, m)
    PROVE  Efecto(e, x, k, m.id) /\ MismaCache(e, x)
<1>1. \/ x = Desfasa(e) \/ x = e
      \/ x \in Luego(UsaArchivo(e, k), LAMBDA w :
               Luego(QuitarOft(w, TRUE), LAMBDA y :
               Luego(Termina(y, k, "CLOSE_OK"), LAMBDA z :
               {IF m.t \in ConPayload THEN Desfasa(z) ELSE z})))
  BY DEF Cerrar
<1>2. ASSUME NEW y, Serena(e, y), x = y PROVE Efecto(e, x, k, m.id) /\ MismaCache(e, x)
  BY <1>2, SerenaEfecto DEF Serena
<1>3. CASE x = Desfasa(e) \/ x = e
  BY <1>3, MuertaSerena
<1>5. CASE x \in Luego(UsaArchivo(e, k), LAMBDA w :
               Luego(QuitarOft(w, TRUE), LAMBDA y :
               Luego(Termina(y, k, "CLOSE_OK"), LAMBDA z :
               {IF m.t \in ConPayload THEN Desfasa(z) ELSE z})))
  <2>1. PICK w \in UsaArchivo(e, k) :
           \/ x = w
           \/ x \in Luego(QuitarOft(w, TRUE), LAMBDA y :
                    Luego(Termina(y, k, "CLOSE_OK"), LAMBDA z :
                    {IF m.t \in ConPayload THEN Desfasa(z) ELSE z}))
    BY <1>5 DEF Luego
  <2>2. Serena(e, w) /\ EsTodo(w)
    BY UsaArchivoSerena, SerenaEs
  <2>3. CASE x \in Luego(QuitarOft(w, TRUE), LAMBDA y :
                   Luego(Termina(y, k, "CLOSE_OK"), LAMBDA z :
                   {IF m.t \in ConPayload THEN Desfasa(z) ELSE z}))
    <3>1. PICK y \in QuitarOft(w, TRUE) :
             \/ x = y
             \/ y.vsk = "atendiendo"
                /\ x \in Luego(Termina(y, k, "CLOSE_OK"), LAMBDA z :
                         {IF m.t \in ConPayload THEN Desfasa(z) ELSE z})
      BY <2>3 DEF Luego
    <3>2. Serena(e, y)
      BY <2>2, QuitarOftSerena, SerenaSerena
    <3>3. CASE y.vsk = "atendiendo"
               /\ x \in Luego(Termina(y, k, "CLOSE_OK"), LAMBDA z :
                        {IF m.t \in ConPayload THEN Desfasa(z) ELSE z})
      <4>1. PICK z \in Termina(y, k, "CLOSE_OK") : x = z \/ x = Desfasa(z)
        BY <3>3 DEF Luego
      <4>2. QED
        BY <3>2, <3>3, <4>1, TerminaEfecto
    <3>4. QED
      BY <1>2, <3>1, <3>2, <3>3
  <2>4. QED
    BY <1>2, <2>1, <2>2, <2>3
<1>6. QED
  BY <1>1, <1>3, <1>5

LEMMA EscribirPrimeroEfecto ==
    ASSUME NEW e, EsTodo(e), NEW k \in DOMAIN e.fds, NEW m, NEW x \in EscribirPrimero(e, k, m)
    PROVE  Efecto(e, x, k, m.id) /\ MismaCache(e, x)
<1> DEFINE n == e.fds[k].oft
           w1 == [e EXCEPT !.oft[n].buf = m.s]
           w2 == [w1 EXCEPT !.oft[n].tam = w1.oft[n].tam + 1]
           w3 == [w2 EXCEPT !.fds[k].paso = 2]
           w == [e EXCEPT !.oft[n].buf = m.s, !.oft[n].tam = @ + 1, !.fds[k].paso = 2]
<1>1. w = w3
  OBVIOUS
<1>2. w1 = [e EXCEPT !.oft[n].buf = m.s]
  OBVIOUS
<1>3. \E b : w2 = [w1 EXCEPT !.oft[n].tam = b]
  OBVIOUS
<1>4. w3 = [w2 EXCEPT !.fds[k].paso = 2]
  OBVIOUS
<1> HIDE DEF w1, w2, w3, w, n
<1>5. Serena(e, w1) /\ EsTodo(w1)
  BY <1>2, OftSerena, SerenaEs
<1>6. Serena(e, w2) /\ EsTodo(w2) /\ k \in DOMAIN w2.fds
  <2>1. Serena(w1, w2)
    BY <1>3, <1>5, OftSerena
  <2>2. Serena(e, w2)
    BY <1>5, <2>1, SerenaSerena
  <2>3. QED
    BY <2>2, SerenaEs
<1>7. Serena(e, w) /\ EsTodo(w)
  <2>1. Serena(w2, w3)
    BY <1>4, <1>6, PasoSerena
  <2>2. QED
    BY <1>1, <1>6, <2>1, SerenaSerena, SerenaEs
<1>8. PICK y \in UsaArchivo(e, k) :
         \/ x = y
         \/ x = Desfasa(e) \/ x = Fin(e, "muerta") \/ x = w
         \/ x \in PideSfs(w, "DOS", "-", m.id, Nada, <<>>)
         \/ x \in PideDa(w, "DOS", m.id, <<>>, <<>>)
  BY DEF EscribirPrimero, Luego, w, n
<1>9. CASE x = y \/ x = Fin(e, "muerta") \/ x = Desfasa(e)
  BY <1>9, UsaArchivoSerena, MuertaSerena, SerenaEfecto DEF Serena
<1>10. CASE x = w
  BY <1>7, <1>10, SerenaEfecto DEF Serena
<1>11. ASSUME Encarga(w, x, k, m.id), MismaCache(w, x) PROVE Efecto(e, x, k, m.id) /\ MismaCache(e, x)
  BY <1>7, <1>11, SerenaEncarga, MismaMisma DEF Efecto, Serena
<1>12. CASE x \in PideSfs(w, "DOS", "-", m.id, Nada, <<>>)
  <2>1. "DOS" \in TiposSfs \ {"AGREGAR", "FORMATEAR"}
    BY DEF TiposSfs
  <2>2. QED
    BY <1>7, <1>11, <1>12, <2>1, PideSfsEncarga
<1>13. CASE x \in PideDa(w, "DOS", m.id, <<>>, <<>>)
  <2>1. Pedible(w, k, "DOS", m.id, <<>>)
    BY DEF Pedible
  <2>2. QED
    BY <1>7, <1>11, <1>13, <2>1, PideDaEncarga
<1>14. QED
  BY <1>8, <1>9, <1>10, <1>12, <1>13

LEMMA LeerPrimeroEfecto ==
    ASSUME NEW e, EsTodo(e), NEW k \in DOMAIN e.fds, NEW m, NEW x \in LeerPrimero(e, k, m)
    PROVE  Efecto(e, x, k, m.id) /\ MismaCache(e, x)
<1> DEFINE n == e.fds[k].oft
           f == e.oft[n]
           p == e.fds[k].pos
           dos == <<f.sec[p + 1], f.sec[p + 2]>>
           w == [e EXCEPT !.oft[n].buf = IF HayCache THEN [i \in 1..2 |-> BuscarCache(e, dos[i], @[i])] ELSE @]
           P(y, t, s) == PideDa([y EXCEPT !.fds[k].paso = 1, !.fds[k].s = s], t, m.id, s, <<>>)
<1>1. PICK y \in UsaArchivo(e, k) :
         \/ x = y \/ x = e \/ x = w
         \/ x \in P(Avanza(w, k, 2), "GET", dos)
         \/ \E s : x \in P(Avanza(e, k, 1), "GET1", s)
         \/ \E v : x \in Entrega(Avanza(w, k, 2), k, "READ_OK", v)
         \/ x \in PuedeMorir(e, "cache")
         \/ x \in Entrega([e EXCEPT !.fds[k].paso = 2], k, "READ_OK", <<>>)
  <2> DEFINE U == UsaArchivo(e, k)
             C == {i \in 1..2 : HayCache /\ Acierta(e, dos[i])}
             B == e.fds[k].tot - p
  <2>1. PICK y \in U : x \in IF y.vsk # "atendiendo" THEN {y} ELSE
           CASE f.modo # "R" -> {e}
             [] B >= 2 /\ C = {} -> P(Avanza(w, k, 2), "GET", dos)
             [] B >= 2 /\ C = {1, 2} -> Entrega(Avanza(w, k, 2), k, "READ_OK", w.oft[n].buf)
             [] B >= 2 /\ Cardinality(C) = 1 -> {w}
             [] B = 1 /\ HayCache /\ e.cant = -1 -> {e}
             [] B = 1 -> P(Avanza(e, k, 1), "GET1", <<f.sec[p + 1]>>)
                              \union (IF HayCache THEN {} ELSE PuedeMorir(e, "cache"))
             [] OTHER -> Entrega([e EXCEPT !.fds[k].paso = 2], k, "READ_OK", <<>>)
    BY DEF LeerPrimero, Luego
  <2> HIDE DEF w, U, C, B, P, dos, f, p, n
  <2>2. QED
    BY <2>1, Zenon DEF U
<1>2. Serena(e, w)
  <2> DEFINE b == IF HayCache THEN [i \in 1..2 |-> BuscarCache(e, dos[i], e.oft[n].buf[i])] ELSE e.oft[n].buf
  <2>1. w = [e EXCEPT !.oft[n].buf = b]
    OBVIOUS
  <2> HIDE DEF b, w, dos, f, p, n
  <2>2. QED
    BY <2>1, OftSerena
<1>3. DOMAIN dos = 1..2
  <2>1. \A a, b : DOMAIN <<a, b>> = 1..2
    OBVIOUS
  <2>2. QED
    BY <2>1
<1> HIDE DEF w, n, f, p, dos
<1>4. ASSUME NEW z, Serena(e, z), NEW c PROVE Serena(e, Avanza(z, k, c))
  <2>1. EsTodo(z) /\ k \in DOMAIN z.fds
    BY <1>4, SerenaEs
  <2>2. \E b : Avanza(z, k, c) = [z EXCEPT !.fds[k].pos = b]
    BY DEF Avanza
  <2>3. Serena(z, Avanza(z, k, c))
    BY <2>1, <2>2, PasoSerena
  <2>4. QED
    BY <1>4, <2>3, SerenaSerena
<1>5. ASSUME NEW z, Serena(e, z), NEW t \in {"GET", "GET1"}, NEW s, x \in P(z, t, s), t = "GET" => DOMAIN s = 1..2
      PROVE  Efecto(e, x, k, m.id) /\ MismaCache(e, x)
  <2> DEFINE z1 == [z EXCEPT !.fds[k].paso = 1]
             z2 == [z1 EXCEPT !.fds[k].s = s]
  <2>1. x \in PideDa(z2, t, m.id, s, <<>>)
    BY <1>5
  <2>2. z1 = [z EXCEPT !.fds[k].paso = 1] /\ z2 = [z1 EXCEPT !.fds[k].s = s]
    OBVIOUS
  <2> HIDE DEF z1, z2, P
  <2>3. EsTodo(z) /\ k \in DOMAIN z.fds
    BY <1>5, SerenaEs
  <2>4. Serena(z, z1) /\ EsTodo(z1) /\ k \in DOMAIN z1.fds
    BY <2>2, <2>3, PasoSerena, SerenaEs
  <2>5. Serena(z1, z2) /\ EsTodo(z2)
    BY <2>2, <2>4, PasoSerena, SerenaEs, ZenonT(40)
  <2>6. Serena(e, z2)
    BY <1>5, <2>4, <2>5, SerenaSerena
  <2>7. z2.fds[k].s = s
    <3>1. DOMAIN z1 = Campos /\ DOMAIN z1.fds[k] = CamposFd
      BY <2>4 DEF EsTodo, EsSes, EsVsk, EsFichas
    <3>2. QED
      BY <2>2, <2>4, <3>1 DEF Campos, CamposFd
  <2>8. Pedible(z2, k, t, m.id, s)
    BY <1>5, <2>7 DEF Pedible
  <2>9. Encarga(z2, x, k, m.id) /\ MismaCache(z2, x)
    BY <2>1, <2>5, <2>8, PideDaEncarga
  <2>10. QED
    BY <2>6, <2>9, SerenaEncarga, MismaMisma DEF Efecto, Serena
<1> HIDE DEF P
<1>6. CASE x = y \/ x = e \/ x = w \/ x \in PuedeMorir(e, "cache")
  <2>1. Serena(e, x)
    BY <1>2, <1>6, UsaArchivoSerena, SerenaMisma, MuereSerena
  <2>2. QED
    BY <2>1, SerenaEfecto DEF Serena
<1>7. CASE x \in P(Avanza(w, k, 2), "GET", dos)
  BY <1>2, <1>3, <1>4, <1>5, <1>7
<1>8. CASE \E s : x \in P(Avanza(e, k, 1), "GET1", s)
  <2>1. PICK s : x \in P(Avanza(e, k, 1), "GET1", s)
    BY <1>8
  <2>2. Serena(e, Avanza(e, k, 1))
    BY <1>4, SerenaMisma
  <2>3. QED
    BY <1>5, <2>1, <2>2
<1>9. ASSUME NEW z, Serena(e, z), NEW v, x \in Entrega(z, k, "READ_OK", v)
      PROVE  Efecto(e, x, k, m.id) /\ MismaCache(e, x)
  <2>1. EsTodo(z) /\ k \in DOMAIN z.fds
    BY <1>9, SerenaEs
  <2>2. MismaCache(z, x) /\ Efecto(z, x, k, m.id)
    BY <1>9, <2>1, EntregaOye, SerenaEfecto DEF Efecto
  <2>3. QED
    BY <1>9, <2>2, SerenaLuego, MismaMisma DEF Serena
<1>10. CASE \E v : x \in Entrega(Avanza(w, k, 2), k, "READ_OK", v)
  BY <1>2, <1>4, <1>9, <1>10
<1>11. CASE x \in Entrega([e EXCEPT !.fds[k].paso = 2], k, "READ_OK", <<>>)
  <2>1. Serena(e, [e EXCEPT !.fds[k].paso = 2])
    BY PasoSerena
  <2>2. QED
    BY <1>9, <1>11, <2>1
<1>12. QED
  BY <1>1, <1>6, <1>7, <1>8, <1>10, <1>11

\* What Invalidar and GuardarEnCache do to the cache.
LEMMA InvalidarMuda ==
    ASSUME NEW e, EsTodo(e), NEW ss, NEW x \in Invalidar(e, ss)
    PROVE  /\ Muda(e, x) /\ x.cant = e.cant /\ (~HayCache => x.cache = e.cache)
           /\ \A n \in DOMAIN x.cache : x.cache[n].ok => Viene(e.cache, x.cache[n].s, x.cache[n].v)
           /\ Cabal(e) => Invalidada(x.cache, ss)
<1>1. EsVsk(e) /\ DOMAIN e = Campos /\ EsSes(e) /\ EsCache(e.cache)
  BY DEF EsTodo, EsSes, EsVsk
<1>2. Ileso(e, x) /\ EsSes(x) /\ MismasFichas(e.fds, x.fds)
  <2>1. Ileso(e, x)
    BY <1>1, InvalidarIleso
  <2>2. QED
    BY <1>1, <2>1, IlesoManso DEF Ileso, MismasFichas, EsSes
<1>3. \A n \in DOMAIN e.cache : e.cache[n].ok => Viene(e.cache, e.cache[n].s, e.cache[n].v)
  BY DEF Viene
<1>4. CASE ~HayCache
  <2>1. x = e
    BY <1>4 DEF Invalidar
  <2>2. Cabal(e) => Invalidada(e.cache, ss)
    BY <1>4 DEF Cabal, Invalidada
  <2>3. QED
    BY <1>1, <1>2, <1>3, <2>1, <2>2 DEF Muda, EsTodo, Ileso
<1>5. CASE HayCache /\ e.cant = -1
  <2>1. x.cache = e.cache /\ x.cant = e.cant
    BY <1>1, <1>5 DEF Invalidar, PuedeMorir, Fin, Campos
  <2>2. ~Cabal(e)
    BY <1>5 DEF Cabal
  <2>3. QED
    BY <1>1, <1>2, <1>3, <1>5, <2>1, <2>2 DEF Muda, EsTodo, Ileso
<1>6. CASE HayCache /\ e.cant # -1
  <2> DEFINE q == [n \in DOMAIN e.cache |-> [e.cache[n] EXCEPT !.ok = @ /\ e.cache[n].s \notin Conjunto(ss)]]
  <2>1. x = [e EXCEPT !.cache = q]
    BY <1>6 DEF Invalidar
  <2>2. x.cache = q /\ x.cant = e.cant
    BY <1>1, <2>1 DEF Campos
  <2>3. /\ DOMAIN q = DOMAIN e.cache
        /\ \A n \in DOMAIN e.cache : /\ DOMAIN q[n] = {"s", "v", "ok"}
                                     /\ q[n].s = e.cache[n].s /\ q[n].v = e.cache[n].v
                                     /\ q[n].ok => e.cache[n].ok /\ e.cache[n].s \notin Conjunto(ss)
    BY <1>1 DEF EsCache
  <2>4. EsSec(q)
    <3> DEFINE S == {q[n] : n \in DOMAIN q}
    <3>1. Len(e.cache) \in Nat /\ DOMAIN e.cache = 1..Len(e.cache)
      BY <1>1 DEF EsCache, EsSec
    <3>2. q \in [1..Len(e.cache) -> S]
      BY <2>3, <3>1
    <3> HIDE DEF q
    <3>3. q \in Seq(S)
      BY <3>1, <3>2
    <3>4. QED
      BY <3>3 DEF EsSec
  <2> HIDE DEF q
  <2>5. EsCache(q)
    BY <2>3, <2>4 DEF EsCache
  <2>6. \A n \in DOMAIN q : q[n].ok => Viene(e.cache, q[n].s, q[n].v)
    BY <2>3 DEF Viene
  <2>7. Invalidada(q, ss)
    BY <2>3 DEF Invalidada
  <2>8. QED
    BY <1>2, <1>6, <2>2, <2>5, <2>6, <2>7 DEF Muda, EsTodo, Ileso
<1>7. QED
  BY <1>4, <1>5, <1>6

LEMMA GuardarMuda ==
    ASSUME NEW e, EsTodo(e), NEW s, NEW v, NEW x \in GuardarEnCache(e, s, v)
    PROVE  /\ Muda(e, x)
           /\ "victima" \notin x.culpas =>
                /\ e.cant \in Nat => x.cant \in Nat
                /\ \A n \in DOMAIN x.cache : x.cache[n].ok =>
                      \/ Viene(e.cache, x.cache[n].s, x.cache[n].v)
                      \/ x.cache[n].s = s /\ x.cache[n].v = v
<1>1. EsVsk(e) /\ DOMAIN e = Campos /\ EsSes(e) /\ EsCache(e.cache)
  BY DEF EsTodo, EsSes, EsVsk
<1>2. Ileso(e, x) /\ EsSes(x) /\ MismasFichas(e.fds, x.fds)
  <2>1. Ileso(e, x)
    BY <1>1, GuardarIleso
  <2>2. QED
    BY <1>1, <2>1, IlesoManso DEF Ileso, MismasFichas, EsSes
<1>3. \A n \in DOMAIN e.cache : e.cache[n].ok => Viene(e.cache, e.cache[n].s, e.cache[n].v)
  BY DEF Viene
<1>4. CASE e.cant = -1
  <2>1. x.cache = e.cache /\ x.cant = e.cant
    BY <1>1, <1>4 DEF GuardarEnCache, PuedeMorir, Fin, Campos
  <2>2. QED
    BY <1>1, <1>2, <1>3, <2>1 DEF Muda, EsTodo, Ileso
<1>5. CASE e.cant # -1 /\ e.cant < MaxCache
  <2> DEFINE g == [s |-> s, v |-> v, ok |-> TRUE]
  <2>1. x = CargarCache(e, s, v)
    BY <1>5 DEF GuardarEnCache
  <2>2. x.cant = e.cant + 1 /\ (x.cache = e.cache \/ x.cache = Append(e.cache, g))
    BY <1>1, <2>1 DEF CargarCache, Campos
  <2>3. DOMAIN g = {"s", "v", "ok"} /\ g.s = s /\ g.v = v
    OBVIOUS
  <2> HIDE DEF g
  <2>4. CASE x.cache = e.cache
    BY <1>1, <1>2, <1>3, <2>2, <2>4 DEF Muda, EsTodo, Ileso
  <2>5. CASE x.cache = Append(e.cache, g)
    <3> DEFINE c == Append(e.cache, g)
               l == Len(e.cache)
    <3>1. /\ EsSec(c) /\ c[l + 1] = g
          /\ \A j \in DOMAIN e.cache : j \in DOMAIN c /\ c[j] = e.cache[j]
          /\ \A j \in DOMAIN c : j \in DOMAIN e.cache \/ j = l + 1
      BY <1>1, EsSecMas DEF EsCache
    <3> HIDE DEF c, l
    <3>2. \A j \in DOMAIN c : c[j] = g \/ (j \in DOMAIN e.cache /\ c[j] = e.cache[j])
      BY <3>1
    <3>3. EsCache(c)
      BY <1>1, <2>3, <3>1, <3>2 DEF EsCache
    <3>4. \A n \in DOMAIN c : c[n].ok => Viene(e.cache, c[n].s, c[n].v) \/ (c[n].s = s /\ c[n].v = v)
      BY <1>3, <2>3, <3>2
    <3>5. x.cache = c
      BY <2>5 DEF c
    <3>6. e.cant \in Nat => x.cant \in Nat
      BY <2>2
    <3>7. QED
      BY <1>2, <3>3, <3>4, <3>5, <3>6 DEF Muda, EsTodo, Ileso
  <2>6. QED
    BY <2>2, <2>4, <2>5
<1>6. CASE e.cant # -1 /\ ~(e.cant < MaxCache)
  <2>1. x \in PisarVictima(e, v)
    BY <1>6 DEF GuardarEnCache
  <2> DEFINE y == [e EXCEPT !.culpas = @ \union {"victima"}]
  <2>2. \/ x = [y EXCEPT !.cant = -1] \/ x \in PuedeMorir(e, "cache")
        \/ \E n \in DOMAIN e.cache : x = [y EXCEPT !.cache[n].v = v]
    BY <2>1 DEF PisarVictima
  <2>3. CASE x \in PuedeMorir(e, "cache")
    <3>1. x.cache = e.cache /\ x.cant = e.cant
      BY <1>1, <2>3 DEF PuedeMorir, Fin, Campos
    <3>2. QED
      BY <1>1, <1>2, <1>3, <3>1 DEF Muda, EsTodo, Ileso
  <2>4. CASE x = [y EXCEPT !.cant = -1]
    <3>1. x.cache = e.cache /\ x.culpas = e.culpas \union {"victima"}
      BY <1>1, <2>4 DEF Campos
    <3>2. QED
      BY <1>1, <1>2, <3>1 DEF Muda, EsTodo, Ileso
  <2>5. CASE \E n \in DOMAIN e.cache : x = [y EXCEPT !.cache[n].v = v]
    <3>1. PICK n \in DOMAIN e.cache : x = [y EXCEPT !.cache[n].v = v]
      BY <2>5
    <3> DEFINE g == [e.cache[n] EXCEPT !.v = v]
    <3>2. x.cache = [e.cache EXCEPT ![n] = g] /\ x.culpas = e.culpas \union {"victima"}
      BY <1>1, <3>1 DEF Campos
    <3>3. DOMAIN g = {"s", "v", "ok"}
      BY <1>1 DEF EsCache
    <3> HIDE DEF g
    <3>4. EsSec(x.cache) /\ DOMAIN x.cache = DOMAIN e.cache
      BY <1>1, <3>2, CambiaSec, SMTT(30) DEF EsCache
    <3>5. \A j \in DOMAIN x.cache : x.cache[j] = g \/ (j \in DOMAIN e.cache /\ x.cache[j] = e.cache[j])
      BY <3>2, <3>4
    <3>6. EsCache(x.cache)
      BY <1>1, <3>3, <3>4, <3>5 DEF EsCache
    <3>7. QED
      BY <1>2, <3>2, <3>6 DEF Muda, EsTodo, Ileso
  <2>6. QED
    BY <2>2, <2>3, <2>4, <2>5
<1>7. QED
  BY <1>4, <1>5, <1>6

\* The request to add a pair, which nobody waits for, and what follows it.
Sumada(e, x) ==
    /\ EsTodo(x) /\ Recuerda(e, x) /\ x.cl = e.cl /\ x.ped = e.ped
    /\ MismasFichas(e.fds, x.fds) /\ x.aDa = e.aDa /\ Anota(e.aSfs, x.aSfs)

LEMMA SumadaMuda ==
    ASSUME NEW e, NEW y, Sumada(e, y), NEW x, Muda(y, x)
    PROVE  Sumada(e, x)
<1>1. MismasFichas(e.fds, x.fds) /\ Recuerda(e, x)
  BY DEF Sumada, Muda, MismasFichas, Recuerda
<1>2. QED
  BY <1>1 DEF Sumada, Muda

LEMMA SumadaEncarga ==
    ASSUME NEW e, NEW x, Sumada(e, x), NEW k, NEW id
    PROVE  Encarga(e, x, k, id)
BY DEF Sumada, Encarga, Envia

LEMMA SumadaLuego ==
    ASSUME NEW e, NEW k \in DOMAIN e.fds, NEW y, Sumada(e, y), Cabal(e) => Cabal(y), NEW id, NEW x,
           Encarga(y, x, k, id), x.aSfs = y.aSfs
    PROVE  Encarga(e, x, k, id)
<1>1. MismasFichas(e.fds, x.fds) /\ Recuerda(e, x) /\ y.fds[k].id = e.fds[k].id
  BY DEF Sumada, Encarga, MismasFichas, Recuerda
<1>2. ASSUME NEW r, PedidoDa(y, x, k, r, id) PROVE PedidoDa(e, x, k, r, id)
  BY <1>1, <1>2 DEF PedidoDa
<1>3. \/ x.aDa = e.aDa
      \/ \E r : x.aDa = Append(e.aDa, r) /\ PedidoDa(e, x, k, r, id)
  BY <1>2 DEF Encarga, Envia, Sumada
<1>4. Envia(e, x, k, id)
  BY <1>3 DEF Envia, Sumada
<1>5. QED
  BY <1>1, <1>4 DEF Sumada, Encarga

LEMMA EscribirEfecto ==
    ASSUME NEW e, EsTodo(e), NEW k \in DOMAIN e.fds, NEW m, e.fds[k].id = m.id, m.t = "DOS" => DOMAIN m.s = 1..2,
           NEW x \in Escribir(e, k, m)
    PROVE  Efecto(e, x, k, m.id) /\ Almacena(e, x, k, m)
<1> DEFINE f == e.oft[e.fds[k].oft]
           w == [e EXCEPT !.fds[k].paso = 3]
           G(z) == PideDa(z, "PUT", m.id, m.s, f.buf)
           A == PideSfs(w, "AGREGAR", "-", m.id, f.a, m.s)
           D(y) == IF m.t \in ConPayload THEN Desfasa(y) ELSE y
<1>1. PICK y \in UsaArchivo(e, k) :
         \/ x = y
         \/ m.t = "DOS" /\ x \in Luego(A, LAMBDA v : Luego(Invalidar(v, m.s), G))
         \/ x \in Luego(Entrega(e, k, "WRITE_OK", <<>>), LAMBDA v : {D(v)})
         \/ x = Desfasa(e)
  BY DEF Escribir, Luego
<1>2. CASE x = y \/ x = Desfasa(e)
  <2>1. Serena(e, x)
    BY <1>2, UsaArchivoSerena, FinSerena
  <2>2. QED
    BY <2>1, SerenaEfecto
<1>3. CASE x \in Luego(Entrega(e, k, "WRITE_OK", <<>>), LAMBDA v : {D(v)})
  <2>1. PICK v \in Entrega(e, k, "WRITE_OK", <<>>) : x = v \/ x = Desfasa(v)
    BY <1>3 DEF Luego
  <2>2. MismaCache(e, v) /\ (Serena(e, v) \/ Oye(e, v, e.fds[k].sock))
    BY <2>1, EntregaOye
  <2>3. Efecto(e, x, k, m.id) /\ MismaCache(e, x)
    BY <2>1, <2>2, EfectoDesfasa, SerenaEfecto, MismaMisma DEF Efecto
  <2>4. QED
    BY <2>3, MismaAlmacena
<1>4. Serena(e, w) /\ EsTodo(w)
  BY PasoSerena, SerenaEs
<1>5. CASE m.t = "DOS" /\ x \in Luego(A, LAMBDA v : Luego(Invalidar(v, m.s), G))
  <2> HIDE DEF w, f
  <2>1. PICK v \in A : x = v \/ x \in Luego(Invalidar(v, m.s), G)
    BY <1>5 DEF Luego
  <2>2. Encarga(w, v, k, m.id) /\ MismaCache(w, v) /\ v.fds = w.fds /\ v.aDa = w.aDa /\ Anota(w.aSfs, v.aSfs)
    BY <1>4, AgregarEncarga
  <2>3. Encarga(e, v, k, m.id) /\ MismaCache(e, v)
    BY <1>4, <2>2, SerenaEncarga, MismaMisma DEF Serena
  <2>4. CASE x = v
    BY <2>3, <2>4, MismaAlmacena DEF Efecto
  <2>5. Sumada(w, v)
    BY <2>2 DEF Sumada, Encarga
  <2>6. CASE x \in Luego(Invalidar(v, m.s), G)
    <3>1. PICK z \in Invalidar(v, m.s) : x = z \/ x \in G(z)
      BY <2>6 DEF Luego
    <3>2. /\ Muda(v, z) /\ z.cant = v.cant /\ (~HayCache => z.cache = v.cache)
          /\ \A n \in DOMAIN z.cache : z.cache[n].ok => Viene(v.cache, z.cache[n].s, z.cache[n].v)
          /\ Cabal(v) => Invalidada(z.cache, m.s)
      BY <2>5, InvalidarMuda DEF Sumada
    <3>3. Sumada(w, z) /\ EsTodo(z)
      BY <2>5, <3>2, SumadaMuda DEF Muda
    <3>4. Almacena(e, z, k, m)
      BY <2>3, <3>2 DEF Almacena, MismaCache
    <3>5. CASE x = z
      <4>1. Encarga(w, z, k, m.id)
        BY <3>3, SumadaEncarga
      <4>2. QED
        BY <1>4, <3>4, <3>5, <4>1, SerenaEncarga DEF Efecto
    <3>6. CASE x \in G(z)
      <4>1. Cabal(v) <=> Cabal(z)
        BY <3>2 DEF Cabal
      <4>2. Cabal(w) => Cabal(z)
        BY <2>2, <4>1 DEF Cabal, MismaCache
      <4>3. z.fds[k].id = m.id
        <5>1. k \in DOMAIN w.fds /\ w.fds[k].id = m.id
          BY <1>4, SerenaEs
        <5>2. QED
          BY <3>3, <5>1 DEF Sumada, MismasFichas
      <4>4. Encarga(z, x, k, m.id) /\ MismaCache(z, x) /\ x.aSfs = z.aSfs
        <5>1. Pedible(z, k, "PUT", m.id, m.s)
          BY <1>5, <3>2, <4>1, <4>3 DEF Pedible
        <5>2. x \in PideDa(z, "PUT", m.id, m.s, f.buf)
          BY <3>6
        <5>3. QED
          BY <3>3, <5>1, <5>2, PideDaEncarga
      <4>5. Encarga(w, x, k, m.id)
        <5>1. k \in DOMAIN w.fds
          BY <1>4, SerenaEs
        <5>2. QED
          BY <3>3, <4>2, <4>4, <5>1, SumadaLuego
      <4>6. Almacena(e, x, k, m)
        <5>1. \A n \in DOMAIN x.cache : x.cache[n].ok => Viene(e.cache, x.cache[n].s, x.cache[n].v)
          BY <2>3, <3>2, <4>4 DEF MismaCache
        <5>2. QED
          BY <3>4, <4>4, <5>1 DEF Almacena, MismaCache
      <4>7. QED
        BY <1>4, <4>5, <4>6, SerenaEncarga DEF Efecto
    <3>7. QED
      BY <3>1, <3>5, <3>6
  <2>7. QED
    BY <2>1, <2>4, <2>6
<1>6. QED
  BY <1>1, <1>2, <1>3, <1>5

\* A sector that arrived goes to the cache, if there is one and it was asked.
Guardada(e, y, s, v) ==
    /\ Muda(e, y) /\ (~HayCache => y.cache = e.cache)
    /\ "victima" \notin y.culpas =>
         /\ e.cant \in Nat => y.cant \in Nat
         /\ \A n \in DOMAIN y.cache : y.cache[n].ok =>
               \/ Viene(e.cache, y.cache[n].s, y.cache[n].v)
               \/ \E i \in 1..2 : y.cache[n].s = s[i] /\ y.cache[n].v = v[i]

LEMMA GuardadaMas ==
    ASSUME NEW e, NEW y, NEW s, NEW v, Guardada(e, y, s, v), NEW i \in 1..2, HayCache,
           NEW x \in GuardarEnCache(y, s[i], v[i])
    PROVE  Guardada(e, x, s, v)
<1>1. EsTodo(y)
  BY DEF Guardada, Muda
<1>2. /\ Muda(y, x)
      /\ "victima" \notin x.culpas =>
                /\ y.cant \in Nat => x.cant \in Nat
                /\ \A n \in DOMAIN x.cache : x.cache[n].ok =>
                      \/ Viene(y.cache, x.cache[n].s, x.cache[n].v)
                      \/ x.cache[n].s = s[i] /\ x.cache[n].v = v[i]
  BY <1>1, GuardarMuda
<1>3. Muda(e, x)
  BY <1>2, MudaMuda DEF Guardada
<1>4. "victima" \notin x.culpas => "victima" \notin y.culpas
  BY <1>2 DEF Muda, Recuerda
<1>5. ASSUME "victima" \notin x.culpas, NEW n \in DOMAIN x.cache, x.cache[n].ok
      PROVE  \/ Viene(e.cache, x.cache[n].s, x.cache[n].v)
             \/ \E j \in 1..2 : x.cache[n].s = s[j] /\ x.cache[n].v = v[j]
  <2>1. CASE Viene(y.cache, x.cache[n].s, x.cache[n].v)
    <3>1. PICK j \in DOMAIN y.cache : y.cache[j].ok /\ y.cache[j].s = x.cache[n].s /\ y.cache[j].v = x.cache[n].v
      BY <2>1 DEF Viene
    <3>2. \/ Viene(e.cache, y.cache[j].s, y.cache[j].v)
          \/ \E l \in 1..2 : y.cache[j].s = s[l] /\ y.cache[j].v = v[l]
      BY <1>4, <1>5, <3>1 DEF Guardada
    <3>3. QED
      BY <3>1, <3>2
  <2>2. QED
    BY <1>2, <1>5, <2>1
<1>6. QED
  BY <1>2, <1>3, <1>4, <1>5 DEF Guardada

LEMMA LeerEfecto ==
    ASSUME NEW e, EsTodo(e), NEW k \in DOMAIN e.fds, NEW m, NEW x \in Leer(e, k, m), "victima" \notin x.culpas
    PROVE  Efecto(e, x, k, m.id) /\ Almacena(e, x, k, m)
<1> DEFINE n == e.fds[k].oft
           s == e.fds[k].s
           w == [e EXCEPT !.oft[n].buf = m.v, !.fds[k].paso = 0]
           D(y, i) == IF HayCache /\ i \in DOMAIN s THEN GuardarEnCache(y, s[i], m.v[i]) ELSE {y}
<1>1. PICK y \in UsaArchivo(e, k) :
         \/ x = y
         \/ m.t = "GET" /\ x \in Luego(D(w, 1), LAMBDA v : Luego(D(v, 2), LAMBDA z : Entrega(z, k, "READ_OK", m.v)))
         \/ x = Fin(e, "bloqueada")
         \/ x = Desfasa(e)
  BY DEF Leer, Luego
<1>2. CASE x = y \/ x = Fin(e, "bloqueada") \/ x = Desfasa(e)
  <2>1. Serena(e, x)
    BY <1>2, UsaArchivoSerena, FinSerena
  <2>2. QED
    BY <2>1, SerenaEfecto
<1>3. Serena(e, w)
  <2> DEFINE w1 == [e EXCEPT !.oft[n].buf = m.v]
             w2 == [w1 EXCEPT !.fds[k].paso = 0]
  <2>1. w = w2
    OBVIOUS
  <2>2. w1 = [e EXCEPT !.oft[n].buf = m.v] /\ w2 = [w1 EXCEPT !.fds[k].paso = 0]
    OBVIOUS
  <2> HIDE DEF w, n, w1, w2
  <2>3. Serena(e, w1) /\ EsTodo(w1) /\ k \in DOMAIN w1.fds
    BY <2>2, OftSerena, SerenaEs
  <2>4. Serena(w1, w2)
    BY <2>2, <2>3, PasoSerena
  <2>5. QED
    BY <2>1, <2>3, <2>4, SerenaSerena
<1>4. Guardada(e, w, s, m.v)
  <2>1. \A i \in DOMAIN e.cache : e.cache[i].ok => Viene(e.cache, e.cache[i].s, e.cache[i].v)
    BY DEF Viene
  <2> HIDE DEF w, s
  <2>2. QED
    BY <1>3, <2>1 DEF Serena, MismaCache, Guardada
<1>5. ASSUME NEW y1, Guardada(e, y1, s, m.v), NEW i \in 1..2, NEW z \in D(y1, i) PROVE Guardada(e, z, s, m.v)
  <2> HIDE DEF s
  <2>1. CASE HayCache /\ i \in DOMAIN s
    BY <1>5, <2>1, GuardadaMas
  <2>2. QED
    BY <1>5, <2>1
<1>6. ASSUME NEW z, Guardada(e, z, s, m.v), m.t = "GET", x = z \/ x \in Entrega(z, k, "READ_OK", m.v)
      PROVE  Efecto(e, x, k, m.id) /\ Almacena(e, x, k, m)
  <2>1. EsTodo(z) /\ Muda(e, z) /\ k \in DOMAIN z.fds /\ z.fds[k].sock = e.fds[k].sock
    BY <1>6 DEF Guardada, Muda, MismasFichas
  <2>2. MismaCache(z, x) /\ (Serena(z, x) \/ Oye(z, x, e.fds[k].sock))
    BY <1>6, <2>1, EntregaOye, SerenaMisma DEF Serena
  <2>3. Muda(e, x) \/ Oye(e, x, e.fds[k].sock)
    BY <2>1, <2>2, MudaMuda, MudaOye DEF Serena
  <2>4. x.aDa = e.aDa
    BY <2>3 DEF Muda, Oye
  <2>5. Efecto(e, x, k, m.id)
    <3>1. CASE Muda(e, x)
      BY <3>1 DEF Efecto, Encarga, Envia, Anota, Muda
    <3>2. QED
      BY <2>3, <3>1 DEF Efecto
  <2>6. "victima" \notin z.culpas
    BY <2>2 DEF Serena, Muda, Oye, Recuerda
  <2>7. Almacena(e, x, k, m)
    <3> HIDE DEF n, w, D
    <3>1. ASSUME NEW j \in DOMAIN x.cache, x.cache[j].ok
          PROVE  Viene(e.cache, x.cache[j].s, x.cache[j].v) \/ Traida(e, x, k, m, x.cache[j].s, x.cache[j].v)
      BY <1>6, <2>2, <2>4, <2>6, <3>1 DEF Guardada, MismaCache, Traida
    <3>2. (e.cant \in Nat => x.cant \in Nat) /\ (~HayCache => x.cache = e.cache)
      BY <1>6, <2>2, <2>6 DEF Guardada, MismaCache
    <3>3. QED
      BY <3>1, <3>2 DEF Almacena
  <2>8. QED
    BY <2>5, <2>7
<1> HIDE DEF D, w, n, s
<1>7. CASE m.t = "GET" /\ x \in Luego(D(w, 1), LAMBDA v : Luego(D(v, 2), LAMBDA z : Entrega(z, k, "READ_OK", m.v)))
  <2>1. PICK v \in D(w, 1) : \/ x = v
                             \/ x \in Luego(D(v, 2), LAMBDA z : Entrega(z, k, "READ_OK", m.v))
    BY <1>7 DEF Luego
  <2>2. Guardada(e, v, s, m.v)
    BY <1>4, <1>5
  <2>3. CASE x = v
    BY <1>6, <1>7, <2>2, <2>3
  <2>4. CASE x \in Luego(D(v, 2), LAMBDA z : Entrega(z, k, "READ_OK", m.v))
    <3>1. PICK z \in D(v, 2) : x = z \/ x \in Entrega(z, k, "READ_OK", m.v)
      BY <2>4 DEF Luego
    <3>2. Guardada(e, z, s, m.v)
      BY <1>5, <2>2
    <3>3. QED
      BY <1>6, <1>7, <3>1, <3>2
  <2>5. QED
    BY <2>1, <2>3, <2>4
<1>8. QED
  BY <1>1, <1>2, <1>7

-----------------------------------------------------------------------------
(* An answer, from any state *)

\* The descriptor found by an identifier has it.
LEMMA HalladoPorId ==
    ASSUME NEW e, EsTodo(e), NEW id
    PROVE  FdPorId(e, id) # 0 => FdPorId(e, id) \in DOMAIN e.fds /\ e.fds[FdPorId(e, id)].id = id
<1> DEFINE K == {j \in DOMAIN e.fds : e.fds[j].id = id}
<1>1. K \subseteq Nat \ {0} /\ FdPorId(e, id) = PrimeroDe(K)
  BY DEF EsTodo, EsSes, EsFichas, EsSec, FdPorId
<1>2. FdPorId(e, id) # 0 => FdPorId(e, id) \in K
  <2> HIDE DEF K
  <2>1. QED
    BY <1>1, Primero
<1>3. QED
  BY <1>2

\* What main does with an answer: it looks for the SFS, and goes on with the call.
LEMMA RespuestaSigue ==
    ASSUME NEW e, EsTodo(e), NEW m, NEW x \in Respuesta(e, m), NEW j, j = FdPorId(e, m.id),
           NEW v, v = BuscaSfs(e)
    PROVE  \/ j = 0 /\ (x = e \/ x = Desfasa(e))
           \/ j # 0 /\ x = v /\ v.vsk # "atendiendo"
           \/ /\ j # 0 /\ v.vsk = "atendiendo"
              /\ \/ x \in Abrir(v, j, m) \/ x \in Cerrar(v, j, m) \/ x \in Listar(v, j, m)
                 \/ x \in Leer(v, j, m) \/ x \in Escribir(v, j, m)
<1> DEFINE k == FdPorId(e, m.id)
           w == BuscaSfs(e)
<1>1. Serena(e, w) /\ EsTodo(w) /\ w.fds = e.fds
  BY BuscaSfsSerena, SerenaEs
<1>2. \/ k = 0 /\ x = Desfasa(e)
      \/ k = 0 /\ x = e
      \/ k # 0 /\ x \in Luego({w}, LAMBDA y :
            CASE y.fds[k].sys = "OPEN" -> Abrir(y, k, m)
              [] y.fds[k].sys = "CLOSE" -> Cerrar(y, k, m)
              [] y.fds[k].sys = "LIST" -> Listar(y, k, m)
              [] y.fds[k].sys = "READ" -> Leer(y, k, m)
              [] y.fds[k].sys = "WRITE" -> Escribir(y, k, m))
  BY DEF Respuesta
<1>3. k # 0 => k \in DOMAIN e.fds
  BY HalladoPorId
<1>4. j = k /\ v = w
  OBVIOUS
<1> HIDE DEF k, w
<1>5. CASE k = 0
  BY <1>2, <1>4, <1>5
<1>6. CASE k # 0
  <2>1. \/ x = w /\ w.vsk # "atendiendo"
        \/ w.vsk = "atendiendo" /\ x \in CASE w.fds[k].sys = "OPEN" -> Abrir(w, k, m)
                                           [] w.fds[k].sys = "CLOSE" -> Cerrar(w, k, m)
                                           [] w.fds[k].sys = "LIST" -> Listar(w, k, m)
                                           [] w.fds[k].sys = "READ" -> Leer(w, k, m)
                                           [] w.fds[k].sys = "WRITE" -> Escribir(w, k, m)
    BY <1>2, <1>6 DEF Luego
  <2>2. w.fds[k].sys \in Llamadas
    BY <1>1, <1>3, <1>6 DEF EsTodo, EsSes, EsVsk, EsFds
  <2>3. \/ x = w /\ w.vsk # "atendiendo"
        \/ /\ w.vsk = "atendiendo"
           /\ \/ x \in Abrir(w, k, m) \/ x \in Cerrar(w, k, m) \/ x \in Listar(w, k, m)
              \/ x \in Leer(w, k, m) \/ x \in Escribir(w, k, m)
    BY <2>1, <2>2, Zenon DEF Llamadas
  <2>4. QED
    BY <1>4, <1>6, <2>3
<1>7. QED
  BY <1>5, <1>6

\* It asks, answers or ends in the name of the descriptor of that identifier.
LEMMA RespuestaEfecto ==
    ASSUME NEW e, EsTodo(e), NEW m, NEW x \in Respuesta(e, m), "victima" \notin x.culpas,
           m.t = "DOS" => DOMAIN m.s = 1..2
    PROVE  \/ Serena(e, x) /\ (x = e \/ x = Desfasa(e))
           \/ \E k \in DOMAIN e.fds : /\ e.fds[k].id = m.id /\ Efecto(e, x, k, m.id)
                                      /\ Almacena(e, x, k, m)
<1>1. PICK k : k = FdPorId(e, m.id)
  OBVIOUS
<1>2. PICK w : w = BuscaSfs(e)
  OBVIOUS
<1>3. Serena(e, w) /\ EsTodo(w) /\ w.fds = e.fds /\ MismaCache(e, w) /\ w.aDa = e.aDa
  BY <1>2, BuscaSfsSerena, SerenaEs DEF Serena, Muda
<1>4. k # 0 => k \in DOMAIN e.fds /\ e.fds[k].id = m.id
  BY <1>1, HalladoPorId
<1>5. CASE k = 0 /\ (x = e \/ x = Desfasa(e))
  BY <1>5, SerenaMisma, FinSerena
<1>6. CASE k # 0 /\ x = w /\ w.vsk # "atendiendo"
  BY <1>3, <1>4, <1>6, SerenaEfecto
<1>7. CASE /\ k # 0 /\ w.vsk = "atendiendo"
           /\ \/ x \in Abrir(w, k, m) \/ x \in Cerrar(w, k, m) \/ x \in Listar(w, k, m)
              \/ x \in Leer(w, k, m) \/ x \in Escribir(w, k, m)
  <2>1. k \in DOMAIN w.fds /\ w.fds[k].id = m.id /\ EsTodo(w) /\ w.vsk = "atendiendo"
    BY <1>3, <1>4, <1>7
  <2>2. Efecto(w, x, k, m.id) /\ Almacena(w, x, k, m)
    <3>1. CASE x \in Abrir(w, k, m)
      BY <2>1, <3>1, AbrirEfecto, MismaAlmacena
    <3>2. CASE x \in Cerrar(w, k, m)
      BY <2>1, <3>2, CerrarEfecto, MismaAlmacena
    <3>3. CASE x \in Listar(w, k, m)
      BY <2>1, <3>3, ListarEfecto, MismaAlmacena
    <3>4. CASE x \in Leer(w, k, m)
      BY <2>1, <3>4, LeerEfecto
    <3>5. CASE x \in Escribir(w, k, m)
      BY <2>1, <3>5, EscribirEfecto
    <3>6. QED
      BY <1>7, <3>1, <3>2, <3>3, <3>4, <3>5
  <2>3. Efecto(e, x, k, m.id)
    BY <1>3, <1>4, <1>7, <2>2, SerenaLuego
  <2>4. Almacena(e, x, k, m)
    BY <1>3, <2>2 DEF Almacena, MismaCache, Traida
  <2>5. QED
    BY <1>4, <1>7, <2>3, <2>4
<1>8. QED
  BY <1>1, <1>2, <1>5, <1>6, <1>7, RespuestaSigue

-----------------------------------------------------------------------------
(* A CHS that was not waited for ends the loop, or is nobody's *)

Corriente(v) == v \in {"atendiendo", "espera CHS", "espera formato"}

LEMMA DesfasaPara ==
    ASSUME NEW e, EsTodo(e)
    PROVE  Desfasa(e).vsk = "desfasada" /\ Fin(e, "bloqueada").vsk = "bloqueada"
BY FinIleso DEF EsTodo, EsSes, EsVsk, Desfasa, Fin, Campos

LEMMA ChsPara ==
    ASSUME NEW e, EsTodo(e), e.vsk = "atendiendo", NEW k \in DOMAIN e.fds, NEW m, m.t = "CHS",
           NEW x, \/ x \in Abrir(e, k, m) \/ x \in Cerrar(e, k, m) \/ x \in Listar(e, k, m)
                  \/ x \in Leer(e, k, m) \/ x \in Escribir(e, k, m)
    PROVE  x.vsk # "atendiendo"
<1>1. m.t \in ConPayload /\ Desfasa(e).vsk = "desfasada" /\ Fin(e, "bloqueada").vsk = "bloqueada"
  BY DesfasaPara DEF ConPayload
<1>2. CASE x \in Abrir(e, k, m)
  <2>1. x = Desfasa(e)
    BY <1>1, <1>2 DEF Abrir
  <2>2. QED
    BY <1>1, <2>1
<1>3. CASE x \in Listar(e, k, m)
  <2>1. x = Desfasa(e)
    BY <1>1, <1>3 DEF Listar
  <2>2. QED
    BY <1>1, <2>1
<1>4. CASE x \in Cerrar(e, k, m)
  <2> DEFINE D(z) == IF m.t \in ConPayload THEN Desfasa(z) ELSE z
  <2>1. CASE x = D(e)
    BY <1>1, <2>1
  <2>2. CASE x \in Luego(UsaArchivo(e, k), LAMBDA u :
                   Luego(QuitarOft(u, TRUE), LAMBDA y : Luego(Termina(y, k, "CLOSE_OK"), LAMBDA z : {D(z)})))
    <3>1. PICK u \in UsaArchivo(e, k) :
             IF u.vsk = "atendiendo"
             THEN x \in Luego(QuitarOft(u, TRUE), LAMBDA y : Luego(Termina(y, k, "CLOSE_OK"), LAMBDA z : {D(z)}))
             ELSE x = u
      BY <2>2 DEF Luego
    <3>2. CASE u.vsk # "atendiendo"
      BY <3>1, <3>2
    <3>3. CASE u.vsk = "atendiendo"
      <4>1. PICK y \in QuitarOft(u, TRUE) :
               IF y.vsk = "atendiendo"
               THEN x \in Luego(Termina(y, k, "CLOSE_OK"), LAMBDA z : {D(z)}) ELSE x = y
        BY <3>1, <3>3 DEF Luego
      <4>2. Serena(e, u) /\ EsTodo(u) /\ DOMAIN u.fds = DOMAIN e.fds
        BY UsaArchivoSerena, SerenaEs
      <4>3. Serena(u, y) /\ EsTodo(y) /\ DOMAIN y.fds = DOMAIN e.fds
        BY <4>2, QuitarOftSerena, SerenaEs
      <4>4. CASE y.vsk = "atendiendo"
        <5>1. PICK z \in Termina(y, k, "CLOSE_OK") :
                 IF z.vsk = "atendiendo" THEN x = D(z) ELSE x = z
          BY <4>1, <4>4 DEF Luego
        <5>2. EsTodo(z)
          BY <4>3, <4>4, TerminaComo
        <5>3. QED
          BY <1>1, <5>1, <5>2, DesfasaPara
      <4>5. QED
        BY <4>1, <4>4
    <3>4. QED
      BY <3>2, <3>3
  <2>3. x = D(e) \/ x \in Luego(UsaArchivo(e, k), LAMBDA u :
                   Luego(QuitarOft(u, TRUE), LAMBDA y : Luego(Termina(y, k, "CLOSE_OK"), LAMBDA z : {D(z)})))
    BY <1>4 DEF Cerrar
  <2>4. QED
    BY <2>1, <2>2, <2>3
<1>5. CASE x \in Leer(e, k, m)
  <2>1. PICK u \in UsaArchivo(e, k) : \/ u.vsk # "atendiendo" /\ x = u
                                      \/ x = Desfasa(e) \/ x = Fin(e, "bloqueada")
    BY <1>5 DEF Leer, Luego
  <2>2. QED
    BY <1>1, <2>1
<1>6. CASE x \in Escribir(e, k, m)
  <2> DEFINE D(y) == IF m.t \in ConPayload THEN Desfasa(y) ELSE y
  <2>1. PICK u \in UsaArchivo(e, k) : \/ u.vsk # "atendiendo" /\ x = u
                                      \/ x = Desfasa(e)
                                      \/ x \in Luego(Entrega(e, k, "WRITE_OK", <<>>), LAMBDA y : {D(y)})
    BY <1>6 DEF Escribir, Luego
  <2>2. CASE x \in Luego(Entrega(e, k, "WRITE_OK", <<>>), LAMBDA y : {D(y)})
    <3>1. PICK y \in Entrega(e, k, "WRITE_OK", <<>>) :
             IF y.vsk = "atendiendo" THEN x = D(y) ELSE x = y
      BY <2>2 DEF Luego
    <3>2. EsTodo(y)
      BY <3>1, EntregaOye DEF Serena, Muda, Oye
    <3>3. QED
      BY <1>1, <3>1, <3>2, DesfasaPara
  <2>3. QED
    BY <1>1, <2>1, <2>2
<1>7. QED
  BY <1>2, <1>3, <1>4, <1>5, <1>6

LEMMA RespuestaChs ==
    ASSUME NEW e, EsTodo(e), e.vsk = "atendiendo", NEW m, m.t = "CHS", NEW x \in Respuesta(e, m)
    PROVE  x = e \/ ~Corriente(x.vsk)
<1>1. PICK k : k = FdPorId(e, m.id)
  OBVIOUS
<1>2. PICK w : w = BuscaSfs(e)
  OBVIOUS
<1>3. EsTodo(w) /\ w.fds = e.fds
  BY <1>2, BuscaSfsSerena, SerenaEs
<1>4. k # 0 => k \in DOMAIN w.fds
  BY <1>1, <1>3, HalladoPorId
<1>5. x = e \/ x.vsk # "atendiendo"
  <2>1. CASE k = 0 /\ (x = e \/ x = Desfasa(e))
    BY <2>1, DesfasaPara
  <2>2. CASE k # 0 /\ x = w /\ w.vsk # "atendiendo"
    BY <2>2
  <2>3. CASE /\ k # 0 /\ w.vsk = "atendiendo"
             /\ \/ x \in Abrir(w, k, m) \/ x \in Cerrar(w, k, m) \/ x \in Listar(w, k, m)
                \/ x \in Leer(w, k, m) \/ x \in Escribir(w, k, m)
    BY <1>3, <1>4, <2>3, ChsPara
  <2>4. QED
    BY <1>1, <1>2, <2>1, <2>2, <2>3, RespuestaSigue
<1>6. Camina(e, x)
  <2>1. EsVsk(e) /\ m.t # "DOS"
    BY DEF EsTodo, EsSes
  <2>2. QED
    BY <2>1, RespuestaPasa DEF Pide, Igual, PideUno
<1>7. QED
  BY <1>5, <1>6 DEF Camina, Corriente, Perdida

-----------------------------------------------------------------------------
(* What arrives from the SFS *)

LEMMA ErrorDelSfsEfecto ==
    ASSUME NEW e, EsTodo(e), NEW m, NEW x \in ErrorDelSfs(e, m)
    PROVE  \/ x = e
           \/ \E k \in DOMAIN e.fds : /\ e.fds[k].id = m.id /\ Efecto(e, x, k, m.id)
                                      /\ MismaCache(e, x)
<1> DEFINE k == FdPorId(e, m.id)
           A == IF e.fds[k].oft = 0 THEN {e} ELSE Luego(UsaArchivo(e, k), LAMBDA u : QuitarOft(u, TRUE))
           C(z) == {CierraSocket(z, e.fds[k].sock)}
<1>1. x = e \/ (k # 0 /\ x \in Luego(A, LAMBDA y : Luego(Entrega(y, k, "ERROR", <<>>), LAMBDA z : C(z))))
  BY DEF ErrorDelSfs
<1>2. k # 0 => k \in DOMAIN e.fds /\ e.fds[k].id = m.id
  BY HalladoPorId
<1>3. ASSUME NEW y \in A PROVE Serena(e, y)
  <2>1. CASE y = e
    BY <2>1, SerenaMisma
  <2>2. CASE y \in Luego(UsaArchivo(e, k), LAMBDA u : QuitarOft(u, TRUE))
    <3>1. PICK u \in UsaArchivo(e, k) : y = u \/ y \in QuitarOft(u, TRUE)
      BY <2>2 DEF Luego
    <3>2. Serena(e, u) /\ EsTodo(u)
      BY UsaArchivoSerena, SerenaEs
    <3>3. QED
      BY <3>1, <3>2, QuitarOftSerena, SerenaSerena
  <2>3. QED
    BY <1>3, <2>1, <2>2
<1> HIDE DEF A, k
<1>4. CASE k # 0 /\ x \in Luego(A, LAMBDA y : Luego(Entrega(y, k, "ERROR", <<>>), LAMBDA z : C(z)))
  <2>1. PICK y \in A : \/ x = y
                       \/ x \in Luego(Entrega(y, k, "ERROR", <<>>), LAMBDA z : C(z))
    BY <1>4 DEF Luego
  <2>2. Serena(e, y) /\ EsTodo(y) /\ k \in DOMAIN e.fds /\ k \in DOMAIN y.fds
        /\ y.fds[k].sock = e.fds[k].sock /\ MismaCache(e, y) /\ e.fds[k].sock \in Sockets
    BY <1>2, <1>3, <1>4, <2>1, SerenaEs DEF EsTodo, EsSes, EsFichas
  <2>3. CASE x = y
    <3>1. Efecto(e, x, k, m.id)
      BY <2>2, <2>3, SerenaEfecto
    <3>2. QED
      BY <1>2, <1>4, <2>2, <2>3, <3>1
  <2>4. CASE x \in Luego(Entrega(y, k, "ERROR", <<>>), LAMBDA z : C(z))
    <3>1. PICK z \in Entrega(y, k, "ERROR", <<>>) : x = z \/ x = CierraSocket(z, e.fds[k].sock)
      BY <2>4 DEF Luego
    <3>2. MismaCache(y, z) /\ (Serena(y, z) \/ Oye(y, z, e.fds[k].sock)) /\ EsTodo(z)
      <4>1. MismaCache(y, z) /\ (Serena(y, z) \/ Oye(y, z, y.fds[k].sock))
        BY <2>2, EntregaOye
      <4>2. QED
        BY <2>2, <4>1 DEF Serena, Muda, Oye
    <3>3. CASE x = z
      <4>1. Efecto(e, x, k, m.id) /\ MismaCache(e, x)
        <5>1. MismaCache(e, x)
          BY <2>2, <3>2, <3>3, MismaMisma
        <5>2. CASE Serena(y, z)
          BY <2>2, <3>3, <5>1, <5>2, SerenaSerena, SerenaEfecto
        <5>3. CASE Oye(y, z, e.fds[k].sock)
          <6>1. Oye(e, x, e.fds[k].sock)
            BY <2>2, <3>3, <5>3, MudaOye DEF Serena
          <6>2. QED
            BY <5>1, <6>1 DEF Efecto
        <5>4. QED
          BY <3>2, <5>2, <5>3
      <4>2. QED
        BY <1>2, <1>4, <4>1
    <3>4. CASE x = CierraSocket(z, e.fds[k].sock)
      <4>1. Sale(z, x, e.fds[k].sock) /\ MismaCache(z, x)
        BY <2>2, <3>2, <3>4, CierraSocketSale
      <4>2. Sale(y, x, e.fds[k].sock)
        BY <3>2, <4>1, SerenaSale, OyeSale
      <4>3. Efecto(e, x, k, m.id) /\ MismaCache(e, x)
        BY <2>2, <3>2, <4>1, <4>2, SerenaSale, MismaMisma DEF Efecto
      <4>4. QED
        BY <1>2, <1>4, <4>3
    <3>5. QED
      BY <3>1, <3>3, <3>4
  <2>5. QED
    BY <2>1, <2>3, <2>4
<1>5. QED
  BY <1>1, <1>4

\* Of the SFS comes what is nobody's, or an answer to the one who has the identifier.
LEMMA AtenderSfsEfecto ==
    ASSUME NEW e, EsTodo(e), NEW m, NEW x \in AtenderSfs(e, m), "victima" \notin x.culpas,
           m.t = "DOS" => DOMAIN m.s = 1..2
    PROVE  \/ Serena(e, x) /\ (x = e \/ x = Desfasa(e) \/ m.t = "FORMATEADO")
           \/ \E k \in DOMAIN e.fds : /\ e.fds[k].id = m.id /\ Efecto(e, x, k, m.id)
                                      /\ Almacena(e, x, k, m) /\ m.t # "FORMATEADO"
<1>1. \/ x = Desfasa(e) 
      \/ m.t = "FORMATEADO" /\ x = [e EXCEPT !.con = "rota"]
      \/ m.t # "FORMATEADO" /\ x \in ErrorDelSfs(e, m)
      \/ m.t # "FORMATEADO" /\ x \in Respuesta(e, m)
  BY DEF AtenderSfs
<1>2. CASE x = Desfasa(e)
  BY <1>2, FinSerena
<1>3. CASE m.t = "FORMATEADO" /\ x = [e EXCEPT !.con = "rota"]
  <2>1. Ileso(e, x) /\ MismaCache(e, x)
    BY <1>3 DEF EsTodo, EsSes, EsVsk, Campos, Ileso, Recuerda, MismaCache
  <2>2. QED
    BY <1>3, <2>1, MansoSerena
<1>4. CASE m.t # "FORMATEADO" /\ x \in ErrorDelSfs(e, m)
  <2>1. CASE x = e
    BY <2>1, SerenaMisma
  <2>2. CASE \E k \in DOMAIN e.fds : e.fds[k].id = m.id /\ Efecto(e, x, k, m.id) /\ MismaCache(e, x)
    BY <1>4, <2>2, MismaAlmacena
  <2>3. QED
    BY <1>4, <2>1, <2>2, ErrorDelSfsEfecto
<1>5. CASE m.t # "FORMATEADO" /\ x \in Respuesta(e, m)
  BY <1>5, RespuestaEfecto
<1>6. QED
  BY <1>1, <1>2, <1>3, <1>4, <1>5

-----------------------------------------------------------------------------
(* What a client asks *)

\* A descriptor more, of id and of the socket c, at the head of the list.
Puesto(e, y, id, c) ==
    /\ EsTodo(y) /\ Recuerda(e, y) /\ y.cl = e.cl /\ y.ped = e.ped /\ y.aSfs = e.aSfs
    /\ y.aDa = e.aDa /\ MismaCache(e, y)
    /\ \E g : g.id = id /\ g.sock = c /\ y.fds = <<g>> \o e.fds

LEMMA MetePuesto ==
    ASSUME NEW e, EsTodo(e), NEW id, NEW c \in Sockets, NEW sys \in {"OPEN", "LIST"}, NEW a,
           NEW y \in MeterFd(e, id, c, sys, a)
    PROVE  Puesto(e, y, id, c) /\ 1 \in DOMAIN y.fds
<1>1. PICK p : y = [e EXCEPT !.fds = <<[id |-> id, sock |-> c, sys |-> sys, oft |-> 0, paso |-> p,
                                        pos |-> 0, tot |-> 0, a |-> a, s |-> <<>>]>> \o @]
  BY DEF MeterFd
<1> DEFINE g == [id |-> id, sock |-> c, sys |-> sys, oft |-> 0, paso |-> p,
                 pos |-> 0, tot |-> 0, a |-> a, s |-> <<>>]
<1>2. /\ EsSes(e) /\ EsVsk(e) /\ DOMAIN e = Campos /\ EsFichas(e.fds)
  BY DEF EsTodo, EsSes, EsVsk
<1>3. /\ y.fds = <<g>> \o e.fds /\ y.cl = e.cl /\ y.ped = e.ped /\ y.aDa = e.aDa
      /\ y.cache = e.cache /\ y.cant = e.cant
  BY <1>1, <1>2 DEF Campos
<1>4. Igual(e, y)
  BY <1>2, MeterFdIgual
<1>5. DOMAIN g = CamposFd /\ g.id = id /\ g.sock = c
  BY DEF CamposFd
<1> HIDE DEF g
<1>6. EsFichas(y.fds) /\ 1 \in DOMAIN y.fds
  <2>1. EsSec(e.fds)
    BY <1>2 DEF EsFichas
  <2>2. PICK f : f = e.fds
    OBVIOUS
  <2>3. EsSec(f)
    BY <2>1, <2>2
  <2>4. PICK h : h = <<g>> \o f /\ y.fds = h
    BY <1>3, <2>2
  <2>5. /\ EsSec(h) /\ 1 \in DOMAIN h /\ h[1] = g
        /\ \A j \in DOMAIN h : j # 1 => j - 1 \in DOMAIN f /\ h[j] = f[j - 1]
    <3>1. /\ EsSec(<<g>> \o f) /\ 1 \in DOMAIN (<<g>> \o f) /\ (<<g>> \o f)[1] = g
          /\ \A j \in DOMAIN (<<g>> \o f) : j # 1 => j - 1 \in DOMAIN f /\ (<<g>> \o f)[j] = f[j - 1]
      BY <2>3, PoneUno, Zenon
    <3>2. QED
      BY <2>4, <3>1
  <2>6. EsFichas(h)
    BY <1>2, <1>5, <2>2, <2>5 DEF EsFichas
  <2>7. QED
    BY <2>4, <2>5, <2>6
<1>7. EsTodo(y)
  BY <1>2, <1>3, <1>4, <1>6 DEF EsTodo, EsSes, Igual
<1>8. QED
  BY <1>3, <1>4, <1>5, <1>6, <1>7 DEF Puesto, Igual, MismaCache

LEMMA NuevoEfecto ==
    ASSUME NEW e, EsTodo(e), NEW c \in Sockets, NEW m, m.t \in {"OPEN", "LIST"},
           NEW x \in AtenderCliente(e, c, m)
    PROVE  \E y : /\ Puesto(e, y, m.id, c) /\ Efecto(y, x, 1, m.id) /\ MismaCache(y, x)
<1> DEFINE a == IF m.t = "OPEN" THEN m.s.a ELSE Nada
           M == MeterFd(e, m.id, c, m.t, a)
<1> HIDE DEF a, M
<1>1. \/ m.t = "OPEN" /\ x \in Luego({BuscaSfs(y) : y \in M}, LAMBDA y : AbrirPrimero(y, 1, m))
      \/ m.t = "LIST" /\ x \in Luego({BuscaSfs(y) : y \in M}, LAMBDA y : ListarPrimero(y, 1, m))
  BY DEF AtenderCliente, M, a
<1>2. PICK y \in M : \/ x = BuscaSfs(y)
                     \/ x \in AbrirPrimero(BuscaSfs(y), 1, m)
                     \/ x \in ListarPrimero(BuscaSfs(y), 1, m)
  BY <1>1 DEF Luego
<1>3. PICK z : z = BuscaSfs(y)
  OBVIOUS
<1>4. Puesto(e, y, m.id, c) /\ 1 \in DOMAIN y.fds
  <2>1. y \in MeterFd(e, m.id, c, m.t, a)
    BY DEF M
  <2>2. QED
    BY <2>1, MetePuesto
<1>5. Serena(y, z) /\ EsTodo(z) /\ MismaCache(y, z) /\ 1 \in DOMAIN z.fds
  BY <1>3, <1>4, BuscaSfsSerena, SerenaEs DEF Puesto
<1>6. CASE x = z
  <2>1. Efecto(y, x, 1, m.id) /\ MismaCache(y, x)
    BY <1>5, <1>6, SerenaEfecto
  <2>2. QED
    BY <1>4, <2>1
<1>7. CASE x \in AbrirPrimero(z, 1, m) \/ x \in ListarPrimero(z, 1, m)
  <2>1. Efecto(z, x, 1, m.id) /\ MismaCache(z, x)
    BY <1>5, <1>7, AbrirPrimeroEfecto, ListarPrimeroEfecto
  <2>2. Efecto(y, x, 1, m.id) /\ MismaCache(y, x)
    BY <1>4, <1>5, <2>1, SerenaLuego, MismaMisma
  <2>3. QED
    BY <1>4, <2>2
<1>8. QED
  BY <1>2, <1>3, <1>6, <1>7

\* A call begins in the descriptor k.
Empieza(e, k, sys, y) == y = [e EXCEPT !.fds[k].sys = sys, !.fds[k].paso = 0]

LEMMA EmpezadaSerena ==
    ASSUME NEW e, EsTodo(e), NEW k \in DOMAIN e.fds, NEW sys \in Llamadas,
           NEW y, Empieza(e, k, sys, y)
    PROVE  Serena(e, y) /\ y.vsk = e.vsk
<1>0. y = [e EXCEPT !.fds[k].sys = sys, !.fds[k].paso = 0]
  BY DEF Empieza
<1>1. EsSes(e) /\ EsVsk(e) /\ DOMAIN e = Campos /\ EsFichas(e.fds)
  BY DEF EsTodo, EsSes, EsVsk
<1>2. Igual(e, y)
  BY <1>0, <1>1, EmpiezaIgual
<1> DEFINE g == [e.fds[k] EXCEPT !.sys = sys, !.paso = 0]
<1>3. /\ y.fds = [e.fds EXCEPT ![k] = g] /\ y.cl = e.cl /\ y.ped = e.ped /\ y.vsk = e.vsk
      /\ y.aSfs = e.aSfs /\ y.aDa = e.aDa /\ y.cache = e.cache /\ y.cant = e.cant
  BY <1>0, <1>1 DEF Campos
<1>4. DOMAIN g = CamposFd /\ g.id = e.fds[k].id /\ g.sock = e.fds[k].sock
  <2>1. DOMAIN e.fds[k] = CamposFd
    BY <1>1 DEF EsFichas
  <2>2. QED
    BY <2>1 DEF CamposFd
<1> HIDE DEF g
<1>5. MismasFichas(e.fds, y.fds)
  <2>1. EsSec(y.fds) /\ DOMAIN y.fds = DOMAIN e.fds
    BY <1>1, <1>2, <1>3 DEF Igual, EsVsk, EsFds
  <2>2. \A j \in DOMAIN y.fds : y.fds[j] = IF j = k THEN g ELSE e.fds[j]
    BY <1>3, <2>1
  <2>3. QED
    BY <1>1, <1>4, <2>1, <2>2 DEF MismasFichas, EsFichas
<1>6. EsTodo(y)
  BY <1>1, <1>2, <1>3, <1>5 DEF EsTodo, EsSes, Igual, MismasFichas
<1>7. QED
  BY <1>2, <1>3, <1>5, <1>6 DEF Serena, Muda, MismaCache, Igual

\* The handler of each call, in the descriptor of the socket.
LEMMA CierreSigue ==
    ASSUME NEW e, e.vsk = "atendiendo", NEW c, NEW m, m.t = "CLOSE", NEW k, k # 0, k = FdPorSocket(e, c),
           NEW x \in AtenderCliente(e, c, m),
           NEW w, Empieza(e, k, m.t, w), w.vsk = e.vsk
    PROVE  x = BuscaSfs(w) \/ (BuscaSfs(w).vsk = "atendiendo" /\ x \in CerrarPrimero(BuscaSfs(w), k, m))
<1>1. x \in Luego(Luego({w}, LAMBDA y : {BuscaSfs(y)}), LAMBDA y : CerrarPrimero(y, k, m))
  <2> DEFINE K(q) == x \in Luego(Luego({IF q = 0 THEN Fin(e, "muerta")
                                      ELSE [e EXCEPT !.fds[q].sys = "CLOSE", !.fds[q].paso = 0]},
                                     LAMBDA y : {BuscaSfs(y)}), LAMBDA y : CerrarPrimero(y, q, m))
  <2>1. K(FdPorSocket(e, c))
    BY DEF AtenderCliente
  <2> HIDE DEF K
  <2>2. K(k)
    BY <2>1
  <2>3. QED
    BY <2>2 DEF K, Empieza
<1>2. PICK z \in Luego({w}, LAMBDA y : {BuscaSfs(y)}) : x = z \/ (z.vsk = "atendiendo" /\ x \in CerrarPrimero(z, k, m))
  BY <1>1 DEF Luego
<1>3. z = BuscaSfs(w)
  <2>1. w.vsk = "atendiendo"
    OBVIOUS
  <2>2. QED
    BY <1>2, <2>1 DEF Luego
<1>4. QED
  BY <1>2, <1>3

LEMMA LecturaSigue ==
    ASSUME NEW e, e.vsk = "atendiendo", NEW c, NEW m, m.t = "READ", NEW k, k # 0, k = FdPorSocket(e, c),
           NEW x \in AtenderCliente(e, c, m),
           NEW w, Empieza(e, k, m.t, w), w.vsk = e.vsk
    PROVE  x \in LeerPrimero(w, k, m)
<1>1. x \in Luego({w}, LAMBDA y : LeerPrimero(y, k, m))
  <2> DEFINE K(q) == x \in Luego({IF q = 0 THEN Fin(e, "muerta")
                                 ELSE [e EXCEPT !.fds[q].sys = "READ", !.fds[q].paso = 0]},
                                LAMBDA y : LeerPrimero(y, q, m))
  <2>1. K(FdPorSocket(e, c))
    BY DEF AtenderCliente
  <2> HIDE DEF K
  <2>2. K(k)
    BY <2>1
  <2>3. QED
    BY <2>2 DEF K, Empieza
<1>2. QED
  BY <1>1 DEF Luego

LEMMA EscrituraSigue ==
    ASSUME NEW e, e.vsk = "atendiendo", NEW c, NEW m, m.t = "WRITE", NEW k, k # 0, k = FdPorSocket(e, c),
           NEW x \in AtenderCliente(e, c, m),
           NEW w, Empieza(e, k, m.t, w), w.vsk = e.vsk
    PROVE  x \in EscribirPrimero(w, k, m)
<1>1. x \in Luego({w}, LAMBDA y : EscribirPrimero(y, k, m))
  <2> DEFINE K(q) == x \in Luego({IF q = 0 THEN Fin(e, "muerta")
                                 ELSE [e EXCEPT !.fds[q].sys = "WRITE", !.fds[q].paso = 0]},
                                LAMBDA y : EscribirPrimero(y, q, m))
  <2>1. K(FdPorSocket(e, c))
    BY DEF AtenderCliente
  <2> HIDE DEF K
  <2>2. K(k)
    BY <2>1
  <2>3. QED
    BY <2>2 DEF K, Empieza
<1>2. QED
  BY <1>1 DEF Luego

LEMMA ViejoEfecto ==
    ASSUME NEW e, EsTodo(e), e.vsk = "atendiendo", NEW c, NEW m, m.t \in {"CLOSE", "READ", "WRITE"},
           NEW k \in DOMAIN e.fds, k = FdPorSocket(e, c), NEW x \in AtenderCliente(e, c, m)
    PROVE  Efecto(e, x, k, m.id) /\ MismaCache(e, x)
<1>1. PICK w : Empieza(e, k, m.t, w)
  BY DEF Empieza
<1>2. Serena(e, w) /\ w.vsk = "atendiendo" /\ EsTodo(w) /\ k \in DOMAIN w.fds /\ MismaCache(e, w)
  <2>1. m.t \in Llamadas
    BY DEF Llamadas
  <2>2. Serena(e, w) /\ w.vsk = "atendiendo"
    BY <1>1, <2>1, EmpezadaSerena
  <2>3. QED
    BY <2>2, SerenaEs
<1>3. k # 0
  BY DEF EsTodo, EsSes, EsFichas, EsSec
<1>4. PICK z : z = BuscaSfs(w)
  OBVIOUS
<1>5. Serena(w, z) /\ EsTodo(z) /\ k \in DOMAIN z.fds /\ MismaCache(w, z)
  BY <1>2, <1>4, BuscaSfsSerena, SerenaEs
<1>6. CASE m.t = "CLOSE"
  <2>1. x = z \/ (z.vsk = "atendiendo" /\ x \in CerrarPrimero(z, k, m))
    BY <1>1, <1>2, <1>3, <1>4, <1>6, CierreSigue
  <2>2. Efecto(w, x, k, m.id) /\ MismaCache(w, x)
    <3>1. CASE x = z
      BY <1>2, <1>5, <3>1, SerenaEfecto
    <3>2. CASE z.vsk = "atendiendo" /\ x \in CerrarPrimero(z, k, m)
      <4>1. Efecto(z, x, k, m.id) /\ MismaCache(z, x)
        BY <1>5, <3>2, CerrarPrimeroEfecto
      <4>2. QED
        BY <1>2, <1>5, <4>1, SerenaLuego, MismaMisma
    <3>3. QED
      BY <2>1, <3>1, <3>2
  <2>3. QED
    BY <1>2, <2>2, SerenaLuego, MismaMisma
<1>7. CASE m.t = "READ"
  <2>1. x \in LeerPrimero(w, k, m)
    BY <1>1, <1>2, <1>3, <1>7, LecturaSigue
  <2>2. Efecto(w, x, k, m.id) /\ MismaCache(w, x)
    BY <1>2, <2>1, LeerPrimeroEfecto
  <2>3. QED
    BY <1>2, <2>2, SerenaLuego, MismaMisma
<1>8. CASE m.t = "WRITE"
  <2>1. x \in EscribirPrimero(w, k, m)
    BY <1>1, <1>2, <1>3, <1>8, EscrituraSigue
  <2>2. Efecto(w, x, k, m.id) /\ MismaCache(w, x)
    BY <1>2, <2>1, EscribirPrimeroEfecto
  <2>3. QED
    BY <1>2, <2>2, SerenaLuego, MismaMisma
<1>9. QED
  BY <1>6, <1>7, <1>8

-----------------------------------------------------------------------------
(* One session at a time *)

\* Where a client that has its answer is; and one descriptor of n at most.
Ociosos == {"abierto", "leido", "fallido"}
UnFd(f, n) == \A i, j \in DOMAIN f : f[i].id = n /\ f[j].id = n => i = j

\* The client s of the socket c is the session n, the last there was: its request m
\* makes the descriptor, or there is one.
EnSuCurso(s, m, f, n, c) ==
    /\ s.id = n /\ n # 0
    /\ m.t # Nada => s.est \notin Ociosos /\ m.id \in {0, n}
    /\ IF m.t \in {"OPEN", "LIST"} THEN m.id = n /\ \A k \in DOMAIN f : f[k].id # n
       ELSE UnFd(f, n) /\ \E k \in DOMAIN f : SuFd(f, k, c, n)
UnaSesion(cs, ps, f, n) ==
    /\ \A k \in DOMAIN f : f[k].id \in 1..n
    /\ \A b, c \in Sockets : cs[b].est # "fuera" /\ cs[c].est # "fuera" => b = c
    /\ \A c \in Sockets : IF cs[c].est = "fuera" THEN ps[c].t = Nada
                          ELSE EnSuCurso(cs[c], ps[c], f, n, c)

\* The messages are of nobody or of n, which has one; a write is its own.
Suyas(q, n) == \A j \in DOMAIN q : Quien(q[j]) \in {0, -1, n}
Colas(p, d, a, r, n) ==
    /\ Suyas(p, n) /\ Suyas(d, n) /\ Suyas(a, n) /\ Suyas(r, n)
    /\ n # 0 => UnoViaja(p, d, a, r, n)
    /\ \A j \in DOMAIN a : a[j].t = "PUT" => a[j].id = n /\ n # 0 /\ DOMAIN a[j].s = 1..2

\* While n has a message on its way nobody asks anything, nor has what to go on with.
Quietos(cs, ps, f, n) ==
    UnFd(f, n) /\ \A c \in Sockets : ps[c].t = Nada /\ cs[c].est \notin Ociosos
UnMensaje(cs, ps, f, p, d, a, r, n) ==
    Colas(p, d, a, r, n) /\ (n # 0 /\ Viaja(p, d, a, r, n) => Quietos(cs, ps, f, n))

\* A read asks for the sectors its descriptor has, and brings what the disk has there.
Pedidos(f, a) ==
    \A j \in DOMAIN a : a[j].t = "GET" =>
        \A k \in DOMAIN f : f[k].id = a[j].id => DOMAIN a[j].s = 1..2 /\ f[k].s = a[j].s
Traidos(f, r, w) ==
    \A j \in DOMAIN r : r[j].t = "GET" =>
        \A k \in DOMAIN f : f[k].id = r[j].id =>
            \A i \in 1..2 : f[k].s[i] \in Sectores /\ r[j].v[i] = w[f[k].s[i]]

Marcha(e, d, r, w, n) ==
    /\ UnaSesion(e.cl, e.ped, e.fds, n)
    /\ UnMensaje(e.cl, e.ped, e.fds, e.aSfs, d, e.aDa, r, n)
    /\ Pedidos(e.fds, e.aDa) /\ Traidos(e.fds, r, w)

\* The state in which a handler of the descriptor k of n runs: n has no message.
Despejada(e, d, r, n, k) ==
    /\ EsTodo(e) /\ EsSec(e.aSfs) /\ n \in Nat \ {0} /\ k \in DOMAIN e.fds /\ e.fds[k].id = n
    /\ UnaSesion(e.cl, e.ped, e.fds, n) /\ Quietos(e.cl, e.ped, e.fds, n)
    /\ Colas(e.aSfs, d, e.aDa, r, n) /\ ~Viaja(e.aSfs, d, e.aDa, r, n)

LEMMA MismasSesion ==
    ASSUME NEW cs, NEW ps, NEW f, NEW n, UnaSesion(cs, ps, f, n), NEW g, MismasFichas(f, g)
    PROVE  UnaSesion(cs, ps, g, n) /\ (UnFd(f, n) => UnFd(g, n))
<1>1. /\ DOMAIN g = DOMAIN f
      /\ \A j \in DOMAIN f : g[j].id = f[j].id /\ g[j].sock = f[j].sock
  BY DEF MismasFichas
<1>2. UnFd(f, n) => UnFd(g, n)
  BY <1>1 DEF UnFd
<1>3. ASSUME NEW c, NEW k, SuFd(f, k, c, n) PROVE SuFd(g, k, c, n)
  BY <1>1, <1>3 DEF SuFd
<1>4. ASSUME NEW s, NEW m, NEW c, EnSuCurso(s, m, f, n, c) PROVE EnSuCurso(s, m, g, n, c)
  BY <1>1, <1>2, <1>3, <1>4 DEF EnSuCurso
<1>5. QED
  BY <1>1, <1>2, <1>4 DEF UnaSesion

\* Those of the other sockets are out.
LEMMA LosOtros ==
    ASSUME NEW e, NEW d, NEW r, NEW n, NEW k, Despejada(e, d, r, n, k), NEW c \in Sockets,
           e.cl[c].est # "fuera"
    PROVE  c = e.fds[k].sock
<1>1. EnSuCurso(e.cl[c], e.ped[c], e.fds, n, c) /\ e.ped[c].t = Nada
  BY DEF Despejada, UnaSesion, Quietos
<1>2. PICK i \in DOMAIN e.fds : SuFd(e.fds, i, c, n)
  BY <1>1 DEF EnSuCurso, Nada
<1>3. i = k
  BY <1>2 DEF Despejada, Quietos, UnFd, SuFd
<1>4. QED
  BY <1>2, <1>3 DEF SuFd

LEMMA OyeSesion ==
    ASSUME NEW e, NEW d, NEW r, NEW n, NEW k, Despejada(e, d, r, n, k), NEW x, Oye(e, x, e.fds[k].sock)
    PROVE  UnaSesion(x.cl, x.ped, x.fds, n)
<1>1. PICK c : c = e.fds[k].sock
  OBVIOUS
<1>2. c \in Sockets /\ DOMAIN e.cl = Sockets
  BY <1>1 DEF Despejada, EsTodo, EsSes, EsFichas, EsClientes
<1>3. PICK s : /\ s.id = e.cl[c].id /\ s.est # "fuera"
               /\ x.cl = [e.cl EXCEPT ![c] = s]
  BY <1>1 DEF Oye
<1>4. x.ped = e.ped /\ MismasFichas(e.fds, x.fds) /\ e.cl[c].est # "fuera"
  BY <1>1 DEF Oye
<1>5. UnaSesion(e.cl, e.ped, x.fds, n)
  BY <1>4, MismasSesion DEF Despejada
<1>6. /\ x.cl[c] = s /\ \A b \in Sockets : b # c => x.cl[b] = e.cl[b]
  BY <1>2, <1>3
<1>7. e.ped[c].t = Nada
  BY <1>2 DEF Despejada, Quietos
<1>8. EnSuCurso(e.cl[c], e.ped[c], x.fds, n, c)
  BY <1>2, <1>4, <1>5 DEF UnaSesion
<1>9. EnSuCurso(x.cl[c], x.ped[c], x.fds, n, c)
  BY <1>3, <1>4, <1>6, <1>7, <1>8 DEF EnSuCurso
<1>10. \A b \in Sockets : IF x.cl[b].est = "fuera" THEN x.ped[b].t = Nada
                          ELSE EnSuCurso(x.cl[b], x.ped[b], x.fds, n, b)
  BY <1>3, <1>4, <1>5, <1>6, <1>9 DEF UnaSesion
<1>11. \A b \in Sockets : x.cl[b].est # "fuera" => e.cl[b].est # "fuera"
  BY <1>4, <1>6
<1>12. \A b, q \in Sockets : x.cl[b].est # "fuera" /\ x.cl[q].est # "fuera" => b = q
  BY <1>5, <1>11 DEF UnaSesion
<1>13. \A j \in DOMAIN x.fds : x.fds[j].id \in 1..n
  BY <1>5 DEF UnaSesion
<1>14. QED
  BY <1>10, <1>12, <1>13 DEF UnaSesion

LEMMA SaleSesion ==
    ASSUME NEW e, NEW d, NEW r, NEW n, NEW k, Despejada(e, d, r, n, k), NEW x, Sale(e, x, e.fds[k].sock)
    PROVE  UnaSesion(x.cl, x.ped, x.fds, n)
<1>1. PICK c : c = e.fds[k].sock
  OBVIOUS
<1>2. c \in Sockets /\ DOMAIN e.cl = Sockets /\ DOMAIN e.ped = Sockets
  BY <1>1 DEF Despejada, EsTodo, EsSes, EsFichas, EsClientes, EsVsk, EsPed
<1>3. /\ x.cl = [e.cl EXCEPT ![c] = Fuera] /\ x.ped = [e.ped EXCEPT ![c] = NoLlamada]
      /\ Quedan(e.fds, x.fds)
  BY <1>1 DEF Sale
<1>4. \A b \in Sockets : x.cl[b].est = "fuera" /\ x.ped[b].t = Nada
  <2>1. TAKE b \in Sockets
  <2>2. CASE b = c
    BY <1>2, <1>3, <2>2 DEF Fuera, NoLlamada, Llamada
  <2>3. CASE b # c
    <3>1. x.cl[b] = e.cl[b] /\ x.ped[b] = e.ped[b]
      BY <1>2, <1>3, <2>3
    <3>2. e.cl[b].est = "fuera"
      BY <1>1, <2>3, LosOtros
    <3>3. e.ped[b].t = Nada
      BY DEF Despejada, Quietos
    <3>4. QED
      BY <3>1, <3>2, <3>3
  <2>4. QED
    BY <2>2, <2>3
<1>5. \A j \in DOMAIN x.fds : x.fds[j].id \in 1..n
  BY <1>3 DEF Quedan, Despejada, UnaSesion
<1>6. QED
  BY <1>4, <1>5 DEF UnaSesion

-----------------------------------------------------------------------------
(* The four queues *)

LEMMA MasSuyas ==
    ASSUME NEW q, EsSec(q), NEW n, Suyas(q, n), NEW m, Quien(m) \in {0, -1, n}
    PROVE  Suyas(Append(q, m), n)
<1> DEFINE c == Append(q, m)
           l == Len(q)
<1>1. /\ l \in Nat /\ DOMAIN q = 1..l /\ DOMAIN c = 1..l + 1 /\ c[l + 1] = m
      /\ \A j \in DOMAIN q : j \in DOMAIN c /\ c[j] = q[j]
      /\ \A j \in DOMAIN c : j \in DOMAIN q \/ j = l + 1
  BY EsSecMas
<1> HIDE DEF c, l
<1>2. Suyas(c, n)
  BY <1>1 DEF Suyas
<1>3. QED
  BY <1>2 DEF c

LEMMA MenosSuyas ==
    ASSUME NEW q, EsSec(q), q # <<>>, NEW n, Suyas(q, n)
    PROVE  Suyas(Tail(q), n) /\ Quien(Head(q)) \in {0, -1, n}
<1> DEFINE c == Tail(q)
           l == Len(q)
           h == Head(q)
<1>1. /\ l \in Nat \ {0} /\ DOMAIN q = 1..l /\ h = q[1]
      /\ \A j \in DOMAIN c : j + 1 \in DOMAIN q /\ c[j] = q[j + 1]
  BY EsSecMenos
<1>2. 1 \in DOMAIN q
  BY <1>1
<1> HIDE DEF c, l, h
<1>3. Suyas(c, n) /\ Quien(h) \in {0, -1, n}
  BY <1>1, <1>2 DEF Suyas
<1>4. QED
  BY <1>3 DEF c, h

\* The writes that were asked for, with one request more or less.
Escritos(a, n) == \A j \in DOMAIN a : a[j].t = "PUT" => a[j].id = n /\ n # 0 /\ DOMAIN a[j].s = 1..2
EscritoDe(m, n) == m.t = "PUT" => m.id = n /\ n # 0 /\ DOMAIN m.s = 1..2

LEMMA MasEscritos ==
    ASSUME NEW a, EsSec(a), NEW n, Escritos(a, n), NEW m, EscritoDe(m, n)
    PROVE  Escritos(Append(a, m), n)
<1> DEFINE c == Append(a, m)
           l == Len(a)
<1>1. /\ DOMAIN c = 1..l + 1 /\ c[l + 1] = m
      /\ \A j \in DOMAIN a : j \in DOMAIN c /\ c[j] = a[j]
      /\ \A j \in DOMAIN c : j \in DOMAIN a \/ j = l + 1
  BY EsSecMas
<1> HIDE DEF c, l
<1>2. Escritos(c, n)
  BY <1>1 DEF Escritos, EscritoDe
<1>3. QED
  BY <1>2 DEF c

LEMMA MenosEscritos ==
    ASSUME NEW a, EsSec(a), a # <<>>, NEW n, Escritos(a, n)
    PROVE  Escritos(Tail(a), n) /\ EscritoDe(Head(a), n)
<1> DEFINE c == Tail(a)
           l == Len(a)
           h == Head(a)
<1>1. /\ l \in Nat \ {0} /\ DOMAIN a = 1..l /\ h = a[1]
      /\ \A j \in DOMAIN c : j + 1 \in DOMAIN a /\ c[j] = a[j + 1]
  BY EsSecMenos
<1>2. 1 \in DOMAIN a
  BY <1>1
<1> HIDE DEF c, l, h
<1>3. Escritos(c, n) /\ EscritoDe(h, n)
  BY <1>1, <1>2 DEF Escritos, EscritoDe
<1>4. QED
  BY <1>3 DEF c, h

\* The head of a queue goes: if it was of n, n has nothing on its way.
Saca(p, d, a, r, p1, d1, a1, r1, h, n) ==
    /\ Colas(p1, d1, a1, r1, n) /\ Quien(h) \in {0, -1, n}
    /\ n # 0 /\ Quien(h) = n => Viaja(p, d, a, r, n) /\ ~Viaja(p1, d1, a1, r1, n)
    /\ Viaja(p1, d1, a1, r1, n) => Viaja(p, d, a, r, n)

LEMMA SacaP ==
    ASSUME NEW p, NEW d, NEW a, NEW r, NEW n, Colas(p, d, a, r, n), EsSec(p), p # <<>>
    PROVE  Saca(p, d, a, r, Tail(p), d, a, r, Head(p), n)
<1>1. Suyas(Tail(p), n) /\ Quien(Head(p)) \in {0, -1, n}
  BY MenosSuyas DEF Colas
<1>2. /\ HayDe(p, n) <=> HayDe(Tail(p), n) \/ Quien(Head(p)) = n
      /\ UnoDe(p, n) => UnoDe(Tail(p), n) /\ ~(HayDe(Tail(p), n) /\ Quien(Head(p)) = n)
  BY MenosDe
<1>4. Colas(Tail(p), d, a, r, n)
  BY <1>1, <1>2 DEF Colas, UnoViaja
<1>5. QED
  BY <1>1, <1>2, <1>4 DEF Saca, Colas, UnoViaja, Viaja

LEMMA PonP ==
    ASSUME NEW p, NEW d, NEW a, NEW r, NEW n, Colas(p, d, a, r, n), EsSec(p), NEW m, Quien(m) \in {0, -1, n},
           n # 0 /\ Quien(m) = n => ~Viaja(p, d, a, r, n)
    PROVE  /\ Colas(Append(p, m), d, a, r, n)
           /\ Viaja(Append(p, m), d, a, r, n) <=> Viaja(p, d, a, r, n) \/ Quien(m) = n
<1>1. Suyas(Append(p, m), n)
  BY MasSuyas DEF Colas
<1>2. /\ HayDe(Append(p, m), n) <=> HayDe(p, n) \/ Quien(m) = n
      /\ UnoDe(Append(p, m), n) <=> UnoDe(p, n) /\ ~(HayDe(p, n) /\ Quien(m) = n)
  BY MasDe
<1>4. Colas(Append(p, m), d, a, r, n)
  BY <1>1, <1>2 DEF Colas, UnoViaja, Viaja
<1>5. QED
  BY <1>2, <1>4 DEF Viaja

LEMMA SacaD ==
    ASSUME NEW p, NEW d, NEW a, NEW r, NEW n, Colas(p, d, a, r, n), EsSec(d), d # <<>>
    PROVE  Saca(p, d, a, r, p, Tail(d), a, r, Head(d), n)
<1>1. Suyas(Tail(d), n) /\ Quien(Head(d)) \in {0, -1, n}
  BY MenosSuyas DEF Colas
<1>2. /\ HayDe(d, n) <=> HayDe(Tail(d), n) \/ Quien(Head(d)) = n
      /\ UnoDe(d, n) => UnoDe(Tail(d), n) /\ ~(HayDe(Tail(d), n) /\ Quien(Head(d)) = n)
  BY MenosDe
<1>4. Colas(p, Tail(d), a, r, n)
  BY <1>1, <1>2 DEF Colas, UnoViaja
<1>5. QED
  BY <1>1, <1>2, <1>4 DEF Saca, Colas, UnoViaja, Viaja

LEMMA PonD ==
    ASSUME NEW p, NEW d, NEW a, NEW r, NEW n, Colas(p, d, a, r, n), EsSec(d), NEW m, Quien(m) \in {0, -1, n},
           n # 0 /\ Quien(m) = n => ~Viaja(p, d, a, r, n)
    PROVE  /\ Colas(p, Append(d, m), a, r, n)
           /\ Viaja(p, Append(d, m), a, r, n) <=> Viaja(p, d, a, r, n) \/ Quien(m) = n
<1>1. Suyas(Append(d, m), n)
  BY MasSuyas DEF Colas
<1>2. /\ HayDe(Append(d, m), n) <=> HayDe(d, n) \/ Quien(m) = n
      /\ UnoDe(Append(d, m), n) <=> UnoDe(d, n) /\ ~(HayDe(d, n) /\ Quien(m) = n)
  BY MasDe
<1>4. Colas(p, Append(d, m), a, r, n)
  BY <1>1, <1>2 DEF Colas, UnoViaja, Viaja
<1>5. QED
  BY <1>2, <1>4 DEF Viaja

LEMMA SacaA ==
    ASSUME NEW p, NEW d, NEW a, NEW r, NEW n, Colas(p, d, a, r, n), EsSec(a), a # <<>>
    PROVE  Saca(p, d, a, r, p, d, Tail(a), r, Head(a), n) /\ EscritoDe(Head(a), n)
<1>1. Suyas(Tail(a), n) /\ Quien(Head(a)) \in {0, -1, n}
  BY MenosSuyas DEF Colas
<1>2. /\ HayDe(a, n) <=> HayDe(Tail(a), n) \/ Quien(Head(a)) = n
      /\ UnoDe(a, n) => UnoDe(Tail(a), n) /\ ~(HayDe(Tail(a), n) /\ Quien(Head(a)) = n)
  BY MenosDe
<1>3. Escritos(Tail(a), n) /\ EscritoDe(Head(a), n)
  BY MenosEscritos DEF Colas, Escritos
<1>4. Colas(p, d, Tail(a), r, n)
  BY <1>1, <1>2, <1>3 DEF Colas, UnoViaja, Escritos
<1>5. QED
  BY <1>1, <1>2, <1>3, <1>4 DEF Saca, Colas, UnoViaja, Viaja

LEMMA PonA ==
    ASSUME NEW p, NEW d, NEW a, NEW r, NEW n, Colas(p, d, a, r, n), EsSec(a), NEW m, Quien(m) \in {0, -1, n},
           n # 0 /\ Quien(m) = n => ~Viaja(p, d, a, r, n), EscritoDe(m, n)
    PROVE  /\ Colas(p, d, Append(a, m), r, n)
           /\ Viaja(p, d, Append(a, m), r, n) <=> Viaja(p, d, a, r, n) \/ Quien(m) = n
<1>1. Suyas(Append(a, m), n)
  BY MasSuyas DEF Colas
<1>2. /\ HayDe(Append(a, m), n) <=> HayDe(a, n) \/ Quien(m) = n
      /\ UnoDe(Append(a, m), n) <=> UnoDe(a, n) /\ ~(HayDe(a, n) /\ Quien(m) = n)
  BY MasDe
<1>3. Escritos(Append(a, m), n)
  <2>1. Escritos(a, n)
    BY DEF Colas, Escritos
  <2>2. QED
    BY <2>1, MasEscritos
<1>4. Colas(p, d, Append(a, m), r, n)
  BY <1>1, <1>2, <1>3 DEF Colas, UnoViaja, Viaja, Escritos
<1>5. QED
  BY <1>2, <1>4 DEF Viaja

LEMMA SacaR ==
    ASSUME NEW p, NEW d, NEW a, NEW r, NEW n, Colas(p, d, a, r, n), EsSec(r), r # <<>>
    PROVE  Saca(p, d, a, r, p, d, a, Tail(r), Head(r), n)
<1>1. Suyas(Tail(r), n) /\ Quien(Head(r)) \in {0, -1, n}
  BY MenosSuyas DEF Colas
<1>2. /\ HayDe(r, n) <=> HayDe(Tail(r), n) \/ Quien(Head(r)) = n
      /\ UnoDe(r, n) => UnoDe(Tail(r), n) /\ ~(HayDe(Tail(r), n) /\ Quien(Head(r)) = n)
  BY MenosDe
<1>4. Colas(p, d, a, Tail(r), n)
  BY <1>1, <1>2 DEF Colas, UnoViaja
<1>5. QED
  BY <1>1, <1>2, <1>4 DEF Saca, Colas, UnoViaja, Viaja

LEMMA PonR ==
    ASSUME NEW p, NEW d, NEW a, NEW r, NEW n, Colas(p, d, a, r, n), EsSec(r), NEW m, Quien(m) \in {0, -1, n},
           n # 0 /\ Quien(m) = n => ~Viaja(p, d, a, r, n)
    PROVE  /\ Colas(p, d, a, Append(r, m), n)
           /\ Viaja(p, d, a, Append(r, m), n) <=> Viaja(p, d, a, r, n) \/ Quien(m) = n
<1>1. Suyas(Append(r, m), n)
  BY MasSuyas DEF Colas
<1>2. /\ HayDe(Append(r, m), n) <=> HayDe(r, n) \/ Quien(m) = n
      /\ UnoDe(Append(r, m), n) <=> UnoDe(r, n) /\ ~(HayDe(r, n) /\ Quien(m) = n)
  BY MasDe
<1>4. Colas(p, d, a, Append(r, m), n)
  BY <1>1, <1>2 DEF Colas, UnoViaja, Viaja
<1>5. QED
  BY <1>2, <1>4 DEF Viaja

\* A request that nobody waits for changes nothing of what travels.
LEMMA AnotaColas ==
    ASSUME NEW p, NEW d, NEW a, NEW r, NEW n, Colas(p, d, a, r, n), EsSec(p), NEW q, Anota(p, q)
    PROVE  /\ Colas(q, d, a, r, n) /\ EsSec(q)
           /\ n # 0 => (Viaja(q, d, a, r, n) <=> Viaja(p, d, a, r, n))
<1>1. CASE q = p
  BY <1>1
<1>2. CASE \E m : q = Append(p, m) /\ Quien(m) = 0
  <2>1. PICK m : q = Append(p, m) /\ Quien(m) = 0
    BY <1>2
  <2>2. Quien(m) \in {0, -1, n} /\ (n # 0 => Quien(m) # n)
    BY <2>1
  <2>3. Colas(Append(p, m), d, a, r, n) /\ (Viaja(Append(p, m), d, a, r, n) <=> Viaja(p, d, a, r, n) \/ Quien(m) = n)
    BY <2>2, PonP
  <2>4. EsSec(Append(p, m))
    BY EsSecMas
  <2>5. QED
    BY <2>1, <2>2, <2>3, <2>4
<1>3. QED
  BY <1>1, <1>2 DEF Anota

\* What a handler sends keeps the queues.
LEMMA EnviaColas ==
    ASSUME NEW e, NEW d, NEW r, NEW n, NEW k, Despejada(e, d, r, n, k), NEW id \in {0, n},
           NEW x, Envia(e, x, k, id)
    PROVE  Colas(x.aSfs, d, x.aDa, r, n)
<1> DEFINE p == e.aSfs
           a == e.aDa
<1>1. /\ Colas(p, d, a, r, n) /\ EsSec(p) /\ EsSec(a) /\ n # 0 /\ ~Viaja(p, d, a, r, n)
      /\ e.fds[k].id = n
  BY DEF Despejada, EsTodo, EsSes
<1>2. CASE x.aDa = a /\ Anota(p, x.aSfs)
  BY <1>1, <1>2, AnotaColas
<1>3. CASE x.aDa = a /\ \E m : x.aSfs = Append(p, m) /\ Quien(m) = id
  <2>1. PICK m : x.aSfs = Append(p, m) /\ Quien(m) = id
    BY <1>3
  <2>2. Quien(m) \in {0, -1, n}
    BY <2>1
  <2> HIDE DEF p, a
  <2>3. Colas(Append(p, m), d, a, r, n)
    BY <1>1, <2>2, PonP
  <2>4. QED
    BY <1>3, <2>1, <2>3
<1>4. CASE Anota(p, x.aSfs) /\ \E m : x.aDa = Append(a, m) /\ PedidoDa(e, x, k, m, id)
  <2>1. PICK m : x.aDa = Append(a, m) /\ PedidoDa(e, x, k, m, id)
    BY <1>4
  <2>2. Quien(m) \in {0, -1, n} /\ EscritoDe(m, n)
    BY <1>1, <2>1 DEF PedidoDa, EscritoDe
  <2> HIDE DEF p, a
  <2>3. Colas(x.aSfs, d, a, r, n) /\ ~Viaja(x.aSfs, d, a, r, n)
    BY <1>1, <1>4, AnotaColas
  <2>4. Colas(x.aSfs, d, Append(a, m), r, n)
    BY <1>1, <2>2, <2>3, PonA
  <2>5. QED
    BY <2>1, <2>4
<1>5. QED
  BY <1>2, <1>3, <1>4 DEF Envia

\* Without a message of n, no read is of a descriptor.
LEMMA SinLecturas ==
    ASSUME NEW q, NEW n, Suyas(q, n), ~HayDe(q, n), NEW f, \A k \in DOMAIN f : f[k].id \in 1..n,
           NEW j \in DOMAIN q, q[j].t = "GET", NEW k \in DOMAIN f, n \in Nat
    PROVE  f[k].id # q[j].id
<1>1. Quien(q[j]) = q[j].id
  BY DEF Quien
<1>2. q[j].id \in {0, -1}
  BY <1>1 DEF Suyas, HayDe
<1>3. QED
  BY <1>2

LEMMA EnviaPedidos ==
    ASSUME NEW e, NEW d, NEW r, NEW n, NEW k, Despejada(e, d, r, n, k), NEW id \in {0, n},
           NEW x, Envia(e, x, k, id), MismasFichas(e.fds, x.fds)
    PROVE  Pedidos(x.fds, x.aDa)
<1> DEFINE f == x.fds
           a == e.aDa
<1>1. /\ Suyas(a, n) /\ ~HayDe(a, n) /\ EsSec(a) /\ n \in Nat \ {0} /\ UnFd(f, n) /\ k \in DOMAIN f /\ f[k].id = n
      /\ \A i \in DOMAIN f : f[i].id \in 1..n
  <2>1. Suyas(a, n) /\ ~HayDe(a, n) /\ EsSec(a) /\ n \in Nat \ {0}
    BY DEF Despejada, EsTodo, EsSes, Colas, Viaja
  <2>2. UnaSesion(e.cl, e.ped, f, n) /\ UnFd(f, n)
    BY MismasSesion DEF Despejada, Quietos
  <2>3. k \in DOMAIN f /\ f[k].id = n
    BY DEF Despejada, MismasFichas
  <2>4. QED
    BY <2>1, <2>2, <2>3 DEF UnaSesion
<1> HIDE DEF f, a
<1>2. ASSUME NEW j \in DOMAIN a, a[j].t = "GET", NEW i \in DOMAIN f PROVE f[i].id # a[j].id
  BY <1>1, <1>2, SinLecturas
<1>3. CASE x.aDa = a
  BY <1>2, <1>3 DEF Pedidos, f
<1>4. CASE \E m : x.aDa = Append(a, m) /\ PedidoDa(e, x, k, m, id)
  <2>1. PICK m : x.aDa = Append(a, m) /\ PedidoDa(e, x, k, m, id)
    BY <1>4
  <2>2. m.t = "GET" => m.id = id /\ DOMAIN m.s = 1..2 /\ f[k].s = m.s
    BY <2>1 DEF PedidoDa, f
  <2>3. PICK b : b = Append(a, m)
    OBVIOUS
  <2>4. PICK l : l = Len(a)
    OBVIOUS
  <2>5. /\ b[l + 1] = m
        /\ \A j \in DOMAIN a : j \in DOMAIN b /\ b[j] = a[j]
        /\ \A j \in DOMAIN b : j \in DOMAIN a \/ j = l + 1
    BY <1>1, <2>3, <2>4, EsSecMas
  <2>6. ASSUME NEW j \in DOMAIN b, b[j].t = "GET", NEW i \in DOMAIN f, f[i].id = b[j].id
        PROVE  DOMAIN b[j].s = 1..2 /\ f[i].s = b[j].s
    <3>1. j = l + 1
      BY <1>2, <2>5, <2>6
    <3>2. b[j] = m
      BY <2>5, <3>1
    <3>3. m.id = id /\ f[i].id = id
      BY <2>2, <2>6, <3>2
    <3>4. id = n
      <4>1. f[i].id \in 1..n /\ 0 \notin 1..n
        BY <1>1
      <4>2. QED
        BY <3>3, <4>1
    <3>5. i = k
      BY <1>1, <3>3, <3>4 DEF UnFd
    <3>6. QED
      BY <2>2, <2>6, <3>2, <3>5
  <2>7. Pedidos(f, b)
    BY <2>6 DEF Pedidos
  <2>8. QED
    BY <2>1, <2>3, <2>7 DEF f
<1>5. QED
  BY <1>3, <1>4 DEF Envia, a

LEMMA SinTraer ==
    ASSUME NEW n, n \in Nat, NEW f, \A k \in DOMAIN f : f[k].id \in 1..n, NEW r, Suyas(r, n), ~HayDe(r, n), NEW w
    PROVE  Traidos(f, r, w)
<1>1. ASSUME NEW j \in DOMAIN r, r[j].t = "GET", NEW k \in DOMAIN f PROVE f[k].id # r[j].id
  BY <1>1, SinLecturas
<1>2. QED
  BY <1>1 DEF Traidos

LEMMA SinPedir ==
    ASSUME NEW n, n \in Nat, NEW f, \A k \in DOMAIN f : f[k].id \in 1..n, NEW a, Suyas(a, n), ~HayDe(a, n)
    PROVE  Pedidos(f, a)
<1>1. ASSUME NEW j \in DOMAIN a, a[j].t = "GET", NEW k \in DOMAIN f PROVE f[k].id # a[j].id
  BY <1>1, SinLecturas
<1>2. QED
  BY <1>1 DEF Pedidos

\* A handler leaves one session and its messages as they should be.
LEMMA EfectoMarcha ==
    ASSUME NEW e, NEW d, NEW r, NEW n, NEW k, Despejada(e, d, r, n, k), NEW id \in {0, n},
           NEW x, Efecto(e, x, k, id), NEW w
    PROVE  Marcha(x, d, r, w, n)
<1>1. /\ n \in Nat \ {0} /\ Suyas(e.aDa, n) /\ Suyas(r, n) /\ ~HayDe(e.aDa, n) /\ ~HayDe(r, n)
      /\ Colas(e.aSfs, d, e.aDa, r, n) /\ ~Viaja(e.aSfs, d, e.aDa, r, n)
  BY DEF Despejada, Colas, Viaja
<1>2. CASE Encarga(e, x, k, id)
  <2>1. /\ x.cl = e.cl /\ x.ped = e.ped /\ MismasFichas(e.fds, x.fds) /\ Envia(e, x, k, id)
    BY <1>2 DEF Encarga
  <2>2. UnaSesion(x.cl, x.ped, x.fds, n) /\ Quietos(x.cl, x.ped, x.fds, n)
    BY <2>1, MismasSesion DEF Despejada, Quietos
  <2>3. Colas(x.aSfs, d, x.aDa, r, n)
    BY <2>1, EnviaColas
  <2>4. Pedidos(x.fds, x.aDa)
    BY <2>1, EnviaPedidos
  <2>5. Traidos(x.fds, r, w)
    BY <1>1, <2>2, SinTraer DEF UnaSesion
  <2>6. QED
    BY <2>2, <2>3, <2>4, <2>5 DEF Marcha, UnMensaje
<1>3. CASE Oye(e, x, e.fds[k].sock) \/ Sale(e, x, e.fds[k].sock)
  <2>1. x.aSfs = e.aSfs /\ x.aDa = e.aDa
    BY <1>3 DEF Oye, Sale
  <2>2. UnaSesion(x.cl, x.ped, x.fds, n)
    BY <1>3, OyeSesion, SaleSesion
  <2>3. UnMensaje(x.cl, x.ped, x.fds, x.aSfs, d, x.aDa, r, n)
    BY <1>1, <2>1 DEF UnMensaje
  <2>4. Pedidos(x.fds, x.aDa) /\ Traidos(x.fds, r, w)
    <3>1. \A j \in DOMAIN x.fds : x.fds[j].id \in 1..n
      BY <2>2 DEF UnaSesion
    <3>2. QED
      BY <1>1, <2>1, <3>1, SinTraer, SinPedir
  <2>5. QED
    BY <2>2, <2>3, <2>4 DEF Marcha
<1>4. QED
  BY <1>2, <1>3 DEF Efecto

-----------------------------------------------------------------------------
(* The cache, the disk and the writes that were asked for *)

\* A valid entry has what the disk has; those of a write on its way are invalid.
Fiel(q, d) == \A n \in DOMAIN q : q[n].ok => q[n].s \in Sectores /\ q[n].v = d[q[n].s]
Invalidas(q, a) ==
    \A j \in DOMAIN a : a[j].t = "PUT" => DOMAIN a[j].s = 1..2 /\ Invalidada(q, a[j].s)
SinCache(q) == ~HayCache => q = <<>>
Guardado(e, w) == /\ Fiel(e.cache, w) /\ Invalidas(e.cache, e.aDa) /\ SinCache(e.cache)

\* The answer m is not of a read, or it is what the disk has, and nothing is being written.
Trae(e, k, m, w) ==
    m.t = "GET" => /\ \A i \in 1..2 : e.fds[k].s[i] \in Sectores /\ m.v[i] = w[e.fds[k].s[i]]
                   /\ \A j \in DOMAIN e.aDa : e.aDa[j].t # "PUT"

LEMMA AlmacenaGuarda ==
    ASSUME NEW e, EsTodo(e), e.cant \in Nat, NEW w, Guardado(e, w), NEW k, NEW m, Trae(e, k, m, w),
           NEW x, Almacena(e, x, k, m)
    PROVE  Fiel(x.cache, w) /\ Invalidas(x.cache, e.aDa) /\ SinCache(x.cache) /\ x.cant \in Nat
<1>1. ASSUME NEW n \in DOMAIN x.cache, x.cache[n].ok
      PROVE  /\ x.cache[n].s \in Sectores /\ x.cache[n].v = w[x.cache[n].s]
             /\ \A j \in DOMAIN e.aDa : e.aDa[j].t = "PUT" => x.cache[n].s \notin Conjunto(e.aDa[j].s)
  <2>1. CASE Viene(e.cache, x.cache[n].s, x.cache[n].v)
    <3>1. PICK j \in DOMAIN e.cache : e.cache[j].ok /\ e.cache[j].s = x.cache[n].s /\ e.cache[j].v = x.cache[n].v
      BY <2>1 DEF Viene
    <3>2. QED
      BY <3>1 DEF Guardado, Fiel, Invalidas, Invalidada
  <2>2. CASE Traida(e, x, k, m, x.cache[n].s, x.cache[n].v)
    BY <2>2 DEF Traida, Trae
  <2>3. QED
    BY <1>1, <2>1, <2>2 DEF Almacena
<1>2. Fiel(x.cache, w)
  BY <1>1 DEF Fiel
<1>3. Invalidas(x.cache, e.aDa)
  BY <1>1 DEF Invalidas, Invalidada, Guardado
<1>4. QED
  BY <1>2, <1>3 DEF Almacena, SinCache, Guardado

LEMMA EfectoGuarda ==
    ASSUME NEW e, EsTodo(e), e.cant \in Nat, NEW w, Guardado(e, w), NEW k, NEW m, Trae(e, k, m, w),
           NEW id, NEW x, Efecto(e, x, k, id), Almacena(e, x, k, m)
    PROVE  EsTodo(x) /\ Guardado(x, w) /\ x.cant \in Nat
<1>1. Fiel(x.cache, w) /\ Invalidas(x.cache, e.aDa) /\ SinCache(x.cache) /\ x.cant \in Nat
  BY AlmacenaGuarda
<1>2. EsTodo(x)
  BY DEF Efecto, Encarga, Oye, Sale
<1>3. Invalidas(x.cache, x.aDa)
  <2>1. CASE x.aDa = e.aDa
    BY <1>1, <2>1
  <2>2. CASE \E r : x.aDa = Append(e.aDa, r) /\ PedidoDa(e, x, k, r, id)
    <3>1. PICK r : x.aDa = Append(e.aDa, r) /\ PedidoDa(e, x, k, r, id)
      BY <2>2
    <3>2. Cabal(e)
      BY DEF Cabal, Guardado, SinCache
    <3>3. r.t = "PUT" => DOMAIN r.s = 1..2 /\ Invalidada(x.cache, r.s)
      BY <3>1, <3>2 DEF PedidoDa
    <3>4. EsSec(e.aDa)
      BY DEF EsTodo, EsSes
    <3>5. PICK a : a = e.aDa
      OBVIOUS
    <3>6. PICK l : l = Len(a)
      OBVIOUS
    <3>7. /\ Append(a, r)[l + 1] = r
          /\ \A j \in DOMAIN a : Append(a, r)[j] = a[j]
          /\ \A j \in DOMAIN Append(a, r) : j \in DOMAIN a \/ j = l + 1
      BY <3>4, <3>5, <3>6, EsSecMas
    <3>8. x.aDa = Append(a, r) /\ Invalidas(x.cache, a)
      BY <1>1, <3>1, <3>5
    <3>9. QED
      BY <3>3, <3>7, <3>8 DEF Invalidas
  <2>3. QED
    BY <2>1, <2>2 DEF Efecto, Encarga, Envia, Oye, Sale
<1>4. QED
  BY <1>1, <1>2, <1>3 DEF Guardado

LEMMA SerenaGuarda ==
    ASSUME NEW e, NEW x, Serena(e, x), NEW w, Guardado(e, w)
    PROVE  EsTodo(x) /\ Guardado(x, w) /\ x.cant = e.cant
BY DEF Serena, Muda, MismaCache, Guardado

\* What does not send or tell anything leaves the session and the messages.
LEMMA SerenaMarcha ==
    ASSUME NEW e, NEW x, Serena(e, x), NEW d, NEW r, NEW w, NEW n, Marcha(e, d, r, w, n), x.fds = e.fds
    PROVE  Marcha(x, d, r, w, n)
BY DEF Serena, Muda, Marcha

-----------------------------------------------------------------------------
(* The invariant *)

\* What the property speaks of; and what holds then.
Solas == ~solapado /\ culpas \intersect {"victima", "consola"} = {}
Fieles ==
    /\ EsFichas(fds) /\ EsClientes(cl) /\ EsSec(aDa) /\ EsCache(cache)
    /\ Fiel(cache, disco) /\ Invalidas(cache, aDa) /\ SinCache(cache) /\ RtasSolas(deSfs)
    /\ Corriente(vsk) =>
         /\ cant \in Nat
         /\ UnaSesion(cl, ped, fds, cuenta.s)
         /\ UnMensaje(cl, ped, fds, aSfs, deSfs, aDa, deDa, cuenta.s)
         /\ Pedidos(fds, aDa) /\ Traidos(fds, deDa, disco)
InvFieles == Cuenta /\ (Solas => Fieles)

\* What the property speaks of was so before a step that leaves it so.
LEMMA SolasAntes ==
    ASSUME InvCuentas, InvFieles, Solas', solapado' = solapado, \A q \in culpas : q \in culpas'
    PROVE  Formas /\ Solas /\ Fieles
BY DEF InvCuentas, InvFieles, Solas

\* It is what the invariant says.
LEMMA FielesCache ==
    ASSUME InvFieles
    PROVE  CacheFiel
BY DEF InvFieles, Solas, Fieles, Fiel, CacheFiel

\* What a handler may leave.
Queda(x, d, r, w, n) ==
    /\ EsTodo(x) /\ Guardado(x, w)
    /\ Corriente(x.vsk) => x.cant \in Nat /\ Marcha(x, d, r, w, n)

\* What a step of the VSK finds, and what it has to leave.
LEMMA EstadoFiel ==
    ASSUME Formas, Fieles
    PROVE  /\ EsTodo(EstadoVsk) /\ EstadoVsk.fds = fds /\ EstadoVsk.cl = cl /\ EstadoVsk.ped = ped
           /\ EstadoVsk.aSfs = aSfs /\ EstadoVsk.aDa = aDa /\ EstadoVsk.vsk = vsk
           /\ EstadoVsk.culpas = culpas /\ EstadoVsk.cant = cant
           /\ EsSec(aSfs) /\ EsSec(deSfs) /\ EsSec(aDa) /\ EsSec(deDa)
           /\ Queda(EstadoVsk, deSfs, deDa, disco, cuenta.s)
<1> DEFINE e == EstadoVsk
<1>1. EsVsk(e)
  BY EstadoEs
<1>2. /\ e.fds = fds /\ e.cl = cl /\ e.ped = ped /\ e.aSfs = aSfs /\ e.aDa = aDa /\ e.vsk = vsk
      /\ e.culpas = culpas /\ e.cache = cache /\ e.cant = cant
  BY DEF EstadoVsk
<1> HIDE DEF e
<1>3. EsTodo(e)
  BY <1>1, <1>2 DEF EsTodo, EsSes, Fieles
<1>4. Guardado(e, disco)
  BY <1>2 DEF Guardado, Fieles
<1>5. Corriente(e.vsk) => e.cant \in Nat /\ Marcha(e, deSfs, deDa, disco, cuenta.s)
  BY <1>2 DEF Marcha, Fieles
<1>6. EsSec(aSfs) /\ EsSec(deSfs) /\ EsSec(aDa) /\ EsSec(deDa)
  BY DEF Formas, Fieles
<1>7. QED
  BY <1>2, <1>3, <1>4, <1>5, <1>6 DEF Queda, e

LEMMA DejaFieles ==
    ASSUME NEW x, Aplica(x), Queda(x, deSfs', deDa', disco', cuenta'.s), RtasSolas(deSfs')
    PROVE  Fieles'
<1>1. /\ vsk' = x.vsk /\ fds' = x.fds /\ cl' = x.cl /\ ped' = x.ped /\ aSfs' = x.aSfs /\ aDa' = x.aDa
      /\ cache' = x.cache /\ cant' = x.cant
  BY DEF Aplica
<1>2. EsFichas(fds') /\ EsClientes(cl') /\ EsSec(aDa') /\ EsCache(cache')
  BY <1>1 DEF Queda, EsTodo, EsSes
<1>3. Fiel(cache', disco') /\ Invalidas(cache', aDa') /\ SinCache(cache')
  BY <1>1 DEF Queda, Guardado
<1>4. Corriente(vsk') =>
         /\ cant' \in Nat
         /\ UnaSesion(cl', ped', fds', cuenta'.s)
         /\ UnMensaje(cl', ped', fds', aSfs', deSfs', aDa', deDa', cuenta'.s)
         /\ Pedidos(fds', aDa') /\ Traidos(fds', deDa', disco')
  BY <1>1 DEF Queda, Marcha
<1>5. QED
  BY <1>2, <1>3, <1>4 DEF Fieles


-----------------------------------------------------------------------------
(* An answer is taken *)

\* The answer m was the first of d or of r, of which d1 and r1 are left.
Tomada(e, d, r, w, n, d1, r1, m) ==
    /\ EsTodo(e) /\ EsSec(e.aSfs) /\ n \in Nat /\ e.cant \in Nat /\ Guardado(e, w)
    /\ Marcha(e, d, r, w, n) /\ Saca(e.aSfs, d, e.aDa, r, e.aSfs, d1, e.aDa, r1, m, n)
    /\ Traidos(e.fds, r1, w)

\* It is of n, whose message it was.
LEMMA TomaSuya ==
    ASSUME NEW e, NEW d, NEW r, NEW w, NEW n, NEW d1, NEW r1, NEW m, Tomada(e, d, r, w, n, d1, r1, m),
           NEW k \in DOMAIN e.fds, e.fds[k].id = m.id, Quien(m) = m.id
    PROVE  Despejada(e, d1, r1, n, k) /\ m.id = n
<1>1. e.fds[k].id \in 1..n
  BY DEF Tomada, Marcha, UnaSesion
<1>2. Quien(m) \in {0, -1, n} /\ n \in Nat
  BY DEF Tomada, Saca
<1>3. m.id = n /\ n \in Nat \ {0}
  BY <1>1, <1>2
<1>4. Viaja(e.aSfs, d, e.aDa, r, n) /\ ~Viaja(e.aSfs, d1, e.aDa, r1, n) /\ Colas(e.aSfs, d1, e.aDa, r1, n)
  BY <1>3 DEF Tomada, Saca
<1>5. Quietos(e.cl, e.ped, e.fds, n)
  BY <1>3, <1>4 DEF Tomada, Marcha, UnMensaje
<1>6. QED
  BY <1>3, <1>4, <1>5 DEF Tomada, Despejada, Marcha

LEMMA TomaSigue ==
    ASSUME NEW e, NEW d, NEW r, NEW w, NEW n, NEW d1, NEW r1, NEW m, Tomada(e, d, r, w, n, d1, r1, m),
           NEW k \in DOMAIN e.fds, e.fds[k].id = m.id, Quien(m) = m.id, Trae(e, k, m, w),
           NEW x, Efecto(e, x, k, m.id), Almacena(e, x, k, m)
    PROVE  Queda(x, d1, r1, w, n)
<1>1. Despejada(e, d1, r1, n, k) /\ m.id = n
  BY TomaSuya
<1>2. m.id \in {0, n}
  BY <1>1
<1>3. Marcha(x, d1, r1, w, n)
  BY <1>1, <1>2, EfectoMarcha
<1>4. EsTodo(e) /\ e.cant \in Nat /\ Guardado(e, w)
  BY DEF Tomada
<1>5. EsTodo(x) /\ Guardado(x, w) /\ x.cant \in Nat
  BY <1>4, EfectoGuarda
<1>6. QED
  BY <1>3, <1>5 DEF Queda

\* It is of nobody.
LEMMA TomaNadie ==
    ASSUME NEW e, NEW d, NEW r, NEW w, NEW n, NEW d1, NEW r1, NEW m, Tomada(e, d, r, w, n, d1, r1, m),
           NEW x, Serena(e, x), x.fds = e.fds
    PROVE  Queda(x, d1, r1, w, n)
<1>1. Colas(e.aSfs, d1, e.aDa, r1, n)
      /\ (Viaja(e.aSfs, d1, e.aDa, r1, n) => Viaja(e.aSfs, d, e.aDa, r, n))
  BY DEF Tomada, Saca
<1>2. Marcha(e, d1, r1, w, n)
  BY <1>1 DEF Tomada, Marcha, UnMensaje
<1>3. Marcha(x, d1, r1, w, n)
  BY <1>2, SerenaMarcha
<1>4. EsTodo(x) /\ Guardado(x, w) /\ x.cant = e.cant
  BY SerenaGuarda DEF Tomada
<1>5. QED
  BY <1>3, <1>4 DEF Queda, Tomada

\* It stops the VSK.
LEMMA TomaPara ==
    ASSUME NEW e, NEW d, NEW r, NEW w, NEW n, NEW d1, NEW r1, NEW m, Tomada(e, d, r, w, n, d1, r1, m),
           m.t # "GET", NEW k, NEW x, Efecto(e, x, k, m.id), Almacena(e, x, k, m), ~Corriente(x.vsk)
    PROVE  Queda(x, d1, r1, w, n)
<1>1. EsTodo(e) /\ e.cant \in Nat /\ Guardado(e, w) /\ Trae(e, k, m, w)
  BY DEF Tomada, Trae
<1>2. EsTodo(x) /\ Guardado(x, w)
  BY <1>1, EfectoGuarda
<1>3. QED
  BY <1>2 DEF Queda

\* What was read is what the disk has, and nothing is being written.
LEMMA TraidosMenos ==
    ASSUME NEW f, NEW r, EsSec(r), r # <<>>, NEW w, Traidos(f, r, w)
    PROVE  /\ Traidos(f, Tail(r), w)
           /\ Head(r).t = "GET" =>
                \A k \in DOMAIN f : f[k].id = Head(r).id =>
                    \A i \in 1..2 : f[k].s[i] \in Sectores /\ Head(r).v[i] = w[f[k].s[i]]
<1> DEFINE t == Tail(r)
<1>1. /\ 1 \in DOMAIN r /\ Head(r) = r[1]
      /\ \A j \in DOMAIN t : j + 1 \in DOMAIN r /\ t[j] = r[j + 1]
  BY EsSecMenos
<1>2. Head(r).t = "GET" =>
         \A k \in DOMAIN f : f[k].id = Head(r).id =>
             \A i \in 1..2 : f[k].s[i] \in Sectores /\ Head(r).v[i] = w[f[k].s[i]]
  BY <1>1 DEF Traidos
<1> HIDE DEF t
<1>3. Traidos(f, t, w)
  BY <1>1 DEF Traidos
<1>4. QED
  BY <1>2, <1>3 DEF t

LEMMA SinEscrituras ==
    ASSUME NEW p, NEW d, NEW a, NEW r, NEW n, Colas(p, d, a, r, n), n # 0,
           HayDe(p, n) \/ HayDe(d, n) \/ HayDe(r, n)
    PROVE  \A j \in DOMAIN a : a[j].t # "PUT"
<1> SUFFICES ASSUME NEW j \in DOMAIN a, a[j].t = "PUT" PROVE FALSE
  OBVIOUS
<1>1. a[j].id = n /\ Quien(a[j]) = a[j].id
  BY DEF Colas, Quien
<1>2. HayDe(a, n)
  BY <1>1 DEF HayDe
<1>3. QED
  BY <1>2 DEF Colas, UnoViaja

LEMMA DesfasaMisma ==
    ASSUME NEW e, EsTodo(e), NEW x, x = e \/ x = Desfasa(e)
    PROVE  x.fds = e.fds
<1>1. DOMAIN e = Campos
  BY DEF EsTodo, EsSes, EsVsk
<1>2. QED
  BY <1>1 DEF Desfasa, Fin, Campos

\* An answer of the DA.
LEMMA DaTomada ==
    ASSUME NEW e, EsTodo(e), EsSec(e.aSfs), NEW d, NEW r, EsSec(r), r # <<>>, NEW w, NEW n \in Nat,
           Queda(e, d, r, w, n), Corriente(e.vsk)
    PROVE  /\ Tomada(e, d, r, w, n, d, Tail(r), Head(r))
           /\ \A k \in DOMAIN e.fds : e.fds[k].id = Head(r).id => Trae(e, k, Head(r), w)
<1>1. e.cant \in Nat /\ Guardado(e, w) /\ Marcha(e, d, r, w, n)
  BY DEF Queda
<1>2. Colas(e.aSfs, d, e.aDa, r, n) /\ Traidos(e.fds, r, w) /\ UnaSesion(e.cl, e.ped, e.fds, n)
  BY <1>1 DEF Marcha, UnMensaje
<1>3. Saca(e.aSfs, d, e.aDa, r, e.aSfs, d, e.aDa, Tail(r), Head(r), n)
  BY <1>2, SacaR
<1>4. /\ Traidos(e.fds, Tail(r), w)
      /\ Head(r).t = "GET" =>
            \A k \in DOMAIN e.fds : e.fds[k].id = Head(r).id =>
                \A i \in 1..2 : e.fds[k].s[i] \in Sectores /\ Head(r).v[i] = w[e.fds[k].s[i]]
  BY <1>2, TraidosMenos
<1>5. ASSUME NEW k \in DOMAIN e.fds, e.fds[k].id = Head(r).id, Head(r).t = "GET"
      PROVE  \A j \in DOMAIN e.aDa : e.aDa[j].t # "PUT"
  <2>1. e.fds[k].id \in 1..n
    BY <1>2 DEF UnaSesion
  <2>2. Quien(Head(r)) = Head(r).id
    BY <1>5 DEF Quien
  <2>3. Quien(Head(r)) \in {0, -1, n}
    BY <1>3 DEF Saca
  <2>4. Quien(Head(r)) = n /\ n # 0
    BY <1>5, <2>1, <2>2, <2>3
  <2>5. HayDe(r, n)
    BY <2>4, MenosDe
  <2>6. QED
    BY <1>2, <2>4, <2>5, SinEscrituras
<1>6. \A k \in DOMAIN e.fds : e.fds[k].id = Head(r).id => Trae(e, k, Head(r), w)
  BY <1>4, <1>5 DEF Trae
<1>7. QED
  BY <1>1, <1>3, <1>4, <1>6 DEF Tomada

LEMMA DaFieles ==
    ASSUME InvCuentas, InvFieles, VskDa, Solas'
    PROVE  Fieles'
<1> DEFINE m == Head(deDa)
           r == Tail(deDa)
           e == EstadoVsk
           n == cuenta.s
<1>1. /\ vsk = "atendiendo" /\ deDa # <<>> /\ deDa' = r /\ deSfs' = deSfs /\ cuenta' = cuenta
      /\ solapado' = solapado /\ disco' = disco
  BY DEF VskDa
<1>2. PICK x \in Respuesta(e, m) : Aplica(x)
  BY DEF VskDa
<1>3. Formas /\ Fieles
  BY <1>1, DaAparte, SolasAntes DEF Aparte
<1>4. /\ EsTodo(e) /\ EsSec(e.aSfs) /\ EsSec(deDa) /\ RtasSolas(deSfs) /\ e.vsk = "atendiendo"
      /\ n \in Nat /\ Queda(e, deSfs, deDa, disco, n)
  BY <1>1, <1>3, EstadoFiel DEF Fieles, InvFieles, Cuenta
<1>5. m.t \in {"GET", "GET1", "PUT", "CHS"}
  <2>1. Head(deDa) = deDa[1] /\ 1 \in DOMAIN deDa
    BY <1>1, <1>4, EsSecMenos
  <2>2. QED
    BY <1>3, <2>1 DEF Formas
<1>6. /\ Tomada(e, deSfs, deDa, disco, n, deSfs, r, m)
      /\ \A k \in DOMAIN e.fds : e.fds[k].id = m.id => Trae(e, k, m, disco)
  BY <1>1, <1>4, DaTomada DEF Corriente
<1>7. "victima" \notin x.culpas
  BY <1>2 DEF Solas, Aplica
<1> HIDE DEF m, e, n, r
<1>8. \/ Serena(e, x) /\ (x = e \/ x = Desfasa(e))
      \/ \E k \in DOMAIN e.fds : e.fds[k].id = m.id /\ Efecto(e, x, k, m.id) /\ Almacena(e, x, k, m)
  BY <1>2, <1>4, <1>5, <1>7, RespuestaEfecto
<1>9. Queda(x, deSfs, r, disco, n)
  <2>1. CASE Serena(e, x) /\ (x = e \/ x = Desfasa(e))
    <3>1. x.fds = e.fds
      BY <1>4, <2>1, DesfasaMisma
    <3>2. QED
      BY <1>6, <2>1, <3>1, TomaNadie
  <2>2. ASSUME NEW k \in DOMAIN e.fds, e.fds[k].id = m.id, Efecto(e, x, k, m.id), Almacena(e, x, k, m)
        PROVE  Queda(x, deSfs, r, disco, n)
    <3>1. CASE m.t = "CHS"
      <4>1. x = e \/ ~Corriente(x.vsk)
        BY <1>2, <1>4, <3>1, RespuestaChs
      <4>2. CASE x = e
        <5>1. Serena(e, x)
          BY <1>4, <4>2, SerenaMisma
        <5>2. QED
          BY <1>6, <4>2, <5>1, TomaNadie
      <4>3. CASE ~Corriente(x.vsk)
        BY <1>6, <2>2, <3>1, <4>3, TomaPara
      <4>4. QED
        BY <4>1, <4>2, <4>3
    <3>2. CASE m.t # "CHS"
      <4>1. Quien(m) = m.id
        BY <1>5, <3>2 DEF Quien
      <4>2. Trae(e, k, m, disco)
        BY <1>6, <2>2
      <4>3. QED
        BY <1>6, <2>2, <4>1, <4>2, TomaSigue
    <3>3. QED
      BY <3>1, <3>2
  <2>3. QED
    BY <1>8, <2>1, <2>2
<1>10. Queda(x, deSfs', deDa', disco', cuenta'.s) /\ RtasSolas(deSfs')
  BY <1>1, <1>4, <1>9 DEF n
<1>11. QED
  BY <1>2, <1>10, DejaFieles

\* An answer of the SFS.
LEMMA SfsTomada ==
    ASSUME NEW e, EsTodo(e), EsSec(e.aSfs), NEW d, NEW r, EsSec(d), d # <<>>, NEW w, NEW n \in Nat,
           Queda(e, d, r, w, n), Corriente(e.vsk)
    PROVE  Tomada(e, d, r, w, n, Tail(d), r, Head(d))
<1>1. e.cant \in Nat /\ Guardado(e, w) /\ Marcha(e, d, r, w, n)
  BY DEF Queda
<1>2. Colas(e.aSfs, d, e.aDa, r, n) /\ Traidos(e.fds, r, w)
  BY <1>1 DEF Marcha, UnMensaje
<1>3. Saca(e.aSfs, d, e.aDa, r, e.aSfs, Tail(d), e.aDa, r, Head(d), n)
  BY <1>2, SacaD
<1>4. QED
  BY <1>1, <1>2, <1>3 DEF Tomada

LEMMA CaeQueda ==
    ASSUME NEW x, NEW d, NEW r, NEW w, NEW n, Queda(x, d, r, w, n), NEW m, NEW z, z = CaeConPar(x, m)
    PROVE  Queda(z, d, r, w, n) /\ ("victima" \notin z.culpas => "victima" \notin x.culpas)
<1>1. z = x \/ z = Culpa(x, "caida")
  BY DEF CaeConPar
<1>2. CASE z = Culpa(x, "caida")
  <2>1. DOMAIN x = Campos
    BY DEF Queda, EsTodo, EsSes, EsVsk
  <2>2. /\ z.cl = x.cl /\ z.ped = x.ped /\ z.fds = x.fds /\ z.aSfs = x.aSfs /\ z.aDa = x.aDa
        /\ z.cache = x.cache /\ z.cant = x.cant /\ z.vsk = x.vsk /\ z.oft = x.oft /\ DOMAIN z = Campos
        /\ "victima" \notin z.culpas => "victima" \notin x.culpas
    BY <1>2, <2>1 DEF Culpa, Campos
  <2>3. EsTodo(z)
    BY <2>2 DEF Queda, EsTodo, EsSes, EsVsk
  <2>4. QED
    BY <2>2, <2>3 DEF Queda, Guardado, Marcha
<1>3. QED
  BY <1>1, <1>2

LEMMA CaeSinVictima ==
    ASSUME NEW x, DOMAIN x = Campos, NEW m, "victima" \notin CaeConPar(x, m).culpas
    PROVE  "victima" \notin x.culpas
BY DEF CaeConPar, Culpa, Campos

LEMMA SfsFieles ==
    ASSUME InvCuentas, InvFieles, VskSfs, Solas'
    PROVE  Fieles'
<1> DEFINE m == Head(deSfs)
           d == Tail(deSfs)
           e == EstadoVsk
           n == cuenta.s
<1>1. /\ vsk = "atendiendo" /\ deSfs # <<>> /\ deSfs' = d /\ deDa' = deDa /\ cuenta' = cuenta
      /\ solapado' = solapado /\ disco' = disco
  BY DEF VskSfs
<1>2. PICK x \in AtenderSfs(e, m) : Aplica(CaeConPar(x, m))
  BY DEF VskSfs
<1>3. Formas /\ Fieles
  BY <1>1, VskSfsAparte, SolasAntes DEF Aparte
<1>4. /\ EsTodo(e) /\ EsSec(e.aSfs) /\ EsSec(deSfs) /\ RtasSolas(deSfs) /\ e.vsk = "atendiendo"
      /\ n \in Nat /\ Queda(e, deSfs, deDa, disco, n)
  BY <1>1, <1>3, EstadoFiel DEF Fieles, InvFieles, Cuenta
<1>5. RtasSolas(d) /\ m.t \notin {"AGREGAR", "FORMATEAR", "GET"}
  BY <1>1, <1>4, RtasSolasMenos
<1>6. m.t = "DOS" => DOMAIN m.s = 1..2
  <2>1. Head(deSfs) = deSfs[1] /\ 1 \in DOMAIN deSfs
    BY <1>1, <1>4, EsSecMenos
  <2>2. m.t = "DOS" => m.s \in Pares
    BY <1>3, <2>1 DEF Formas
  <2>3. QED
    BY <2>2 DEF Pares
<1>7. Tomada(e, deSfs, deDa, disco, n, d, deDa, m)
  BY <1>1, <1>4, SfsTomada DEF Corriente
<1>8. PICK z : z = CaeConPar(x, m)
  OBVIOUS
<1>9. Aplica(z)
  BY <1>2, <1>8
<1> HIDE DEF m, e, n, d
<1>10. "victima" \notin x.culpas
  <2>1. "victima" \notin z.culpas
    BY <1>9 DEF Solas, Aplica
  <2>2. EsSes(e) /\ EsVsk(e)
    BY <1>4 DEF EsTodo, EsSes
  <2>3. AtiendeBien(e, m, x)
    BY <1>2, <1>4, <2>2, AtenderSfsBien
  <2>4. DOMAIN x = Campos
    BY <2>3 DEF AtiendeBien, Pasado, Pide, Igual, PideUno, EsVsk
  <2>5. QED
    BY <1>8, <2>1, <2>4, CaeSinVictima
<1>11. \/ Serena(e, x) /\ (x = e \/ x = Desfasa(e) \/ m.t = "FORMATEADO")
       \/ \E k \in DOMAIN e.fds : /\ e.fds[k].id = m.id /\ Efecto(e, x, k, m.id)
                                  /\ Almacena(e, x, k, m) /\ m.t # "FORMATEADO"
  BY <1>2, <1>4, <1>6, <1>10, AtenderSfsEfecto
<1>12. Queda(x, d, deDa, disco, n)
  <2>1. CASE Serena(e, x) /\ (x = e \/ x = Desfasa(e) \/ m.t = "FORMATEADO")
    <3>1. x.fds = e.fds
      <4>1. CASE x = e \/ x = Desfasa(e)
        BY <1>4, <4>1, DesfasaMisma
      <4>2. CASE m.t = "FORMATEADO"
        <5>1. x = [e EXCEPT !.con = "rota"]
          BY <1>2, <4>2 DEF AtenderSfs
        <5>2. DOMAIN e = Campos
          BY <1>4 DEF EsTodo, EsSes, EsVsk
        <5>3. QED
          BY <5>1, <5>2 DEF Campos
      <4>3. QED
        BY <2>1, <4>1, <4>2
    <3>2. QED
      BY <1>7, <2>1, <3>1, TomaNadie
  <2>2. ASSUME NEW k \in DOMAIN e.fds, e.fds[k].id = m.id, Efecto(e, x, k, m.id), Almacena(e, x, k, m),
               m.t # "FORMATEADO"
        PROVE  Queda(x, d, deDa, disco, n)
    <3>1. CASE m.t = "CHS"
      <4>1. x \in Respuesta(e, m)
        BY <1>2, <3>1 DEF AtenderSfs
      <4>2. x = e \/ ~Corriente(x.vsk)
        BY <1>4, <3>1, <4>1, RespuestaChs
      <4>3. CASE x = e
        <5>1. Serena(e, x)
          BY <1>4, <4>3, SerenaMisma
        <5>2. QED
          BY <1>7, <4>3, <5>1, TomaNadie
      <4>4. CASE ~Corriente(x.vsk)
        BY <1>5, <1>7, <2>2, <4>4, TomaPara
      <4>5. QED
        BY <4>2, <4>3, <4>4
    <3>2. CASE m.t # "CHS"
      <4>1. Quien(m) = m.id
        BY <1>5, <2>2, <3>2 DEF Quien
      <4>2. Trae(e, k, m, disco)
        BY <1>5 DEF Trae
      <4>3. QED
        BY <1>7, <2>2, <4>1, <4>2, TomaSigue
    <3>3. QED
      BY <3>1, <3>2
  <2>3. QED
    BY <1>11, <2>1, <2>2
<1>13. Queda(z, d, deDa, disco, n)
  BY <1>8, <1>12, CaeQueda
<1>14. Queda(z, deSfs', deDa', disco', cuenta'.s) /\ RtasSolas(deSfs')
  BY <1>1, <1>5, <1>13 DEF n
<1>15. QED
  BY <1>9, <1>14, DejaFieles

-----------------------------------------------------------------------------
(* A call begins *)

\* The one session, whose request is taken and whose descriptor is in f.
Atendible(cs, ps, f, n, c) ==
    /\ c \in Sockets /\ DOMAIN ps = Sockets
    /\ cs[c].est # "fuera" /\ cs[c].est \notin Ociosos /\ cs[c].id = n /\ n # 0
    /\ \A b \in Sockets \ {c} : cs[b].est = "fuera" /\ ps[b].t = Nada
    /\ \A k \in DOMAIN f : f[k].id \in 1..n
    /\ UnFd(f, n) /\ \E k \in DOMAIN f : SuFd(f, k, c, n)

LEMMA AtendibleSesion ==
    ASSUME NEW cs, NEW ps, NEW f, NEW n, NEW c, Atendible(cs, ps, f, n, c),
           NEW ps1, ps1 = [ps EXCEPT ![c] = NoLlamada]
    PROVE  UnaSesion(cs, ps1, f, n) /\ Quietos(cs, ps1, f, n)
<1>1. /\ c \in Sockets /\ ps1[c] = NoLlamada /\ NoLlamada.t = Nada
      /\ \A b \in Sockets : b # c => ps1[b] = ps[b]
  BY DEF Atendible, NoLlamada, Llamada
<1>2. \A b \in Sockets : ps1[b].t = Nada
  BY <1>1 DEF Atendible
<1>3. \A b \in Sockets : cs[b].est \notin Ociosos
  BY DEF Atendible, Ociosos
<1>4. \A b \in Sockets : cs[b].est # "fuera" => b = c
  BY DEF Atendible
<1>5. EnSuCurso(cs[c], ps1[c], f, n, c)
  <2>1. Nada \notin {"OPEN", "LIST"}
    BY DEF Nada
  <2>2. QED
    BY <1>1, <2>1 DEF EnSuCurso, Atendible
<1>6. \A b \in Sockets : IF cs[b].est = "fuera" THEN ps1[b].t = Nada
                         ELSE EnSuCurso(cs[b], ps1[b], f, n, b)
  BY <1>2, <1>4, <1>5
<1>7. \A k \in DOMAIN f : f[k].id \in 1..n
  BY DEF Atendible
<1>8. \A b, q \in Sockets : cs[b].est # "fuera" /\ cs[q].est # "fuera" => b = q
  BY <1>4
<1>9. UnaSesion(cs, ps1, f, n)
  BY <1>6, <1>7, <1>8 DEF UnaSesion
<1>10. QED
  BY <1>2, <1>3, <1>9 DEF Quietos, Atendible

\* Of the one session there is, what the VSK reads is a request of n.
LEMMA PorAtenderUna ==
    ASSUME NEW e, DOMAIN e.ped = Sockets, NEW d, NEW r, NEW w, NEW n, Marcha(e, d, r, w, n), n \in Nat,
           NEW c \in Sockets, e.ped[c].t # Nada
    PROVE  /\ n # 0 /\ e.ped[c].id \in {0, n}
           /\ Colas(e.aSfs, d, e.aDa, r, n) /\ ~Viaja(e.aSfs, d, e.aDa, r, n)
           /\ e.cl[c].est # "fuera" /\ e.cl[c].est \notin Ociosos /\ e.cl[c].id = n
           /\ \A b \in Sockets \ {c} : e.cl[b].est = "fuera" /\ e.ped[b].t = Nada
           /\ \A k \in DOMAIN e.fds : e.fds[k].id \in 1..n
           /\ IF e.ped[c].t \in {"OPEN", "LIST"} THEN e.ped[c].id = n /\ \A k \in DOMAIN e.fds : e.fds[k].id # n
              ELSE UnFd(e.fds, n) /\ \E k \in DOMAIN e.fds : SuFd(e.fds, k, c, n)
<1>1. UnaSesion(e.cl, e.ped, e.fds, n) /\ UnMensaje(e.cl, e.ped, e.fds, e.aSfs, d, e.aDa, r, n)
  BY DEF Marcha
<1>2. e.cl[c].est # "fuera" /\ EnSuCurso(e.cl[c], e.ped[c], e.fds, n, c)
  BY <1>1 DEF UnaSesion
<1>3. n # 0 /\ e.cl[c].id = n /\ e.cl[c].est \notin Ociosos /\ e.ped[c].id \in {0, n}
  BY <1>2 DEF EnSuCurso
<1>4. \A b \in Sockets \ {c} : e.cl[b].est = "fuera" /\ e.ped[b].t = Nada
  BY <1>1, <1>2 DEF UnaSesion
<1>5. ~Viaja(e.aSfs, d, e.aDa, r, n)
  BY <1>1, <1>3 DEF UnMensaje, Quietos
<1>6. IF e.ped[c].t \in {"OPEN", "LIST"} THEN e.ped[c].id = n /\ \A k \in DOMAIN e.fds : e.fds[k].id # n
      ELSE UnFd(e.fds, n) /\ \E k \in DOMAIN e.fds : SuFd(e.fds, k, c, n)
  BY <1>2 DEF EnSuCurso
<1>7. QED
  BY <1>1, <1>2, <1>3, <1>4, <1>5, <1>6 DEF UnMensaje, UnaSesion

\* A descriptor put at the head is the first of its socket.
AlFrente(f, g, h, n) ==
    /\ EsSec(f) /\ n \in Nat \ {0} /\ g.id = n /\ h = <<g>> \o f
    /\ \A k \in DOMAIN f : f[k].id \in 1..n /\ f[k].id # n

LEMMA PuestoAlFrente ==
    ASSUME NEW f, NEW g, NEW h, NEW n, AlFrente(f, g, h, n)
    PROVE  /\ 1 \in DOMAIN h /\ h[1].id = n /\ \A k \in DOMAIN h : h[k].id \in 1..n
           /\ UnFd(h, n) /\ \A c : g.sock = c => SuFd(h, 1, c, n)
<1>1. /\ EsSec(f) /\ n \in Nat \ {0} /\ g.id = n /\ h = <<g>> \o f
      /\ \A k \in DOMAIN f : f[k].id \in 1..n /\ f[k].id # n
  BY DEF AlFrente
<1>2. /\ 1 \in DOMAIN h /\ h[1] = g /\ \A j \in DOMAIN h : 1 <= j
      /\ \A j \in DOMAIN h : j # 1 => j - 1 \in DOMAIN f /\ h[j] = f[j - 1]
  <2>1. /\ 1 \in DOMAIN (<<g>> \o f) /\ (<<g>> \o f)[1] = g /\ \A j \in DOMAIN (<<g>> \o f) : 1 <= j
        /\ \A j \in DOMAIN (<<g>> \o f) : j # 1 => j - 1 \in DOMAIN f /\ (<<g>> \o f)[j] = f[j - 1]
    BY <1>1, PoneUno, Zenon
  <2>2. QED
    BY <1>1, <2>1
<1>3. \A j \in DOMAIN h : h[j].id = n => j = 1
  BY <1>1, <1>2
<1>4. n \in 1..n
  BY <1>1
<1>5. \A k \in DOMAIN h : h[k].id \in 1..n
  BY <1>1, <1>2, <1>4
<1>6. \A k \in DOMAIN h : 1 <= k
  BY <1>1, <1>2
<1>7. UnFd(h, n)
  BY <1>3 DEF UnFd
<1>8. QED
  BY <1>1, <1>2, <1>5, <1>6, <1>7 DEF SuFd

\* What the VSK has once it took the request of c.
SinPedido(E, e, c) ==
    /\ EsTodo(e) /\ e.cl = E.cl /\ e.ped = [E.ped EXCEPT ![c] = NoLlamada] /\ e.fds = E.fds
    /\ e.aSfs = E.aSfs /\ e.aDa = E.aDa /\ MismaCache(E, e) /\ e.vsk = E.vsk /\ e.culpas = E.culpas

LEMMA TomaPedido ==
    ASSUME NEW E, EsTodo(E), DOMAIN E.ped = Sockets, NEW c \in Sockets, NEW e, e = [E EXCEPT !.ped[c] = NoLlamada]
    PROVE  SinPedido(E, e, c)
<1>1. DOMAIN E = Campos /\ EsPed(E.ped)
  BY DEF EsTodo, EsSes, EsVsk
<1> DEFINE ps1 == [E.ped EXCEPT ![c] = NoLlamada]
<1>2. EsPed(ps1)
  BY <1>1 DEF EsPed, NoLlamada, Llamada
<1>3. e = [E EXCEPT !.ped = ps1]
  BY <1>1 DEF Campos
<1> HIDE DEF ps1
<1>4. /\ DOMAIN e = Campos /\ e.ped = ps1 /\ e.cl = E.cl /\ e.fds = E.fds /\ e.aSfs = E.aSfs
      /\ e.aDa = E.aDa /\ e.oft = E.oft /\ e.vsk = E.vsk /\ e.cache = E.cache /\ e.cant = E.cant
      /\ e.culpas = E.culpas
  BY <1>1, <1>3 DEF Campos
<1>5. EsTodo(e)
  BY <1>2, <1>4 DEF EsTodo, EsSes, EsVsk
<1>6. QED
  BY <1>4, <1>5 DEF SinPedido, MismaCache, ps1

\* The descriptor of c in e is k, and nothing of n travels.
LEMMA EmpiezaUna ==
    ASSUME NEW e, NEW d, NEW r, NEW w, NEW n, NEW k, Despejada(e, d, r, n, k), e.cant \in Nat, Guardado(e, w),
           NEW id \in {0, n}, NEW x, Efecto(e, x, k, id), MismaCache(e, x)
    PROVE  Queda(x, d, r, w, n)
<1>1. Marcha(x, d, r, w, n)
  BY EfectoMarcha
<1>2. PICK m : m.t = "CHS"
  <2>1. [t |-> "CHS"].t = "CHS"
    OBVIOUS
  <2>2. QED
    BY <2>1
<1>3. Almacena(e, x, k, m)
  BY MismaAlmacena
<1>4. Trae(e, k, m, w) /\ EsTodo(e)
  BY <1>2 DEF Trae, Despejada
<1>5. EsTodo(x) /\ Guardado(x, w) /\ x.cant \in Nat
  BY <1>3, <1>4, EfectoGuarda
<1>6. QED
  BY <1>1, <1>5 DEF Queda

\* A call of c begins: the VSK goes on with an effect on the descriptor of c.
LEMMA ClienteQueda ==
    ASSUME NEW E, EsTodo(E), E.vsk = "atendiendo", EsSec(E.aSfs), NEW d, NEW r, NEW w, NEW n \in Nat,
           Queda(E, d, r, w, n), NEW c \in Sockets, NEW m, m = E.ped[c], m.t # Nada,
           NEW e, SinPedido(E, e, c), NEW x \in AtenderCliente(e, c, m)
    PROVE  Queda(x, d, r, w, n)
<1>1. E.cant \in Nat /\ Marcha(E, d, r, w, n) /\ Guardado(E, w) /\ EsPed(E.ped)
  BY DEF Queda, Corriente, EsTodo, EsSes, EsVsk
<1>2. DOMAIN E.ped = Sockets
  BY <1>1 DEF EsPed
<1>3. /\ n # 0 /\ m.id \in {0, n}
      /\ Colas(E.aSfs, d, E.aDa, r, n) /\ ~Viaja(E.aSfs, d, E.aDa, r, n)
      /\ E.cl[c].est # "fuera" /\ E.cl[c].est \notin Ociosos /\ E.cl[c].id = n
      /\ \A b \in Sockets \ {c} : E.cl[b].est = "fuera" /\ E.ped[b].t = Nada
      /\ \A k \in DOMAIN E.fds : E.fds[k].id \in 1..n
      /\ IF m.t \in {"OPEN", "LIST"} THEN m.id = n /\ \A k \in DOMAIN E.fds : E.fds[k].id # n
         ELSE UnFd(E.fds, n) /\ \E k \in DOMAIN E.fds : SuFd(E.fds, k, c, n)
  BY <1>1, <1>2, PorAtenderUna
<1>4. /\ EsTodo(e) /\ e.cl = E.cl /\ e.ped = [E.ped EXCEPT ![c] = NoLlamada] /\ e.fds = E.fds
      /\ e.aSfs = E.aSfs /\ e.aDa = E.aDa /\ e.vsk = E.vsk /\ e.cant = E.cant /\ e.cache = E.cache
  BY DEF SinPedido, MismaCache
<1>5. e.cant \in Nat /\ Guardado(e, w) /\ n \in Nat \ {0}
  BY <1>1, <1>3, <1>4 DEF Guardado
<1>6. m.t \in {"OPEN", "LIST", "CLOSE", "READ", "WRITE"}
  BY <1>1 DEF EsPed, Llamadas
<1>7. CASE m.t \in {"OPEN", "LIST"}
  <2>1. PICK y : Puesto(e, y, m.id, c) /\ Efecto(y, x, 1, m.id) /\ MismaCache(y, x)
    BY <1>4, <1>7, NuevoEfecto
  <2>2. /\ EsTodo(y) /\ y.cl = E.cl /\ y.ped = e.ped /\ y.aSfs = E.aSfs /\ y.aDa = E.aDa
        /\ y.cant = e.cant /\ y.cache = e.cache
    BY <1>4, <2>1 DEF Puesto, MismaCache
  <2>3. PICK g : g.id = n /\ g.sock = c /\ y.fds = <<g>> \o E.fds
    BY <1>3, <1>4, <1>7, <2>1, SMTT(30) DEF Puesto
  <2>4. EsSec(E.fds)
    BY DEF EsTodo, EsSes, EsVsk, EsFichas
  <2>5. PICK h : h = y.fds
    OBVIOUS
  <2>6. /\ \A k \in DOMAIN E.fds : E.fds[k].id # n
        /\ \A k \in DOMAIN E.fds : E.fds[k].id \in 1..n
        /\ g.id = n /\ h = <<g>> \o E.fds
    BY <1>3, <1>7, <2>3, <2>5
  <2>7. /\ 1 \in DOMAIN h /\ h[1].id = n /\ \A k \in DOMAIN h : h[k].id \in 1..n
        /\ UnFd(h, n) /\ \A b : g.sock = b => SuFd(h, 1, b, n)
    <3>1. PICK f : f = E.fds
      OBVIOUS
    <3>2. /\ EsSec(f) /\ \A k \in DOMAIN f : f[k].id # n
          /\ \A k \in DOMAIN f : f[k].id \in 1..n
          /\ g.id = n /\ h = <<g>> \o f
      BY <2>4, <2>6, <3>1
    <3>3. AlFrente(f, g, h, n)
      BY <1>5, <3>2 DEF AlFrente
    <3>4. QED
      BY <3>3, PuestoAlFrente
  <2>8. Atendible(E.cl, E.ped, h, n, c)
    BY <1>2, <1>3, <2>3, <2>7 DEF Atendible
  <2>9. UnaSesion(E.cl, y.ped, h, n) /\ Quietos(E.cl, y.ped, h, n)
    BY <1>4, <2>2, <2>8, AtendibleSesion
  <2>10. Despejada(y, d, r, n, 1)
    BY <1>3, <1>5, <2>2, <2>5, <2>7, <2>9 DEF Despejada
  <2>11. y.cant \in Nat /\ Guardado(y, w)
    BY <1>4, <1>5, <2>2 DEF Guardado
  <2>12. QED
    BY <1>3, <2>1, <2>10, <2>11, EmpiezaUna
<1>8. CASE m.t \in {"CLOSE", "READ", "WRITE"}
  <2>1. UnFd(E.fds, n) /\ \E k \in DOMAIN E.fds : SuFd(E.fds, k, c, n)
    BY <1>3, <1>8
  <2>2. PICK k \in DOMAIN E.fds : SuFd(E.fds, k, c, n)
    BY <2>1
  <2>3. k = FdPorSocket(e, c) /\ e.fds[k].id = n
    BY <1>4, <2>2, SuPorSocket DEF SuFd, EsTodo
  <2>4. Atendible(E.cl, E.ped, E.fds, n, c)
    BY <1>2, <1>3, <2>1 DEF Atendible
  <2>5. UnaSesion(e.cl, e.ped, e.fds, n) /\ Quietos(e.cl, e.ped, e.fds, n)
    BY <1>4, <2>4, AtendibleSesion
  <2>6. Despejada(e, d, r, n, k)
    BY <1>3, <1>4, <1>5, <2>2, <2>3, <2>5 DEF Despejada
  <2>7. Efecto(e, x, k, m.id) /\ MismaCache(e, x)
    BY <1>4, <1>8, <2>2, <2>3, ViejoEfecto
  <2>8. QED
    BY <1>3, <1>5, <2>6, <2>7, EmpiezaUna
<1>9. QED
  BY <1>6, <1>7, <1>8

LEMMA ClienteFieles ==
    ASSUME InvCuentas, InvFieles, NEW c \in Sockets, VskCliente(c), Solas'
    PROVE  Fieles'
<1> DEFINE e == [EstadoVsk EXCEPT !.ped[c] = NoLlamada]
           m == ped[c]
           E == EstadoVsk
           n == cuenta.s
<1>1. /\ vsk = "atendiendo" /\ m.t # Nada /\ cuenta' = cuenta /\ deSfs' = deSfs /\ deDa' = deDa
      /\ solapado' = solapado /\ disco' = disco
  BY DEF VskCliente
<1>2. PICK x \in AtenderCliente(e, c, m) : Aplica(x)
  BY DEF VskCliente
<1>3. Formas /\ Fieles
  BY <1>1, ClienteAparte, SolasAntes DEF Aparte
<1>4. /\ EsTodo(E) /\ E.ped = ped /\ E.vsk = "atendiendo" /\ EsSec(E.aSfs) /\ n \in Nat
      /\ Queda(E, deSfs, deDa, disco, n) /\ RtasSolas(deSfs)
  BY <1>1, <1>3, EstadoFiel DEF Fieles, InvFieles, Cuenta
<1>5. DOMAIN E.ped = Sockets
  BY <1>4 DEF EsTodo, EsSes, EsVsk, EsPed
<1>6. e = [E EXCEPT !.ped[c] = NoLlamada] /\ m = E.ped[c]
  BY <1>4
<1> HIDE DEF e, m, E, n
<1>7. SinPedido(E, e, c)
  BY <1>4, <1>5, <1>6, TomaPedido
<1>8. Queda(x, deSfs, deDa, disco, n)
  BY <1>1, <1>2, <1>4, <1>6, <1>7, ClienteQueda
<1>9. Queda(x, deSfs', deDa', disco', cuenta'.s) /\ RtasSolas(deSfs')
  BY <1>1, <1>4, <1>8 DEF n
<1>10. QED
  BY <1>2, <1>9, DejaFieles

-----------------------------------------------------------------------------
(* What is lost, and the format *)

\* Nothing of what the invariant speaks of changes.
LEMMA SigueIgual ==
    ASSUME NEW e, NEW d, NEW r, NEW w, NEW n, Queda(e, d, r, w, n), Corriente(e.vsk),
           NEW x, Serena(e, x), x.fds = e.fds
    PROVE  Queda(x, d, r, w, n)
<1>1. e.cant \in Nat /\ Marcha(e, d, r, w, n) /\ Guardado(e, w)
  BY DEF Queda
<1>2. Marcha(x, d, r, w, n)
  BY <1>1, SerenaMarcha
<1>3. EsTodo(x) /\ Guardado(x, w) /\ x.cant = e.cant
  BY <1>1, SerenaGuarda
<1>4. QED
  BY <1>1, <1>2, <1>3 DEF Queda

\* The session that was cut leaves.
LEMMA CortadoQueda ==
    ASSUME NEW e, EsTodo(e), e.vsk = "atendiendo", NEW d, NEW r, NEW w, NEW n, Queda(e, d, r, w, n),
           NEW c \in Sockets, e.cl[c].est # "fuera", NEW x, Sale(e, x, c), MismaCache(e, x), x.fds = e.fds
    PROVE  Queda(x, d, r, w, n)
<1>1. e.cant \in Nat /\ Marcha(e, d, r, w, n) /\ Guardado(e, w)
  BY DEF Queda, Corriente
<1>2. /\ EsTodo(x) /\ x.aSfs = e.aSfs /\ x.aDa = e.aDa
      /\ x.cl = [e.cl EXCEPT ![c] = Fuera] /\ x.ped = [e.ped EXCEPT ![c] = NoLlamada]
      /\ x.cache = e.cache /\ x.cant = e.cant
  BY DEF Sale, MismaCache
<1>3. DOMAIN e.cl = Sockets /\ DOMAIN e.ped = Sockets
  BY DEF EsTodo, EsSes, EsVsk, EsPed, EsClientes
<1>4. /\ x.cl[c].est = "fuera" /\ x.ped[c].t = Nada
      /\ \A b \in Sockets : b # c => x.cl[b] = e.cl[b] /\ x.ped[b] = e.ped[b]
  BY <1>2, <1>3 DEF Fuera, NoLlamada, Llamada
<1>5. /\ \A k \in DOMAIN e.fds : e.fds[k].id \in 1..n
      /\ \A b \in Sockets : b # c => e.cl[b].est = "fuera"
      /\ \A b \in Sockets : e.cl[b].est = "fuera" => e.ped[b].t = Nada
  BY <1>1 DEF Marcha, UnaSesion
<1>6. \A b \in Sockets : x.cl[b].est = "fuera" /\ x.ped[b].t = Nada
  BY <1>4, <1>5
<1>7. UnaSesion(x.cl, x.ped, x.fds, n)
  BY <1>5, <1>6 DEF UnaSesion
<1>8. UnFd(e.fds, n) => Quietos(x.cl, x.ped, x.fds, n)
  BY <1>6 DEF Quietos, Ociosos
<1>9. UnMensaje(x.cl, x.ped, x.fds, x.aSfs, d, x.aDa, r, n)
  BY <1>1, <1>2, <1>8 DEF Marcha, UnMensaje, Quietos
<1>10. Marcha(x, d, r, w, n)
  BY <1>1, <1>2, <1>7, <1>9 DEF Marcha
<1>11. Guardado(x, w)
  BY <1>1, <1>2 DEF Guardado
<1>12. QED
  BY <1>1, <1>2, <1>10, <1>11 DEF Queda

LEMMA PierdeClienteFieles ==
    ASSUME InvCuentas, InvFieles, NEW c \in Sockets, VskPierdeCliente(c), Solas'
    PROVE  Fieles'
<1> DEFINE E == EstadoVsk
           n == cuenta.s
<1>1. PICK x : x = CierraSocket(E, c)
  OBVIOUS
<1>2. /\ vsk = "atendiendo" /\ cl[c].est = "cortado" /\ Aplica(x) /\ cuenta' = cuenta /\ deSfs' = deSfs
      /\ deDa' = deDa /\ solapado' = solapado /\ disco' = disco
  BY <1>1 DEF VskPierdeCliente
<1>3. Formas /\ Fieles
  BY <1>2, PierdeClienteAparte, SolasAntes DEF Aparte
<1>4. /\ EsTodo(E) /\ E.cl = cl /\ E.vsk = "atendiendo" /\ Queda(E, deSfs, deDa, disco, n) /\ RtasSolas(deSfs)
  BY <1>2, <1>3, EstadoFiel DEF Fieles
<1> HIDE DEF E, n
<1>5. Sale(E, x, c) /\ MismaCache(E, x) /\ x.fds = E.fds
  BY <1>1, <1>4, CierraSocketSale
<1>6. Queda(x, deSfs, deDa, disco, n)
  BY <1>2, <1>4, <1>5, CortadoQueda
<1>7. Queda(x, deSfs', deDa', disco', cuenta'.s) /\ RtasSolas(deSfs')
  BY <1>2, <1>4, <1>6 DEF n
<1>8. QED
  BY <1>2, <1>7, DejaFieles

\* A change of the process alone, of its connection or of what it remembers.
MismoResto(e, x) ==
    /\ DOMAIN x = Campos /\ x.cl = e.cl /\ x.ped = e.ped /\ x.fds = e.fds /\ x.aSfs = e.aSfs
    /\ x.aDa = e.aDa /\ x.oft = e.oft /\ x.cache = e.cache /\ x.cant = e.cant
    /\ \A q \in e.culpas : q \in x.culpas

LEMMA RestoSerena ==
    ASSUME NEW e, EsTodo(e), NEW x, MismoResto(e, x)
    PROVE  Serena(e, x) /\ x.fds = e.fds
<1>1. /\ DOMAIN x = Campos /\ x.cl = e.cl /\ x.ped = e.ped /\ x.fds = e.fds /\ x.aSfs = e.aSfs
      /\ x.aDa = e.aDa /\ x.oft = e.oft /\ x.cache = e.cache /\ x.cant = e.cant
      /\ \A q \in e.culpas : q \in x.culpas
  BY DEF MismoResto
<1>2. EsTodo(x)
  BY <1>1 DEF EsTodo, EsSes, EsVsk
<1>3. Recuerda(e, x)
  BY <1>1 DEF Recuerda
<1>4. MismasFichas(e.fds, x.fds)
  BY <1>1 DEF MismasFichas, EsTodo, EsSes
<1>5. QED
  BY <1>1, <1>2, <1>3, <1>4 DEF Serena, Muda, MismaCache

LEMMA PierdeSfsFieles ==
    ASSUME InvCuentas, InvFieles, VskPierdeSfs, Solas'
    PROVE  Fieles'
<1> DEFINE E == EstadoVsk
           n == cuenta.s
<1>1. PICK x : x = [E EXCEPT !.con = "no", !.aux = IF @ = "SFS" THEN "suelto" ELSE @]
  OBVIOUS
<1>2. /\ vsk = "atendiendo" /\ Aplica(x) /\ cuenta' = cuenta /\ deSfs' = deSfs
      /\ deDa' = deDa /\ solapado' = solapado /\ disco' = disco
  BY <1>1 DEF VskPierdeSfs
<1>3. Formas /\ Fieles
  BY <1>2, PierdeSfsAparte, SolasAntes DEF Aparte
<1>4. /\ EsTodo(E) /\ E.vsk = "atendiendo" /\ Queda(E, deSfs, deDa, disco, n) /\ RtasSolas(deSfs)
  BY <1>2, <1>3, EstadoFiel DEF Fieles
<1> HIDE DEF E, n
<1>5. DOMAIN E = Campos
  BY <1>4 DEF EsTodo, EsSes, EsVsk
<1>6. MismoResto(E, x)
  BY <1>1, <1>5 DEF Campos, MismoResto
<1>7. Serena(E, x) /\ x.fds = E.fds
  BY <1>4, <1>6, RestoSerena
<1>8. Queda(x, deSfs, deDa, disco, n)
  BY <1>4, <1>7, SigueIgual DEF Corriente
<1>9. Queda(x, deSfs', deDa', disco', cuenta'.s) /\ RtasSolas(deSfs')
  BY <1>2, <1>4, <1>8 DEF n
<1>10. QED
  BY <1>2, <1>9, DejaFieles

LEMMA FormatoSinSfsFieles ==
    ASSUME InvCuentas, InvFieles, FormatoSinSfs, Solas'
    PROVE  Fieles'
<1> DEFINE E == EstadoVsk
           n == cuenta.s
<1>1. PICK x : x = [E EXCEPT !.vsk = "atendiendo"]
  OBVIOUS
<1>2. /\ vsk = "espera formato" /\ Aplica(x) /\ cuenta' = cuenta /\ deSfs' = deSfs
      /\ deDa' = deDa /\ solapado' = solapado /\ disco' = disco
  BY <1>1 DEF FormatoSinSfs
<1>3. Formas /\ Fieles
  BY <1>2, FormatoSinSfsAparte, SolasAntes DEF Aparte
<1>4. /\ EsTodo(E) /\ E.vsk = "espera formato" /\ Queda(E, deSfs, deDa, disco, n) /\ RtasSolas(deSfs)
  BY <1>2, <1>3, EstadoFiel DEF Fieles
<1> HIDE DEF E, n
<1>5. DOMAIN E = Campos
  BY <1>4 DEF EsTodo, EsSes, EsVsk
<1>6. MismoResto(E, x)
  BY <1>1, <1>5 DEF Campos, MismoResto
<1>7. Serena(E, x) /\ x.fds = E.fds
  BY <1>4, <1>6, RestoSerena
<1>8. Queda(x, deSfs, deDa, disco, n)
  BY <1>4, <1>7, SigueIgual DEF Corriente
<1>9. Queda(x, deSfs', deDa', disco', cuenta'.s) /\ RtasSolas(deSfs')
  BY <1>2, <1>4, <1>8 DEF n
<1>10. QED
  BY <1>2, <1>9, DejaFieles

LEMMA FormatoVueltaFieles ==
    ASSUME InvCuentas, InvFieles, FormatoVuelta, Solas'
    PROVE  Fieles'
<1> DEFINE m == Head(deSfs)
           E == EstadoVsk
           n == cuenta.s
           d == Tail(deSfs)
           C == E.culpas \union (IF m.t = "FORMATEADO" THEN {} ELSE {"descartada"})
           e == [E EXCEPT !.vsk = "atendiendo",
                     !.culpas = @ \union (IF m.t = "FORMATEADO" THEN {} ELSE {"descartada"})]
           x == IF m.t \in ConPayload \union {"ERROR", "ERROR SOLO", "TEXTO"} THEN Desfasa(e) ELSE e
<1>1. /\ vsk = "espera formato" /\ deSfs # <<>> /\ deSfs' = d /\ deDa' = deDa /\ cuenta' = cuenta
      /\ Aplica(x) /\ solapado' = solapado /\ disco' = disco
  BY DEF FormatoVuelta
<1>2. Formas /\ Fieles
  BY <1>1, FormatoVueltaAparte, SolasAntes DEF Aparte
<1>3. /\ EsTodo(E) /\ E.vsk = "espera formato" /\ Queda(E, deSfs, deDa, disco, n) /\ RtasSolas(deSfs)
      /\ EsSec(E.aSfs) /\ EsSec(deSfs) /\ n \in Nat
  BY <1>1, <1>2, EstadoFiel DEF Fieles, InvFieles, Cuenta
<1>4. RtasSolas(d)
  BY <1>1, <1>3, RtasSolasMenos
<1>5. DOMAIN E = Campos /\ \A q \in E.culpas : q \in C
  BY <1>3 DEF EsTodo, EsSes, EsVsk
<1>6. e = [E EXCEPT !.vsk = "atendiendo", !.culpas = C]
  BY <1>5
<1>7. Tomada(E, deSfs, deDa, disco, n, d, deDa, m)
  BY <1>1, <1>3, SfsTomada DEF Corriente
<1> HIDE DEF E, e, C, d, n
<1>8. x = e \/ x = Desfasa(e)
  OBVIOUS
<1> HIDE DEF x, m
<1>9. MismoResto(E, e)
  BY <1>5, <1>6 DEF Campos, MismoResto
<1>10. Serena(E, e) /\ e.fds = E.fds
  BY <1>3, <1>9, RestoSerena
<1>11. Serena(E, x) /\ x.fds = E.fds
  <2>1. EsTodo(e)
    BY <1>10, SerenaEs
  <2>2. Serena(e, x)
    BY <1>8, <2>1, SerenaMisma, FinSerena
  <2>3. x.fds = e.fds
    BY <1>8, <2>1, DesfasaMisma
  <2>4. QED
    BY <1>10, <2>2, <2>3, SerenaSerena
<1>12. Queda(x, d, deDa, disco, n)
  BY <1>7, <1>11, TomaNadie
<1>13. Queda(x, deSfs', deDa', disco', cuenta'.s) /\ RtasSolas(deSfs')
  BY <1>1, <1>4, <1>12 DEF n
<1>14. QED
  BY <1>1, <1>13, DejaFieles

\* What the console leaves, if it does not speak with a client's DescriptorID.
Encargado(e, x) ==
    \/ Serena(e, x) /\ x.fds = e.fds
    \/ /\ EsTodo(x) /\ x.cl = e.cl /\ x.ped = e.ped /\ x.fds = e.fds /\ x.aSfs = e.aSfs
       /\ MismaCache(e, x)
       /\ \E g : g.t = "CHS" /\ x.aDa = Append(e.aDa, g)

LEMMA PideChsEncarga ==
    ASSUME NEW y, EsTodo(y), NEW z \in PideConsola(y, "CHS", <<>>, <<>>), NEW x, x = Fin(z, "espera CHS")
    PROVE  Encargado(y, x)
<1> DEFINE g == DePedido("CHS", ultId, <<>>, <<>>)
<1>1. DOMAIN y = Campos /\ EsSec(y.aDa) /\ EsVsk(y)
  BY DEF EsTodo, EsSes, EsVsk
<1>2. \/ z = y
      \/ z = [y EXCEPT !.aDa = Append(@, g)]
      \/ z = Fin(y, "muerta") /\ z.vsk # "muerta"
  <2>1. z = y \/ (z \in PideDa(y, "CHS", ultId, <<>>, <<>>) /\ z.vsk # "muerta")
    BY DEF PideConsola
  <2>2. QED
    BY <2>1 DEF PideDa
<1>3. Fin(y, "muerta").vsk = "muerta"
  BY <1>1, FinIleso
<1>4. g.t = "CHS"
  BY DEF DePedido
<1> HIDE DEF g
<1>5. CASE z = y
  <2>1. Serena(y, x)
    BY <1>5, FinSerena
  <2>2. x.fds = y.fds
    BY <1>1, <1>5 DEF Fin, Campos
  <2>3. QED
    BY <2>1, <2>2 DEF Encargado
<1>6. CASE z = [y EXCEPT !.aDa = Append(@, g)]
  <2>1. PICK a : a = Append(y.aDa, g)
    OBVIOUS
  <2>2. EsSec(a)
    BY <1>1, <2>1, EsSecMas
  <2>3. /\ DOMAIN z = Campos /\ z.cl = y.cl /\ z.ped = y.ped /\ z.fds = y.fds /\ z.aSfs = y.aSfs
        /\ z.aDa = a /\ z.oft = y.oft /\ z.cache = y.cache /\ z.cant = y.cant
    BY <1>1, <1>6, <2>1 DEF Campos
  <2>4. EsTodo(z)
    BY <2>2, <2>3 DEF EsTodo, EsSes, EsVsk
  <2>5. Serena(z, x)
    BY <2>4, FinSerena
  <2>6. x.fds = z.fds
    BY <2>3 DEF Fin, Campos
  <2>7. /\ EsTodo(x) /\ x.cl = y.cl /\ x.ped = y.ped /\ x.fds = y.fds /\ x.aSfs = y.aSfs
        /\ MismaCache(y, x) /\ x.aDa = Append(y.aDa, g)
    BY <2>1, <2>3, <2>5, <2>6 DEF Serena, Muda, MismaCache
  <2>8. \E h : h.t = "CHS" /\ x.aDa = Append(y.aDa, h)
    BY <1>4, <2>7
  <2>9. QED
    BY <2>7, <2>8 DEF Encargado
<1>7. QED
  BY <1>2, <1>3, <1>5, <1>6

LEMMA ComandoEncargado ==
    ASSUME NEW e, EsTodo(e), NEW t, t \in Comandos, NEW x \in Comando(e, t), "consola" \notin x.culpas
    PROVE  Encargado(e, x)
<1>1. PICK y \in Encuentra(e) :
         \/ x \in {IF y.aux = "DA" THEN [y EXCEPT !.montado = (t = "montar")] ELSE y}
         \/ x \in UNION {PideConsola(Culpa(y, "consola"), t, <<s, s>>, <<Vacio, Vacio>>) : s \in Sectores}
         \/ x \in PideConsola(Culpa(y, "consola"), t, <<>>, <<>>)
         \/ x \in {Fin(z, "espera CHS") : z \in PideConsola(y, "CHS", <<>>, <<>>)}
         \/ x = y
  BY VskAssumption, Zenon DEF Comando
<1>2. DOMAIN e = Campos
  BY DEF EsTodo, EsSes, EsVsk
<1>3. Serena(e, y) /\ y.fds = e.fds /\ EsTodo(y) /\ EsVsk(y) /\ DOMAIN y = Campos
  <2>1. y = [e EXCEPT !.aux = "DA"] \/ y = [e EXCEPT !.aux = "nulo"]
    BY DEF Encuentra
  <2>2. MismoResto(e, y)
    BY <1>2, <2>1 DEF MismoResto, Campos
  <2>3. Serena(e, y) /\ y.fds = e.fds
    BY <2>2, RestoSerena
  <2>4. EsTodo(y)
    BY <2>3, SerenaEs
  <2>5. QED
    BY <2>3, <2>4 DEF EsTodo, EsSes, EsVsk
<1> DEFINE c == Culpa(y, "consola")
<1>4. EsVsk(c) /\ "consola" \in c.culpas
  BY <1>3 DEF Culpa, EsVsk, Campos
<1> HIDE DEF c
<1>5. ASSUME NEW s, NEW v, x \in PideConsola(c, t, s, v) PROVE FALSE
  <2>1. Recuerda(c, x)
    BY <1>4, <1>5, PideDaIgual DEF PideConsola, Igual, Recuerda
  <2>2. QED
    BY <1>4, <2>1 DEF Recuerda
<1>6. CASE x \in {IF y.aux = "DA" THEN [y EXCEPT !.montado = (t = "montar")] ELSE y}
  <2>1. MismoResto(y, x)
    <3>1. x = y \/ x = [y EXCEPT !.montado = (t = "montar")]
      BY <1>6
    <3>2. QED
      BY <1>3, <3>1 DEF MismoResto, Campos
  <2>2. Serena(y, x) /\ x.fds = y.fds
    BY <1>3, <2>1, RestoSerena
  <2>3. Serena(e, x) /\ x.fds = e.fds
    BY <1>3, <2>2, SerenaSerena
  <2>4. QED
    BY <2>3 DEF Encargado
<1>7. CASE x \in UNION {PideConsola(c, t, <<s, s>>, <<Vacio, Vacio>>) : s \in Sectores}
  BY <1>5, <1>7
<1>8. CASE x \in PideConsola(c, t, <<>>, <<>>)
  BY <1>5, <1>8
<1>9. CASE x \in {Fin(z, "espera CHS") : z \in PideConsola(y, "CHS", <<>>, <<>>)}
  <2>1. PICK z \in PideConsola(y, "CHS", <<>>, <<>>) : x = Fin(z, "espera CHS")
    BY <1>9
  <2>2. Encargado(y, x)
    BY <1>3, <2>1, PideChsEncarga
  <2>3. CASE Serena(y, x) /\ x.fds = y.fds
    <3>1. Serena(e, x) /\ x.fds = e.fds
      BY <1>3, <2>3, SerenaSerena
    <3>2. QED
      BY <3>1 DEF Encargado
  <2>4. CASE /\ EsTodo(x) /\ x.cl = y.cl /\ x.ped = y.ped /\ x.fds = y.fds /\ x.aSfs = y.aSfs
             /\ MismaCache(y, x)
             /\ \E g : g.t = "CHS" /\ x.aDa = Append(y.aDa, g)
    <3>1. /\ y.cl = e.cl /\ y.ped = e.ped /\ y.aSfs = e.aSfs /\ y.aDa = e.aDa /\ MismaCache(e, y)
      BY <1>3 DEF Serena, Muda
    <3>2. MismaCache(e, x)
      BY <2>4, <3>1, MismaMisma
    <3>3. \E g : g.t = "CHS" /\ x.aDa = Append(e.aDa, g)
      BY <2>4, <3>1
    <3>4. QED
      BY <1>3, <2>4, <3>1, <3>2, <3>3 DEF Encargado
  <2>5. QED
    BY <2>2, <2>3, <2>4 DEF Encargado
<1>10. CASE x = y
  BY <1>3, <1>10 DEF Encargado
<1>11. QED
  BY <1>1, <1>6, <1>7, <1>8, <1>9, <1>10 DEF c

\* A request of the format, of nobody's.
LEMMA EncargadoQueda ==
    ASSUME NEW e, EsTodo(e), NEW d, NEW r, NEW w, NEW n \in Nat, Queda(e, d, r, w, n), Corriente(e.vsk),
           NEW x, EsTodo(x), x.cl = e.cl, x.ped = e.ped, x.fds = e.fds, x.aSfs = e.aSfs, MismaCache(e, x),
           NEW g, g.t = "CHS", x.aDa = Append(e.aDa, g)
    PROVE  Queda(x, d, r, w, n)
<1>1. e.cant \in Nat /\ Marcha(e, d, r, w, n) /\ Guardado(e, w) /\ EsSec(e.aDa)
  BY DEF Queda, EsTodo, EsSes
<1> DEFINE a == Append(e.aDa, g)
<1>2. Quien(g) = -1 /\ n # -1 /\ EscritoDe(g, n) /\ g.t \notin {"GET", "PUT"}
  BY DEF Quien, EscritoDe
<1>3. \A j \in DOMAIN a : a[j] = g \/ (j \in DOMAIN e.aDa /\ a[j] = e.aDa[j])
  BY <1>1, EsSecMas
<1> HIDE DEF a
<1>4. Colas(e.aSfs, d, e.aDa, r, n)
  BY <1>1 DEF Marcha, UnMensaje
<1>5. /\ Colas(e.aSfs, d, a, r, n)
      /\ Viaja(e.aSfs, d, a, r, n) <=> Viaja(e.aSfs, d, e.aDa, r, n) \/ Quien(g) = n
  BY <1>1, <1>2, <1>4, PonA DEF a
<1>6. Viaja(e.aSfs, d, a, r, n) => Viaja(e.aSfs, d, e.aDa, r, n)
  BY <1>2, <1>5
<1>7. x.aDa = a
  BY DEF a
<1>8. UnMensaje(x.cl, x.ped, x.fds, x.aSfs, d, x.aDa, r, n)
  BY <1>1, <1>5, <1>6, <1>7 DEF Marcha, UnMensaje
<1>9. Pedidos(x.fds, x.aDa)
  BY <1>1, <1>2, <1>3, <1>7 DEF Marcha, Pedidos
<1>10. Marcha(x, d, r, w, n)
  BY <1>1, <1>8, <1>9 DEF Marcha
<1>11. Invalidas(x.cache, x.aDa)
  BY <1>1, <1>2, <1>3, <1>7 DEF Guardado, Invalidas, MismaCache
<1>12. Guardado(x, w) /\ x.cant \in Nat
  BY <1>1, <1>11 DEF Guardado, MismaCache
<1>13. QED
  BY <1>10, <1>12 DEF Queda

LEMMA ConsolaFieles ==
    ASSUME InvCuentas, InvFieles, Consola, Solas'
    PROVE  Fieles'
<1> DEFINE e == EstadoVsk
           n == cuenta.s
<1>1. /\ vsk = "atendiendo" /\ deSfs' = deSfs /\ deDa' = deDa /\ cuenta' = [cuenta EXCEPT !.o = @ + 1]
      /\ \E t \in Comandos : \E x \in Comando(e, t) : Aplica(x)
      /\ solapado' = solapado /\ disco' = disco
  BY DEF Consola
<1>2. PICK t \in Comandos : \E x \in Comando(e, t) : Aplica(x)
  BY <1>1
<1>3. PICK x \in Comando(e, t) : Aplica(x)
  BY <1>2
<1>4. cuenta'.s = n /\ n \in Nat
  BY <1>1 DEF InvFieles, Cuenta
<1>5. Formas /\ Fieles
  BY <1>1, ConsolaAparte, SolasAntes DEF Aparte
<1>6. EsTodo(e) /\ e.vsk = "atendiendo" /\ Queda(e, deSfs, deDa, disco, n) /\ RtasSolas(deSfs)
  BY <1>1, <1>5, EstadoFiel DEF Fieles
<1>7. "consola" \notin x.culpas
  BY <1>3 DEF Solas, Aplica
<1> HIDE DEF e, n
<1>8. Encargado(e, x)
  BY <1>3, <1>6, <1>7, ComandoEncargado
<1>9. Corriente(e.vsk)
  BY <1>6 DEF Corriente
<1>10. Queda(x, deSfs, deDa, disco, n)
  <2>1. CASE Serena(e, x) /\ x.fds = e.fds
    BY <1>6, <1>9, <2>1, SigueIgual
  <2>2. ASSUME EsTodo(x), x.cl = e.cl, x.ped = e.ped, x.fds = e.fds, x.aSfs = e.aSfs,
               MismaCache(e, x), NEW g, g.t = "CHS", x.aDa = Append(e.aDa, g)
        PROVE  Queda(x, deSfs, deDa, disco, n)
    BY <1>4, <1>6, <1>9, <2>2, EncargadoQueda
  <2>3. QED
    BY <1>8, <2>1, <2>2 DEF Encargado
<1>11. Queda(x, deSfs', deDa', disco', cuenta'.s) /\ RtasSolas(deSfs')
  BY <1>1, <1>4, <1>6, <1>10
<1>12. QED
  BY <1>3, <1>11, DejaFieles

\* The format asks the SFS.
LEMMA SerenaSumada ==
    ASSUME NEW e, NEW y, Serena(e, y), NEW x, Sumada(y, x)
    PROVE  Sumada(e, x)
<1>1. /\ y.cl = e.cl /\ y.ped = e.ped /\ y.aSfs = e.aSfs /\ y.aDa = e.aDa /\ Recuerda(e, y)
      /\ MismasFichas(e.fds, y.fds)
  BY DEF Serena, Muda
<1>2. /\ EsTodo(x) /\ Recuerda(y, x) /\ x.cl = y.cl /\ x.ped = y.ped
      /\ MismasFichas(y.fds, x.fds) /\ x.aDa = y.aDa /\ Anota(y.aSfs, x.aSfs)
  BY DEF Sumada
<1>3. Recuerda(e, x)
  BY <1>1, <1>2 DEF Recuerda
<1>4. MismasFichas(e.fds, x.fds)
  BY <1>1, <1>2 DEF MismasFichas
<1>5. QED
  BY <1>1, <1>2, <1>3, <1>4 DEF Sumada

LEMMA FormatoSumada ==
    ASSUME NEW e, EsTodo(e), NEW id, NEW n, NEW x \in PideFormato(e, id, n)
    PROVE  Sumada(e, x) /\ MismaCache(e, x) /\ x.fds = e.fds
<1> DEFINE w == BuscaSfs(e)
           A == Luego({w}, LAMBDA y : PideSfs(y, "FORMATEAR", "-", id, Nada, <<n>>))
<1>1. PICK z \in A : x = Fin(z, "espera formato") \/ x = z
  BY DEF PideFormato, Luego
<1>2. z = w \/ z \in PideSfs(w, "FORMATEAR", "-", id, Nada, <<n>>)
  BY DEF Luego
<1> HIDE DEF A
<1>3. Serena(e, w) /\ w.fds = e.fds
  BY BuscaSfsSerena
<1>4. PICK u : u = w
  OBVIOUS
<1>5. Serena(e, u) /\ u.fds = e.fds /\ (z = u \/ z \in PideSfs(u, "FORMATEAR", "-", id, Nada, <<n>>))
  BY <1>2, <1>3, <1>4
<1> HIDE DEF w
<1>6. EsTodo(u) /\ MismaCache(e, u)
  BY <1>5, SerenaEs
<1>7. Sumada(u, z) /\ MismaCache(u, z) /\ z.fds = u.fds
  <2>1. CASE z = u
    BY <1>6, <2>1, SerenaMisma DEF Sumada, Serena, Muda, Anota
  <2>2. CASE z \in PideSfs(u, "FORMATEAR", "-", id, Nada, <<n>>)
    <3>1. Encarga(u, z, 0, 0) /\ MismaCache(u, z) /\ z.fds = u.fds /\ z.aDa = u.aDa /\ Anota(u.aSfs, z.aSfs)
      BY <1>6, <2>2, AgregarEncarga
    <3>2. QED
      BY <3>1 DEF Encarga, Sumada
  <2>3. QED
    BY <1>5, <2>1, <2>2
<1>8. EsTodo(z)
  BY <1>7 DEF Sumada
<1>9. Serena(z, x) /\ x.fds = z.fds
  <2>1. Serena(z, x)
    BY <1>1, <1>8, FinSerena, SerenaMisma
  <2>2. x.fds = z.fds
    BY <1>1, <1>8 DEF Fin, Campos, EsTodo, EsSes, EsVsk
  <2>3. QED
    BY <2>1, <2>2
<1>10. Sumada(u, x) /\ MismaCache(u, x)
  <2>1. Muda(z, x) /\ MismaCache(z, x)
    BY <1>9 DEF Serena
  <2>2. QED
    BY <1>7, <2>1, SumadaMuda, MismaMisma
<1>11. Sumada(e, x) /\ MismaCache(e, x)
  BY <1>5, <1>6, <1>10, SerenaSumada, MismaMisma
<1>12. QED
  BY <1>5, <1>7, <1>9, <1>11

\* What is taken is nobody's, and what is sent too.
LEMMA TomaSuma ==
    ASSUME NEW e, NEW d, NEW r, NEW w, NEW n, NEW d1, NEW r1, NEW m, Tomada(e, d, r, w, n, d1, r1, m),
           NEW x, Sumada(e, x), MismaCache(e, x), x.fds = e.fds
    PROVE  Queda(x, d1, r1, w, n)
<1>1. /\ Colas(e.aSfs, d1, e.aDa, r1, n)
      /\ Viaja(e.aSfs, d1, e.aDa, r1, n) => Viaja(e.aSfs, d, e.aDa, r, n)
      /\ EsSec(e.aSfs) /\ e.cant \in Nat /\ Guardado(e, w) /\ Traidos(e.fds, r1, w)
      /\ UnaSesion(e.cl, e.ped, e.fds, n)
      /\ UnMensaje(e.cl, e.ped, e.fds, e.aSfs, d, e.aDa, r, n) /\ Pedidos(e.fds, e.aDa)
  BY DEF Tomada, Saca, Marcha
<1>2. EsTodo(x) /\ x.cl = e.cl /\ x.ped = e.ped /\ x.aDa = e.aDa /\ Anota(e.aSfs, x.aSfs)
  BY DEF Sumada
<1>3. /\ Colas(x.aSfs, d1, e.aDa, r1, n)
      /\ n # 0 => (Viaja(x.aSfs, d1, e.aDa, r1, n) <=> Viaja(e.aSfs, d1, e.aDa, r1, n))
  BY <1>1, <1>2, AnotaColas
<1>4. UnMensaje(x.cl, x.ped, x.fds, x.aSfs, d1, x.aDa, r1, n)
  BY <1>1, <1>2, <1>3 DEF UnMensaje
<1>5. Marcha(x, d1, r1, w, n)
  BY <1>1, <1>2, <1>4 DEF Marcha
<1>6. Guardado(x, w) /\ x.cant \in Nat
  BY <1>1, <1>2 DEF Guardado, MismaCache
<1>7. QED
  BY <1>2, <1>5, <1>6 DEF Queda

LEMMA FormatoChsFieles ==
    ASSUME InvCuentas, InvFieles, FormatoChs, Solas'
    PROVE  Fieles'
<1> DEFINE m == Head(deDa)
           E == EstadoVsk
           r == Tail(deDa)
           C == E.culpas \union (IF m.t = "CHS" THEN {} ELSE {"descartada"})
           e == [E EXCEPT !.vsk = "atendiendo",
                     !.culpas = @ \union (IF m.t = "CHS" THEN {} ELSE {"descartada"})]
           q == IF m.t = "CHS" THEN NumSectores ELSE Otra
           id == m.id
           n == cuenta.s
<1>1. /\ vsk = "espera CHS" /\ deDa # <<>> /\ deDa' = r /\ deSfs' = deSfs /\ cuenta' = cuenta
      /\ \E y \in PideFormato(e, id, q) : Aplica(y)
      /\ solapado' = solapado /\ disco' = disco
  BY DEF FormatoChs, PideFormato
<1>2. PICK x \in PideFormato(e, id, q) : Aplica(x)
  BY <1>1
<1>3. Formas /\ Fieles
  BY <1>1, FormatoChsAparte, SolasAntes DEF Aparte
<1>4. /\ EsTodo(E) /\ E.vsk = "espera CHS" /\ Queda(E, deSfs, deDa, disco, n) /\ RtasSolas(deSfs)
      /\ EsSec(E.aSfs) /\ EsSec(deDa) /\ n \in Nat
  BY <1>1, <1>3, EstadoFiel DEF Fieles, InvFieles, Cuenta
<1>5. DOMAIN E = Campos /\ \A c \in E.culpas : c \in C
  BY <1>4 DEF EsTodo, EsSes, EsVsk
<1>6. e = [E EXCEPT !.vsk = "atendiendo", !.culpas = C]
  BY <1>5
<1>7. Tomada(E, deSfs, deDa, disco, n, deSfs, r, m)
  BY <1>1, <1>4, DaTomada DEF Corriente
<1> HIDE DEF E, e, C, r, m, n, q, id
<1>8. MismoResto(E, e)
  BY <1>5, <1>6 DEF Campos, MismoResto
<1>9. Serena(E, e) /\ e.fds = E.fds /\ EsTodo(e) /\ MismaCache(E, e)
  BY <1>4, <1>8, RestoSerena, SerenaEs
<1>10. Sumada(e, x) /\ MismaCache(e, x) /\ x.fds = e.fds
  BY <1>2, <1>9, FormatoSumada
<1>11. Sumada(E, x) /\ MismaCache(E, x) /\ x.fds = E.fds
  BY <1>9, <1>10, SerenaSumada, MismaMisma
<1>12. Queda(x, deSfs, r, disco, n)
  BY <1>7, <1>11, TomaSuma
<1>13. Queda(x, deSfs', deDa', disco', cuenta'.s) /\ RtasSolas(deSfs')
  BY <1>1, <1>4, <1>12 DEF n
<1>14. QED
  BY <1>2, <1>13, DejaFieles

-----------------------------------------------------------------------------
(* The SFS and the DA *)

\* Only the queues move, and what the disk has.
LEMMA ColasFieles ==
    ASSUME Fieles, UNCHANGED <<vsk, fds, cl, ped, cache, cant>>, cuenta'.s = cuenta.s, EsSec(aDa'),
           RtasSolas(deSfs'), Fiel(cache, disco'), Invalidas(cache, aDa'),
           Corriente(vsk) => /\ UnMensaje(cl, ped, fds, aSfs', deSfs', aDa', deDa', cuenta.s)
                             /\ Pedidos(fds, aDa') /\ Traidos(fds, deDa', disco')
    PROVE  Fieles'
<1>1. EsFichas(fds') /\ EsClientes(cl') /\ EsCache(cache') /\ SinCache(cache')
  BY DEF Fieles
<1>2. Fiel(cache', disco') /\ Invalidas(cache', aDa')
  OBVIOUS
<1>3. Corriente(vsk') =>
         /\ cant' \in Nat /\ UnaSesion(cl', ped', fds', cuenta'.s)
         /\ UnMensaje(cl', ped', fds', aSfs', deSfs', aDa', deDa', cuenta'.s)
         /\ Pedidos(fds', aDa') /\ Traidos(fds', deDa', disco')
  BY DEF Fieles
<1>4. QED
  BY <1>1, <1>2, <1>3 DEF Fieles

\* A queue is lost.
LEMMA VaciaSuyas ==
    ASSUME NEW n
    PROVE  Suyas(<<>>, n) /\ ~HayDe(<<>>, n) /\ UnoDe(<<>>, n) /\ DOMAIN <<>> = {} /\ EsSec(<<>>)
<1>1. DOMAIN <<>> = {} /\ EsSec(<<>>)
  BY ColaVacia DEF EsSec
<1>2. QED
  BY <1>1 DEF Suyas, HayDe, UnoDe

LEMMA PierdeP ==
    ASSUME NEW p, NEW d, NEW a, NEW r, NEW n, Colas(p, d, a, r, n)
    PROVE  /\ Colas(<<>>, d, a, r, n)
           /\ Viaja(<<>>, d, a, r, n) => Viaja(p, d, a, r, n)
<1> DEFINE z == <<>>
<1>1. Suyas(z, n) /\ ~HayDe(z, n) /\ UnoDe(z, n)
  BY VaciaSuyas
<1> HIDE DEF z
<1>2. /\ Colas(z, d, a, r, n)
      /\ Viaja(z, d, a, r, n) => Viaja(p, d, a, r, n)
  BY <1>1 DEF Colas, UnoViaja, Viaja
<1>3. QED
  BY <1>2 DEF z

LEMMA PierdeD ==
    ASSUME NEW p, NEW d, NEW a, NEW r, NEW n, Colas(p, d, a, r, n)
    PROVE  /\ Colas(p, <<>>, a, r, n)
           /\ Viaja(p, <<>>, a, r, n) => Viaja(p, d, a, r, n)
<1> DEFINE z == <<>>
<1>1. Suyas(z, n) /\ ~HayDe(z, n) /\ UnoDe(z, n)
  BY VaciaSuyas
<1> HIDE DEF z
<1>2. /\ Colas(p, z, a, r, n)
      /\ Viaja(p, z, a, r, n) => Viaja(p, d, a, r, n)
  BY <1>1 DEF Colas, UnoViaja, Viaja
<1>3. QED
  BY <1>2 DEF z

LEMMA PierdeA ==
    ASSUME NEW p, NEW d, NEW a, NEW r, NEW n, Colas(p, d, a, r, n)
    PROVE  /\ Colas(p, d, <<>>, r, n)
           /\ Viaja(p, d, <<>>, r, n) => Viaja(p, d, a, r, n)
<1> DEFINE z == <<>>
<1>1. Suyas(z, n) /\ ~HayDe(z, n) /\ UnoDe(z, n) /\ DOMAIN z = {}
  BY VaciaSuyas
<1> HIDE DEF z
<1>2. /\ Colas(p, d, z, r, n)
      /\ Viaja(p, d, z, r, n) => Viaja(p, d, a, r, n)
  BY <1>1 DEF Colas, UnoViaja, Viaja
<1>3. QED
  BY <1>2 DEF z

\* A request of the SFS is taken, with those that follow or alone; and answered.
LEMMA TomaP ==
    ASSUME NEW p, NEW d, NEW a, NEW r, NEW n, Colas(p, d, a, r, n), EsSec(p), p # <<>>,
           NEW q, q = <<>> \/ q = Tail(p)
    PROVE  /\ Colas(q, d, a, r, n) /\ Quien(Head(p)) \in {0, -1, n}
           /\ Viaja(q, d, a, r, n) => Viaja(p, d, a, r, n)
           /\ n # 0 /\ Quien(Head(p)) = n => Viaja(p, d, a, r, n) /\ ~Viaja(q, d, a, r, n)
<1> DEFINE t == Tail(p)
           h == Head(p)
<1>1. Saca(p, d, a, r, t, d, a, r, h, n)
  BY SacaP
<1> HIDE DEF t, h
<1>2. /\ Colas(t, d, a, r, n) /\ Quien(h) \in {0, -1, n}
      /\ n # 0 /\ Quien(h) = n => Viaja(p, d, a, r, n) /\ ~Viaja(t, d, a, r, n)
      /\ Viaja(t, d, a, r, n) => Viaja(p, d, a, r, n)
  BY <1>1 DEF Saca
<1>3. CASE q = t
  BY <1>2, <1>3 DEF h
<1>4. CASE q = <<>>
  <2>1. /\ Colas(q, d, a, r, n)
        /\ Viaja(q, d, a, r, n) => Viaja(t, d, a, r, n)
    BY <1>2, <1>4, PierdeP
  <2>2. QED
    BY <1>2, <2>1 DEF h
<1>5. QED
  BY <1>3, <1>4 DEF t

LEMMA ContestaP ==
    ASSUME NEW p, NEW d, NEW a, NEW r, NEW n \in Nat, Colas(p, d, a, r, n), EsSec(p), p # <<>>, EsSec(d),
           NEW q, q = <<>> \/ q = Tail(p), NEW g, Quien(g) = Quien(Head(p))
    PROVE  /\ Colas(q, Append(d, g), a, r, n)
           /\ n # 0 /\ Viaja(q, Append(d, g), a, r, n) => Viaja(p, d, a, r, n)
<1>1. /\ Colas(q, d, a, r, n) /\ Quien(g) \in {0, -1, n}
      /\ Viaja(q, d, a, r, n) => Viaja(p, d, a, r, n)
      /\ n # 0 /\ Quien(g) = n => Viaja(p, d, a, r, n) /\ ~Viaja(q, d, a, r, n)
  BY TomaP
<1>2. /\ Colas(q, Append(d, g), a, r, n)
      /\ Viaja(q, Append(d, g), a, r, n) <=> Viaja(q, d, a, r, n) \/ Quien(g) = n
  BY <1>1, PonD
<1>3. QED
  BY <1>1, <1>2

\* The SFS attends a request.
LEMMA SfsAtiendeFieles ==
    ASSUME InvCuentas, InvFieles, Sfs, Solas'
    PROVE  Fieles'
<1> DEFINE m == Head(aSfs)
           e == Estado
           n == cuenta.s
<1>1. /\ SfsAtiende /\ aSfs # <<>>
      /\ UNCHANGED <<vsk, fds, cl, ped, cache, cant, disco, cuenta, aDa, deDa, solapado>>
  BY DEF Sfs, SfsAtiende, varsVsk
<1>2. Formas
  BY DEF InvCuentas
<1>3. \A c \in culpas : c \in culpas'
  BY <1>1, <1>2, SfsDeja, SfsCuentas
<1>4. Fieles
  BY <1>1, <1>3, SolasAntes
<1>5. PICK x \in Atender(e, m) : /\ deSfs' = deSfs \o x.rta
                                 /\ aSfs' = <<>> \/ aSfs' = Tail(aSfs)
  BY <1>1 DEF SfsAtiende
<1>6. Callado(e)
  BY <1>2, EstadoSfsEs DEF Callado, EsEstado
<1>7. m.t \in TiposSfs
  BY <1>1, <1>2, FormasPartes, MenosPedidos DEF PedidoBien
<1>8. /\ EsSec(aSfs) /\ EsSec(deSfs) /\ EsSec(aDa) /\ RtasSolas(deSfs) /\ Fiel(cache, disco)
      /\ Invalidas(cache, aDa) /\ n \in Nat
      /\ Corriente(vsk) => /\ UnMensaje(cl, ped, fds, aSfs, deSfs, aDa, deDa, n)
                           /\ Pedidos(fds, aDa) /\ Traidos(fds, deDa, disco)
  BY <1>2, <1>4 DEF Formas, Fieles, InvFieles, Cuenta
<1> HIDE DEF e
<1>9. Debido(m, x)
  BY <1>5, <1>6, <1>7, AtenderDebido
<1>10. CASE x.rta = <<>>
  <2>1. deSfs' = deSfs
    BY <1>5, <1>8, <1>10, AlFinal
  <2>2. Corriente(vsk) => UnMensaje(cl, ped, fds, aSfs', deSfs', aDa, deDa, n)
    <3>1. Colas(aSfs, deSfs, aDa, deDa, n) =>
              /\ Colas(aSfs', deSfs, aDa, deDa, n)
              /\ Viaja(aSfs', deSfs, aDa, deDa, n) => Viaja(aSfs, deSfs, aDa, deDa, n)
      BY <1>1, <1>5, <1>8, TomaP
    <3>2. QED
      BY <1>8, <2>1, <3>1 DEF UnMensaje
  <2>3. QED
    BY <1>1, <1>4, <1>8, <2>1, <2>2, ColasFieles
<1>11. ASSUME NEW t, NEW s, x.rta = <<Rta(t, m, s)>>, Debida(t, m) PROVE Fieles'
  <2>1. PICK g : g = Rta(t, m, s)
    OBVIOUS
  <2>2. /\ Quien(g) = Quien(m) /\ (g.t = "ERROR" => m.t = "DOS")
        /\ g.t \notin {"AGREGAR", "FORMATEAR", "GET"}
    BY <1>7, <1>11, <2>1, RtaQuien
  <2>3. deSfs' = Append(deSfs, g)
    BY <1>5, <1>8, <1>11, <2>1, AlFinal
  <2>4. RtasSolas(deSfs')
    BY <1>8, <2>2, <2>3, RtasSolasMas
  <2>5. Corriente(vsk) => UnMensaje(cl, ped, fds, aSfs', deSfs', aDa, deDa, n)
    <3>1. Colas(aSfs, deSfs, aDa, deDa, n) =>
              /\ Colas(aSfs', Append(deSfs, g), aDa, deDa, n)
              /\ n # 0 /\ Viaja(aSfs', Append(deSfs, g), aDa, deDa, n) => Viaja(aSfs, deSfs, aDa, deDa, n)
      BY <1>1, <1>5, <1>8, <2>2, ContestaP
    <3>2. QED
      BY <1>8, <2>3, <3>1 DEF UnMensaje
  <2>6. QED
    BY <1>1, <1>4, <1>8, <2>4, <2>5, ColasFieles
<1>12. QED
  BY <1>9, <1>10, <1>11 DEF Debido

LEMMA SfsTerminaFieles ==
    ASSUME InvCuentas, InvFieles, SfsTermina, Solas'
    PROVE  Fieles'
<1>1. /\ UNCHANGED <<vsk, fds, cl, ped, cache, cant, disco, cuenta, aSfs, deSfs, aDa, deDa, culpas, solapado>>
  BY DEF SfsTermina, varsVsk
<1>2. Fieles
  BY <1>1, SolasAntes
<1>3. QED
  BY <1>1, <1>2 DEF Fieles

\* What the DA does with its first request m.
Atendido(m, d, w, a1, r, w1, r1) ==
    \/ a1 = <<>> /\ w1 = w /\ r1 = r
    \/ /\ a1 = Tail(d) /\ w1 = w
       /\ \E g : /\ r1 = Append(r, g) /\ Quien(g) = Quien(m) /\ g.id = m.id
                 /\ g.t = "GET" => /\ m.t = "GET" /\ Conjunto(m.s) \subseteq Sectores
                                   /\ g.v = [i \in DOMAIN m.s |-> w[m.s[i]]]
    \/ /\ a1 = Tail(d) /\ m.t = "PUT" /\ Conjunto(m.s) \subseteq Sectores
       /\ w1 = [s \in Sectores |-> IF s = m.s[2] THEN m.v[2] ELSE IF s = m.s[1] THEN m.v[1] ELSE w[s]]
       /\ \E g : r1 = Append(r, g) /\ Quien(g) = Quien(m) /\ g.id = m.id /\ g.t = "PUT"

LEMMA DaAtendido ==
    ASSUME Da
    PROVE  Atendido(Head(aDa), aDa, disco, aDa', deDa, disco', deDa')
<1> DEFINE m == Head(aDa)
           R(t, v) == [t |-> t, modo |-> "-", id |-> m.id, s |-> <<>>, v |-> v]
           V == [i \in DOMAIN m.s |-> disco[m.s[i]]]
           W == [s \in Sectores |-> IF s = m.s[2] THEN m.v[2] ELSE IF s = m.s[1] THEN m.v[1] ELSE disco[s]]
<1>1. da = "atendiendo" /\ aDa' = IF da' = "perdida" THEN <<>> ELSE Tail(aDa)
  BY DEF Da
<1>2. \/ /\ m.t \in {"GET", "GET1"} /\ Conjunto(m.s) \subseteq Sectores /\ deDa' = Append(deDa, R(m.t, V))
         /\ disco' = disco /\ da' = da
      \/ /\ m.t = "PUT" /\ Conjunto(m.s) \subseteq Sectores /\ disco' = W
         /\ deDa' = Append(deDa, R("PUT", <<>>)) /\ da' = da
      \/ m.t = "CHS" /\ deDa' = Append(deDa, R("CHS", <<>>)) /\ disco' = disco /\ da' = da
      \/ da' = "perdida" /\ disco' = disco /\ deDa' = deDa
  BY Zenon DEF Da
<1>3. \A t, v : R(t, v).t = t /\ R(t, v).id = m.id /\ R(t, v).v = v
  OBVIOUS
<1>4. \A t, v : t = m.t => Quien(R(t, v)) = Quien(m)
  BY <1>3 DEF Quien
<1> HIDE DEF R, V, W, m
<1>5. CASE /\ m.t \in {"GET", "GET1"} /\ Conjunto(m.s) \subseteq Sectores /\ deDa' = Append(deDa, R(m.t, V))
           /\ disco' = disco /\ da' = da
  <2>1. PICK g : g = R(m.t, V)
    OBVIOUS
  <2>2. g.t = m.t /\ g.id = m.id /\ g.v = V /\ Quien(g) = Quien(m)
    BY <1>3, <1>4, <2>1
  <2>3. aDa' = Tail(aDa) /\ deDa' = Append(deDa, g)
    BY <1>1, <1>5, <2>1
  <2>4. g.t = "GET" => /\ m.t = "GET" /\ Conjunto(m.s) \subseteq Sectores
                       /\ g.v = [i \in DOMAIN m.s |-> disco[m.s[i]]]
    BY <1>5, <2>2 DEF V
  <2>5. QED
    BY <1>5, <2>2, <2>3, <2>4 DEF Atendido, m
<1>6. CASE /\ m.t = "PUT" /\ Conjunto(m.s) \subseteq Sectores /\ disco' = W
           /\ deDa' = Append(deDa, R("PUT", <<>>)) /\ da' = da
  <2>1. PICK g : g = R("PUT", <<>>)
    OBVIOUS
  <2>2. g.t = "PUT" /\ g.id = m.id /\ Quien(g) = Quien(m)
    BY <1>3, <1>4, <1>6, <2>1
  <2>3. aDa' = Tail(aDa) /\ deDa' = Append(deDa, g)
    BY <1>1, <1>6, <2>1
  <2>4. QED
    BY <1>6, <2>2, <2>3 DEF Atendido, m, W
<1>7. CASE m.t = "CHS" /\ deDa' = Append(deDa, R("CHS", <<>>)) /\ disco' = disco /\ da' = da
  <2>1. PICK g : g = R("CHS", <<>>)
    OBVIOUS
  <2>2. g.t = "CHS" /\ g.id = m.id /\ Quien(g) = Quien(m)
    BY <1>3, <1>4, <1>7, <2>1
  <2>3. aDa' = Tail(aDa) /\ deDa' = Append(deDa, g)
    BY <1>1, <1>7, <2>1
  <2>4. g.t = "GET" => /\ m.t = "GET" /\ Conjunto(m.s) \subseteq Sectores
                       /\ g.v = [i \in DOMAIN m.s |-> disco[m.s[i]]]
    BY <2>2
  <2>5. QED
    BY <1>7, <2>2, <2>3, <2>4 DEF Atendido, m
<1>8. CASE da' = "perdida" /\ disco' = disco /\ deDa' = deDa
  BY <1>1, <1>8 DEF Atendido, m
<1>9. QED
  BY <1>2, <1>5, <1>6, <1>7, <1>8

\* The queues and what they say, when the DA attends.
LEMMA ContestaA ==
    ASSUME NEW p, NEW d, NEW a, NEW r, NEW n \in Nat, Colas(p, d, a, r, n), EsSec(a), a # <<>>, EsSec(r),
           NEW g, Quien(g) = Quien(Head(a))
    PROVE  /\ Colas(p, d, Tail(a), Append(r, g), n)
           /\ n # 0 /\ Viaja(p, d, Tail(a), Append(r, g), n) => Viaja(p, d, a, r, n)
<1> DEFINE t == Tail(a)
           h == Head(a)
<1>1. Saca(p, d, a, r, p, d, t, r, h, n)
  BY SacaA
<1> HIDE DEF t, h
<1>2. /\ Colas(p, d, t, r, n) /\ Quien(h) \in {0, -1, n}
      /\ n # 0 /\ Quien(h) = n => Viaja(p, d, a, r, n) /\ ~Viaja(p, d, t, r, n)
      /\ Viaja(p, d, t, r, n) => Viaja(p, d, a, r, n)
  BY <1>1 DEF Saca
<1>3. Quien(g) = Quien(h)
  BY DEF h
<1>4. /\ Colas(p, d, t, Append(r, g), n)
      /\ Viaja(p, d, t, Append(r, g), n) <=> Viaja(p, d, t, r, n) \/ Quien(g) = n
  BY <1>2, <1>3, PonR
<1>5. QED
  BY <1>2, <1>3, <1>4 DEF t

LEMMA PedidosMenos ==
    ASSUME NEW f, NEW a, EsSec(a), a # <<>>, Pedidos(f, a)
    PROVE  /\ Pedidos(f, Tail(a))
           /\ Head(a).t = "GET" =>
                \A k \in DOMAIN f : f[k].id = Head(a).id => DOMAIN Head(a).s = 1..2 /\ f[k].s = Head(a).s
<1> DEFINE t == Tail(a)
<1>1. /\ 1 \in DOMAIN a /\ Head(a) = a[1]
      /\ \A j \in DOMAIN t : j + 1 \in DOMAIN a /\ t[j] = a[j + 1]
  BY EsSecMenos
<1>2. Head(a).t = "GET" =>
         \A k \in DOMAIN f : f[k].id = Head(a).id => DOMAIN Head(a).s = 1..2 /\ f[k].s = Head(a).s
  BY <1>1 DEF Pedidos
<1> HIDE DEF t
<1>3. Pedidos(f, t)
  BY <1>1 DEF Pedidos
<1>4. QED
  BY <1>2, <1>3 DEF t

LEMMA InvalidasMenos ==
    ASSUME NEW q, NEW a, EsSec(a), a # <<>>, Invalidas(q, a)
    PROVE  /\ Invalidas(q, Tail(a))
           /\ Head(a).t = "PUT" => DOMAIN Head(a).s = 1..2 /\ Invalidada(q, Head(a).s)
<1> DEFINE t == Tail(a)
<1>1. /\ 1 \in DOMAIN a /\ Head(a) = a[1]
      /\ \A j \in DOMAIN t : j + 1 \in DOMAIN a /\ t[j] = a[j + 1]
  BY EsSecMenos
<1>2. Head(a).t = "PUT" => DOMAIN Head(a).s = 1..2 /\ Invalidada(q, Head(a).s)
  BY <1>1 DEF Invalidas
<1> HIDE DEF t
<1>3. Invalidas(q, t)
  BY <1>1 DEF Invalidas
<1>4. QED
  BY <1>2, <1>3 DEF t

\* What was read before a write is of nobody who is there.
LEMMA NadieLee ==
    ASSUME NEW p, NEW d, NEW a, NEW r, NEW n \in Nat, Colas(p, d, a, r, n), NEW j \in DOMAIN a, a[j].t = "PUT",
           NEW f, \A k \in DOMAIN f : f[k].id \in 1..n, NEW w
    PROVE  Traidos(f, r, w)
<1>1. n # 0 /\ Suyas(r, n)
  BY DEF Colas
<1>2. ~HayDe(r, n)
  BY <1>1, SinEscrituras
<1>3. QED
  BY <1>1, <1>2, SinTraer

LEMMA MasTraidos ==
    ASSUME NEW f, NEW r, EsSec(r), NEW w, Traidos(f, r, w), NEW g,
           g.t = "GET" => \A k \in DOMAIN f : f[k].id = g.id =>
                              \A i \in 1..2 : f[k].s[i] \in Sectores /\ g.v[i] = w[f[k].s[i]]
    PROVE  Traidos(f, Append(r, g), w)
<1> DEFINE c == Append(r, g)
<1>1. \A j \in DOMAIN c : c[j] = g \/ (j \in DOMAIN r /\ c[j] = r[j])
  BY EsSecMas
<1> HIDE DEF c
<1>2. Traidos(f, c, w)
  BY <1>1 DEF Traidos
<1>3. QED
  BY <1>2 DEF c

LEMMA DaAtiendeFieles ==
    ASSUME InvCuentas, InvFieles, Da, Solas'
    PROVE  Fieles'
<1> DEFINE m == Head(aDa)
           n == cuenta.s
<1>1. /\ UNCHANGED <<vsk, fds, cl, ped, cache, cant, cuenta, aSfs, deSfs, culpas, solapado>> /\ aDa # <<>>
  BY DEF Da, varsSfs
<1>2. Formas /\ Fieles
  BY <1>1, SolasAntes
<1>3. /\ EsSec(aDa) /\ EsSec(deDa) /\ RtasSolas(deSfs) /\ n \in Nat
      /\ Fiel(cache, disco) /\ Invalidas(cache, aDa)
      /\ Corriente(vsk) => /\ UnMensaje(cl, ped, fds, aSfs, deSfs, aDa, deDa, n)
                           /\ Pedidos(fds, aDa) /\ Traidos(fds, deDa, disco)
                           /\ \A k \in DOMAIN fds : fds[k].id \in 1..n
  BY <1>2 DEF Formas, Fieles, InvFieles, Cuenta, UnaSesion
<1>4. Atendido(m, aDa, disco, aDa', deDa, disco', deDa')
  BY DaAtendido
<1>5. /\ Invalidas(cache, Tail(aDa)) /\ EsSec(Tail(aDa))
      /\ m.t = "PUT" => DOMAIN m.s = 1..2 /\ Invalidada(cache, m.s)
  BY <1>1, <1>3, InvalidasMenos, EsSecMenos
<1>6. Head(aDa) = aDa[1] /\ 1 \in DOMAIN aDa
  BY <1>1, <1>3, EsSecMenos
<1>7. CASE aDa' = <<>> /\ disco' = disco /\ deDa' = deDa
  <2>1. EsSec(aDa') /\ Invalidas(cache, aDa') /\ Pedidos(fds, aDa')
    BY <1>7, VaciaSuyas DEF Invalidas, Pedidos
  <2>2. Corriente(vsk) => UnMensaje(cl, ped, fds, aSfs, deSfs, aDa', deDa', n)
    <3>1. Colas(aSfs, deSfs, aDa, deDa, n) =>
              /\ Colas(aSfs, deSfs, aDa', deDa, n)
              /\ Viaja(aSfs, deSfs, aDa', deDa, n) => Viaja(aSfs, deSfs, aDa, deDa, n)
      BY <1>7, PierdeA
    <3>2. QED
      BY <1>3, <1>7, <3>1 DEF UnMensaje
  <2>3. QED
    BY <1>1, <1>2, <1>3, <1>7, <2>1, <2>2, ColasFieles
<1>8. ASSUME aDa' = Tail(aDa), NEW g, deDa' = Append(deDa, g), Quien(g) = Quien(m),
             Fiel(cache, disco'), Corriente(vsk) => Traidos(fds, Append(deDa, g), disco')
      PROVE  Fieles'
  <2>1. Corriente(vsk) => UnMensaje(cl, ped, fds, aSfs, deSfs, aDa', deDa', n)
    <3>1. Colas(aSfs, deSfs, aDa, deDa, n) =>
              /\ Colas(aSfs, deSfs, Tail(aDa), Append(deDa, g), n)
              /\ n # 0 /\ Viaja(aSfs, deSfs, Tail(aDa), Append(deDa, g), n) => Viaja(aSfs, deSfs, aDa, deDa, n)
      BY <1>1, <1>3, <1>8, ContestaA
    <3>2. QED
      BY <1>3, <1>8, <3>1 DEF UnMensaje
  <2>2. Corriente(vsk) => Pedidos(fds, aDa')
    BY <1>1, <1>3, <1>8, PedidosMenos
  <2>3. QED
    BY <1>1, <1>2, <1>3, <1>5, <1>8, <2>1, <2>2, ColasFieles
<1>9. ASSUME aDa' = Tail(aDa), disco' = disco, NEW g, deDa' = Append(deDa, g), Quien(g) = Quien(m), g.id = m.id,
             g.t = "GET" => /\ m.t = "GET" /\ Conjunto(m.s) \subseteq Sectores
                            /\ g.v = [i \in DOMAIN m.s |-> disco[m.s[i]]]
      PROVE  Fieles'
  <2>1. ASSUME Corriente(vsk), g.t = "GET", NEW k \in DOMAIN fds, fds[k].id = g.id, NEW i \in 1..2
        PROVE  fds[k].s[i] \in Sectores /\ g.v[i] = disco[fds[k].s[i]]
    <3>1. DOMAIN m.s = 1..2 /\ fds[k].s = m.s
      <4>1. m.t = "GET" /\ fds[k].id = m.id /\ Pedidos(fds, aDa)
        BY <1>3, <1>9, <2>1
      <4>2. PICK f : f = fds
        OBVIOUS
      <4>3. Pedidos(f, aDa) /\ k \in DOMAIN f /\ f[k].id = Head(aDa).id /\ Head(aDa).t = "GET"
        BY <2>1, <4>1, <4>2
      <4>4. \A b \in DOMAIN f : f[b].id = Head(aDa).id => DOMAIN Head(aDa).s = 1..2 /\ f[b].s = Head(aDa).s
        BY <1>1, <1>3, <4>3, PedidosMenos
      <4>5. QED
        BY <4>2, <4>3, <4>4
    <3>2. m.s[i] \in Conjunto(m.s)
      BY <3>1 DEF Conjunto
    <3>3. QED
      BY <1>9, <2>1, <3>1, <3>2
  <2>2. Corriente(vsk) => Traidos(fds, Append(deDa, g), disco')
    BY <1>3, <1>9, <2>1, MasTraidos
  <2>3. QED
    BY <1>3, <1>8, <1>9, <2>2
<1>10. ASSUME aDa' = Tail(aDa), m.t = "PUT", NEW g, deDa' = Append(deDa, g), Quien(g) = Quien(m), g.t = "PUT",
              disco' = [s \in Sectores |-> IF s = m.s[2] THEN m.v[2] ELSE IF s = m.s[1] THEN m.v[1] ELSE disco[s]]
       PROVE  Fieles'
  <2>1. m.s[1] \in Conjunto(m.s) /\ m.s[2] \in Conjunto(m.s)
    BY <1>5, <1>10 DEF Conjunto
  <2>2. Fiel(cache, disco')
    BY <1>3, <1>5, <1>10, <2>1 DEF Fiel, Invalidada
  <2>3. ASSUME Corriente(vsk) PROVE Traidos(fds, Append(deDa, g), disco')
    <3>1. Traidos(fds, deDa, disco')
      <4>1. Colas(aSfs, deSfs, aDa, deDa, n) /\ aDa[1].t = "PUT"
        BY <1>3, <1>6, <1>10, <2>3 DEF UnMensaje
      <4>2. QED
        BY <1>3, <1>6, <2>3, <4>1, NadieLee
    <3>2. QED
      BY <1>3, <1>10, <3>1, MasTraidos
  <2>4. QED
    BY <1>8, <1>10, <2>2, <2>3
<1>11. QED
  BY <1>4, <1>7, <1>9, <1>10 DEF Atendido

-----------------------------------------------------------------------------
(* Who starts the processes, and the clients *)

LEMMA ReiniciaSfsFieles ==
    ASSUME InvCuentas, InvFieles, ReiniciaSfs, Solas'
    PROVE  Fieles'
<1>1. /\ aSfs' = <<>> /\ deSfs' = <<>> /\ UNCHANGED <<vsk, fds, cl, ped, cache, cant, disco, aDa, deDa, culpas, solapado>>
      /\ cuenta' = [cuenta EXCEPT !.r = @ + 1]
  BY DEF ReiniciaSfs, SfsArranca
<1>2. cuenta'.s = cuenta.s
  BY <1>1 DEF InvFieles, Cuenta
<1>3. Fieles
  BY <1>1, SolasAntes
<1>4. /\ EsSec(aDa) /\ Fiel(cache, disco) /\ Invalidas(cache, aDa)
      /\ Corriente(vsk) => /\ UnMensaje(cl, ped, fds, aSfs, deSfs, aDa, deDa, cuenta.s)
                           /\ Pedidos(fds, aDa) /\ Traidos(fds, deDa, disco)
  BY <1>3 DEF Fieles
<1>5. RtasSolas(deSfs')
  BY <1>1, VaciaSuyas DEF RtasSolas
<1>6. ASSUME Corriente(vsk) PROVE UnMensaje(cl, ped, fds, aSfs', deSfs', aDa, deDa, cuenta.s)
  <2>1. Colas(aSfs, deSfs, aDa, deDa, cuenta.s)
    BY <1>4, <1>6 DEF UnMensaje
  <2>2. /\ Colas(aSfs', deSfs, aDa, deDa, cuenta.s)
        /\ Viaja(aSfs', deSfs, aDa, deDa, cuenta.s) => Viaja(aSfs, deSfs, aDa, deDa, cuenta.s)
    BY <1>1, <2>1, PierdeP
  <2>3. /\ Colas(aSfs', deSfs', aDa, deDa, cuenta.s)
        /\ Viaja(aSfs', deSfs', aDa, deDa, cuenta.s) => Viaja(aSfs', deSfs, aDa, deDa, cuenta.s)
    BY <1>1, <2>2, PierdeD
  <2>4. QED
    BY <1>4, <1>6, <2>2, <2>3 DEF UnMensaje
<1>7. QED
  BY <1>1, <1>2, <1>3, <1>4, <1>5, <1>6, ColasFieles

LEMMA ReiniciaTodoFieles ==
    ASSUME InvCuentas, InvFieles, ReiniciaTodo, Solas'
    PROVE  Fieles'
<1>1. /\ fds' = <<>> /\ aSfs' = <<>> /\ deSfs' = <<>> /\ aDa' = <<>> /\ deDa' = <<>> /\ cant' = 0
      /\ cl' = [c \in Sockets |-> Fuera] /\ ped' = [c \in Sockets |-> NoLlamada]
      /\ disco' = disco /\ cache' = cache /\ solapado' = solapado
  BY DEF ReiniciaTodo, SfsArranca
<1>2. Fieles
  BY <1>1, ReiniciaTodoAparte, SolasAntes DEF Aparte
<1> DEFINE z == <<>>
           n == cuenta'.s
<1>3. Suyas(z, n) /\ ~HayDe(z, n) /\ UnoDe(z, n) /\ DOMAIN z = {} /\ EsSec(z)
  BY VaciaSuyas
<1>4. fds' = z /\ aSfs' = z /\ deSfs' = z /\ aDa' = z /\ deDa' = z
  BY <1>1
<1> HIDE DEF z, n
<1>5. EsFichas(fds') /\ EsSec(aDa') /\ RtasSolas(deSfs') /\ Invalidas(cache', aDa')
      /\ Pedidos(fds', aDa') /\ Traidos(fds', deDa', disco')
  BY <1>3, <1>4 DEF EsFichas, RtasSolas, Invalidas, Pedidos, Traidos
<1>6. EsClientes(cl')
  BY <1>1 DEF EsClientes, Fuera, CamposCl
<1>7. EsCache(cache') /\ Fiel(cache', disco') /\ SinCache(cache') /\ cant' \in Nat
  BY <1>1, <1>2 DEF Fieles
<1>8. \A b \in Sockets : cl'[b].est = "fuera" /\ ped'[b].t = Nada
  BY <1>1 DEF Fuera, NoLlamada, Llamada
<1>9. UnaSesion(cl', ped', fds', n)
  BY <1>3, <1>4, <1>8 DEF UnaSesion
<1>10. ~Viaja(z, z, z, z, n) /\ Colas(z, z, z, z, n)
  BY <1>3 DEF Viaja, Colas, UnoViaja
<1>11. UnMensaje(cl', ped', fds', aSfs', deSfs', aDa', deDa', n)
  BY <1>4, <1>10 DEF UnMensaje
<1>12. QED
  BY <1>5, <1>6, <1>7, <1>9, <1>11 DEF Fieles, n

\* Only a client moves.
LEMMA MueveFieles ==
    ASSUME Fieles, UNCHANGED SinCliente, NEW cs1, NEW ps1, cl' = cs1, ped' = ps1, EsClientes(cs1),
           Corriente(vsk) => /\ UnaSesion(cs1, ps1, fds, cuenta'.s)
                             /\ UnMensaje(cs1, ps1, fds, aSfs, deSfs, aDa, deDa, cuenta'.s)
    PROVE  Fieles'
<1>1. UNCHANGED <<vsk, fds, aSfs, deSfs, aDa, deDa, cache, cant, disco>>
  BY DEF SinCliente, varsSfs
<1>2. EsFichas(fds') /\ EsSec(aDa') /\ EsCache(cache') /\ Fiel(cache', disco') /\ Invalidas(cache', aDa')
      /\ SinCache(cache') /\ RtasSolas(deSfs')
  BY <1>1 DEF Fieles
<1>3. Corriente(vsk') =>
         /\ cant' \in Nat /\ UnaSesion(cl', ped', fds', cuenta'.s)
         /\ UnMensaje(cl', ped', fds', aSfs', deSfs', aDa', deDa', cuenta'.s)
         /\ Pedidos(fds', aDa') /\ Traidos(fds', deDa', disco')
  BY <1>1 DEF Fieles
<1>4. QED
  BY <1>2, <1>3 DEF Fieles

\* The session begins when nobody is there.
LEMMA AbreUna ==
    ASSUME NEW cs, EsClientes(cs), NEW ps, EsPed(ps), NEW f, NEW n \in Nat, UnaSesion(cs, ps, f, n),
           \A b \in Sockets : cs[b].est = "fuera",
           NEW c \in Sockets, NEW i, i = n + 1, NEW r, r.id = i, r.est \in {"abriendo", "listando"},
           NEW m, m.id = i, m.t \in {"OPEN", "LIST"},
           NEW cs1, cs1 = [cs EXCEPT ![c] = r], NEW ps1, ps1 = [ps EXCEPT ![c] = m]
    PROVE  UnaSesion(cs1, ps1, f, i)
<1>1. DOMAIN cs = Sockets /\ DOMAIN ps = Sockets
  BY DEF EsClientes, EsPed
<1>2. /\ cs1[c] = r /\ ps1[c] = m
      /\ \A b \in Sockets : b # c => cs1[b] = cs[b] /\ ps1[b] = ps[b]
  BY <1>1
<1>3. \A j \in 1..n : j \in 1..i /\ j # i
  OBVIOUS
<1>4. \A k \in DOMAIN f : f[k].id \in 1..i /\ f[k].id # i
  BY <1>3 DEF UnaSesion
<1>5. i # 0
  OBVIOUS
<1>6. \A b \in Sockets : b # c => cs1[b].est = "fuera" /\ ps1[b].t = Nada
  BY <1>2 DEF UnaSesion
<1>7. r.est # "fuera" /\ r.est \notin Ociosos
  BY DEF Ociosos
<1>8. EnSuCurso(r, m, f, i, c)
  BY <1>4, <1>5, <1>7 DEF EnSuCurso
<1>9. QED
  BY <1>2, <1>4, <1>6, <1>7, <1>8 DEF UnaSesion

LEMMA AbreFieles ==
    ASSUME InvCuentas, InvFieles, NEW c \in Sockets, Abre(c), Solas'
    PROVE  Fieles'
<1> DEFINE id == cuenta.s + 1
           R(modo, a) == [Fuera EXCEPT !.est = IF modo = "L" THEN "listando" ELSE "abriendo",
                                       !.id = id, !.modo = modo, !.a = a]
           M(modo, a) == Llamada(IF modo = "L" THEN "LIST" ELSE "OPEN", id, [modo |-> modo, a |-> a])
<1>1. PICK modo \in Modos : \E a \in Archivos \union {Nada} : Llama(c, R(modo, a), M(modo, a))
  BY DEF Abre
<1>2. PICK a \in Archivos \union {Nada} : Llama(c, R(modo, a), M(modo, a))
  BY <1>1
<1>3. /\ cuenta' = [cuenta EXCEPT !.s = @ + 1] /\ UNCHANGED SinCliente
      /\ culpas' = culpas /\ solapado' = (solapado \/ EnCurso)
  BY DEF Abre, SinCliente
<1>4. cuenta'.s = id /\ cuenta.s \in Nat
  BY <1>3 DEF InvFieles, Cuenta
<1>5. Solas /\ ~EnCurso
  BY <1>3 DEF Solas
<1>6. Formas /\ Fieles
  BY <1>5 DEF InvCuentas, InvFieles
<1>7. /\ EsPed(ped) /\ EsClientes(cl)
      /\ Corriente(vsk) => UnaSesion(cl, ped, fds, cuenta.s)
  BY <1>6 DEF Formas, Fieles
<1>8. PICK r : r = R(modo, a)
  OBVIOUS
<1>9. PICK m : m = M(modo, a)
  OBVIOUS
<1>10. /\ DOMAIN r = CamposCl /\ r.id = id /\ m.id = id
       /\ r.est \in {"abriendo", "listando"} /\ m.t \in {"OPEN", "LIST"}
  BY <1>8, <1>9 DEF Fuera, CamposCl, Llamada
<1>11. PICK cs1 : cs1 = [cl EXCEPT ![c] = r]
  OBVIOUS
<1>12. PICK ps1 : ps1 = [ped EXCEPT ![c] = m]
  OBVIOUS
<1>13. cl' = cs1 /\ ped' = ps1
  BY <1>2, <1>8, <1>9, <1>11, <1>12 DEF Llama
<1> HIDE DEF R, M
<1>14. (\A b \in Sockets : cl[b].est = "fuera") /\ aSfs = <<>> /\ deSfs = <<>> /\ aDa = <<>> /\ deDa = <<>>
  BY <1>5 DEF EnCurso
<1>15. Corriente(vsk) => UnaSesion(cs1, ps1, fds, id)
  BY <1>4, <1>7, <1>10, <1>11, <1>12, <1>14, AbreUna
<1> HIDE DEF id
<1>16. UnMensaje(cs1, ps1, fds, aSfs, deSfs, aDa, deDa, id)
  <2> DEFINE z == <<>>
  <2>1. Suyas(z, id) /\ ~HayDe(z, id) /\ UnoDe(z, id) /\ DOMAIN z = {}
    BY VaciaSuyas
  <2>2. aSfs = z /\ deSfs = z /\ aDa = z /\ deDa = z
    BY <1>14
  <2> HIDE DEF z
  <2>3. ~Viaja(z, z, z, z, id) /\ Colas(z, z, z, z, id)
    BY <2>1 DEF Viaja, Colas, UnoViaja
  <2>4. QED
    BY <2>2, <2>3 DEF UnMensaje
<1>17. EsClientes(cs1)
  BY <1>7, <1>10, <1>11 DEF EsClientes
<1>18. QED
  BY <1>3, <1>4, <1>6, <1>13, <1>15, <1>16, <1>17, MueveFieles

\* The session goes on: it waited for nothing, so nothing of it travels.
PorSeguir(cs, ps, c, r, m, cs1, ps1) ==
    /\ DOMAIN cs = Sockets /\ DOMAIN ps = Sockets /\ cs[c].est \in Ociosos
    /\ r.id = cs[c].id /\ r.est \notin Ociosos /\ r.est # "fuera"
    /\ m.id \in {0, cs[c].id} /\ m.t \notin {"OPEN", "LIST"}
    /\ cs1 = [cs EXCEPT ![c] = r] /\ ps1 = [ps EXCEPT ![c] = m]

LEMMA SigueUna ==
    ASSUME NEW cs, NEW ps, NEW f, NEW n, UnaSesion(cs, ps, f, n), NEW c \in Sockets, NEW r, NEW m, NEW cs1, NEW ps1,
           PorSeguir(cs, ps, c, r, m, cs1, ps1)
    PROVE  UnaSesion(cs1, ps1, f, n) /\ n # 0 /\ ~Quietos(cs, ps, f, n)
<1>1. /\ DOMAIN cs = Sockets /\ DOMAIN ps = Sockets /\ cs[c].est \in Ociosos
      /\ r.id = cs[c].id /\ r.est \notin Ociosos /\ r.est # "fuera"
      /\ m.id \in {0, cs[c].id} /\ m.t \notin {"OPEN", "LIST"}
      /\ cs1 = [cs EXCEPT ![c] = r] /\ ps1 = [ps EXCEPT ![c] = m]
  BY DEF PorSeguir
<1>2. /\ cs1[c] = r /\ ps1[c] = m
      /\ \A b \in Sockets : b # c => cs1[b] = cs[b] /\ ps1[b] = ps[b]
  BY <1>1
<1>3. cs[c].est # "fuera"
  BY <1>1 DEF Ociosos
<1>4. EnSuCurso(cs[c], ps[c], f, n, c)
  BY <1>3 DEF UnaSesion
<1>5. ps[c].t = Nada /\ cs[c].id = n /\ n # 0
  BY <1>1, <1>4 DEF EnSuCurso
<1>6. ps[c].t \notin {"OPEN", "LIST"}
  BY <1>5 DEF Nada
<1>7. UnFd(f, n) /\ \E k \in DOMAIN f : SuFd(f, k, c, n)
  BY <1>4, <1>6 DEF EnSuCurso
<1>8. EnSuCurso(r, m, f, n, c)
  BY <1>1, <1>5, <1>7 DEF EnSuCurso
<1>9. \A b \in Sockets : b # c => cs1[b].est = "fuera" /\ ps1[b].t = Nada
  BY <1>2, <1>3 DEF UnaSesion
<1>10. \A k \in DOMAIN f : f[k].id \in 1..n
  BY DEF UnaSesion
<1>11. UnaSesion(cs1, ps1, f, n)
  BY <1>1, <1>2, <1>8, <1>9, <1>10 DEF UnaSesion
<1>12. QED
  BY <1>1, <1>5, <1>11 DEF Quietos

LEMMA SigueFieles ==
    ASSUME InvCuentas, InvFieles, NEW c \in Sockets, NEW est, NEW t, NEW s, Sigue(c, est, t, s), Solas',
           cl[c].est \in Ociosos, est \notin Ociosos, est # "fuera", t \notin {"OPEN", "LIST"}
    PROVE  Fieles'
<1>1. PICK id \in IdsDe(c) : Llama(c, [cl[c] EXCEPT !.est = est], Llamada(t, id, s))
  BY DEF Sigue
<1>2. UNCHANGED SinCliente /\ cuenta' = cuenta /\ culpas' = culpas /\ solapado' = solapado
  BY DEF Sigue, SinCliente
<1>3. Formas /\ Fieles
  BY <1>2, SolasAntes
<1>4. /\ EsPed(ped) /\ EsClientes(cl)
      /\ Corriente(vsk) => /\ UnaSesion(cl, ped, fds, cuenta.s)
                           /\ UnMensaje(cl, ped, fds, aSfs, deSfs, aDa, deDa, cuenta.s)
  BY <1>3 DEF Formas, Fieles
<1>5. PICK r : r = [cl[c] EXCEPT !.est = est]
  OBVIOUS
<1>6. PICK m : m = Llamada(t, id, s)
  OBVIOUS
<1>7. /\ DOMAIN r = CamposCl /\ r.id = cl[c].id /\ r.est = est
  BY <1>4, <1>5 DEF EsClientes, CamposCl
<1>8. m.t = t /\ m.id \in {0, cl[c].id}
  BY <1>1, <1>6 DEF Llamada, IdsDe
<1>9. PICK cs1 : cs1 = [cl EXCEPT ![c] = r]
  OBVIOUS
<1>10. PICK ps1 : ps1 = [ped EXCEPT ![c] = m]
  OBVIOUS
<1>11. cl' = cs1 /\ ped' = ps1
  BY <1>1, <1>5, <1>6, <1>9, <1>10 DEF Llama
<1>12. Corriente(vsk) => UnaSesion(cs1, ps1, fds, cuenta.s) /\ cuenta.s # 0 /\ ~Quietos(cl, ped, fds, cuenta.s)
  <2> SUFFICES ASSUME Corriente(vsk)
               PROVE  UnaSesion(cs1, ps1, fds, cuenta.s) /\ cuenta.s # 0 /\ ~Quietos(cl, ped, fds, cuenta.s)
    OBVIOUS
  <2>1. r.est \notin Ociosos /\ r.est # "fuera" /\ m.t \notin {"OPEN", "LIST"} /\ r.id = cl[c].id
    BY <1>7, <1>8
  <2>2. UnaSesion(cl, ped, fds, cuenta.s)
    BY <1>4
  <2>3. PorSeguir(cl, ped, c, r, m, cs1, ps1)
    BY <1>4, <1>8, <1>9, <1>10, <2>1 DEF PorSeguir, EsClientes, EsPed
  <2>4. QED
    BY <2>2, <2>3, SigueUna
<1>13. Corriente(vsk) => UnMensaje(cs1, ps1, fds, aSfs, deSfs, aDa, deDa, cuenta.s)
  BY <1>4, <1>12 DEF UnMensaje
<1>14. EsClientes(cs1)
  BY <1>4, <1>7, <1>9 DEF EsClientes
<1>15. QED
  BY <1>2, <1>3, <1>11, <1>12, <1>13, <1>14, MueveFieles

\* The session is cut.
LEMMA CortaUna ==
    ASSUME NEW cs, EsClientes(cs), NEW ps, NEW f, NEW n, UnaSesion(cs, ps, f, n),
           NEW c \in Sockets, cs[c].est # "fuera", NEW r, r.id = cs[c].id, r.est = "cortado",
           NEW cs1, cs1 = [cs EXCEPT ![c] = r]
    PROVE  UnaSesion(cs1, ps, f, n) /\ (Quietos(cs, ps, f, n) => Quietos(cs1, ps, f, n))
<1>1. /\ cs1[c] = r
      /\ \A b \in Sockets : b # c => cs1[b] = cs[b]
  BY DEF EsClientes
<1>2. EnSuCurso(cs[c], ps[c], f, n, c)
  BY DEF UnaSesion
<1>3. "cortado" \notin Ociosos
  BY DEF Ociosos
<1>4. EnSuCurso(r, ps[c], f, n, c)
  BY <1>2, <1>3 DEF EnSuCurso
<1>5. \A b \in Sockets : b # c => cs[b].est = "fuera" /\ ps[b].t = Nada
  BY DEF UnaSesion
<1>6. \A k \in DOMAIN f : f[k].id \in 1..n
  BY DEF UnaSesion
<1>7. UnaSesion(cs1, ps, f, n)
  BY <1>1, <1>4, <1>5, <1>6 DEF UnaSesion
<1>8. QED
  BY <1>1, <1>3, <1>7 DEF Quietos

LEMMA CortaFieles ==
    ASSUME InvCuentas, InvFieles, NEW c \in Sockets, Corta(c), Solas'
    PROVE  Fieles'
<1>1. /\ cl[c].est # "fuera" /\ cl' = [cl EXCEPT ![c].est = "cortado"] /\ ped' = ped
      /\ cuenta' = [cuenta EXCEPT !.k = @ + 1] /\ UNCHANGED SinCliente /\ culpas' = culpas /\ solapado' = solapado
  BY DEF Corta, SinCliente
<1>2. Formas /\ Fieles
  BY <1>1, SolasAntes
<1>3. /\ EsClientes(cl)
      /\ Corriente(vsk) => /\ UnaSesion(cl, ped, fds, cuenta.s)
                           /\ UnMensaje(cl, ped, fds, aSfs, deSfs, aDa, deDa, cuenta.s)
  BY <1>2 DEF Fieles
<1>4. cuenta'.s = cuenta.s
  BY <1>1 DEF InvFieles, Cuenta
<1>5. PICK r : r = [cl[c] EXCEPT !.est = "cortado"]
  OBVIOUS
<1>6. DOMAIN r = CamposCl /\ r.id = cl[c].id /\ r.est = "cortado"
  BY <1>3, <1>5 DEF EsClientes, CamposCl
<1>7. PICK cs1 : cs1 = [cl EXCEPT ![c] = r]
  OBVIOUS
<1>8. cl' = cs1
  BY <1>1, <1>5, <1>7
<1>9. Corriente(vsk) => /\ UnaSesion(cs1, ped, fds, cuenta.s)
                        /\ Quietos(cl, ped, fds, cuenta.s) => Quietos(cs1, ped, fds, cuenta.s)
  BY <1>1, <1>3, <1>6, <1>7, CortaUna
<1>10. Corriente(vsk) => UnMensaje(cs1, ped, fds, aSfs, deSfs, aDa, deDa, cuenta.s)
  BY <1>3, <1>9 DEF UnMensaje
<1>11. EsClientes(cs1)
  BY <1>3, <1>6, <1>7 DEF EsClientes
<1>12. QED
  BY <1>1, <1>2, <1>4, <1>8, <1>9, <1>10, <1>11, MueveFieles

LEMMA ClientesFieles ==
    ASSUME InvCuentas, InvFieles, NEW c \in Sockets,
           Abre(c) \/ Lee(c) \/ Escribe(c) \/ Cierra(c) \/ Corta(c), Solas'
    PROVE  Fieles'
<1>1. CASE Abre(c)
  BY <1>1, AbreFieles
<1>2. CASE Lee(c)
  <2>1. cl[c].est \in Ociosos /\ Sigue(c, "leyendo", "READ", <<>>)
    BY <1>2 DEF Lee, Ociosos
  <2>2. "leyendo" \notin Ociosos
    BY DEF Ociosos
  <2>3. QED
    BY <2>1, <2>2, SigueFieles
<1>3. CASE Escribe(c)
  <2>1. cl[c].est \in Ociosos /\ Sigue(c, "escribiendo", "WRITE", Mitades(cl[c].id, cl[c].n + 1))
    BY <1>3 DEF Escribe, Ociosos
  <2>2. "escribiendo" \notin Ociosos
    BY DEF Ociosos
  <2>3. QED
    BY <2>1, <2>2, SigueFieles
<1>4. CASE Cierra(c)
  <2>1. PICK est \in {"cerrando", "cerrando nada"} : Sigue(c, est, "CLOSE", <<>>)
    BY <1>4 DEF Cierra
  <2>2. cl[c].est \in Ociosos
    BY <1>4 DEF Cierra, Ociosos
  <2>3. est \notin Ociosos /\ est # "fuera" /\ "CLOSE" \notin {"OPEN", "LIST"}
    BY <2>1 DEF Ociosos
  <2>4. QED
    BY <2>1, <2>2, <2>3, SigueFieles
<1>5. CASE Corta(c)
  BY <1>5, CortaFieles
<1>6. QED
  BY <1>1, <1>2, <1>3, <1>4, <1>5

-----------------------------------------------------------------------------
(* The theorem *)

LEMMA InitFieles ==
    ASSUME Init
    PROVE  InvFieles
<1>1. /\ fds = <<>> /\ aSfs = <<>> /\ deSfs = <<>> /\ aDa = <<>> /\ deDa = <<>> /\ cache = <<>> /\ cant = 0
      /\ cl = [c \in Sockets |-> Fuera] /\ ped = [c \in Sockets |-> NoLlamada]
      /\ cuenta = [s |-> 0, k |-> 0, r |-> 0, o |-> 0]
  BY DEF Init, InitSfs
<1>2. Cuenta
  BY <1>1 DEF Cuenta
<1> DEFINE z == <<>>
           n == cuenta.s
<1>3. Suyas(z, n) /\ ~HayDe(z, n) /\ UnoDe(z, n) /\ DOMAIN z = {} /\ EsSec(z)
  BY VaciaSuyas
<1>4. fds = z /\ aSfs = z /\ deSfs = z /\ aDa = z /\ deDa = z /\ cache = z
  BY <1>1
<1>5. SinCache(cache)
  BY <1>1 DEF SinCache
<1> HIDE DEF z, n
<1>6. EsFichas(fds) /\ EsSec(aDa) /\ RtasSolas(deSfs) /\ Invalidas(cache, aDa) /\ EsCache(cache)
      /\ Fiel(cache, disco) /\ Pedidos(fds, aDa) /\ Traidos(fds, deDa, disco)
  BY <1>3, <1>4 DEF EsFichas, RtasSolas, Invalidas, Pedidos, Traidos, EsCache, Fiel
<1>7. EsClientes(cl)
  BY <1>1 DEF EsClientes, Fuera, CamposCl
<1>8. \A b \in Sockets : cl[b].est = "fuera" /\ ped[b].t = Nada
  BY <1>1 DEF Fuera, NoLlamada, Llamada
<1>9. UnaSesion(cl, ped, fds, n)
  BY <1>3, <1>4, <1>8 DEF UnaSesion
<1>10. ~Viaja(z, z, z, z, n) /\ Colas(z, z, z, z, n)
  BY <1>3 DEF Viaja, Colas, UnoViaja
<1>11. UnMensaje(cl, ped, fds, aSfs, deSfs, aDa, deDa, n) /\ cant \in Nat
  BY <1>1, <1>4, <1>10 DEF UnMensaje
<1>12. Fieles
  BY <1>5, <1>6, <1>7, <1>9, <1>11 DEF Fieles, n
<1>13. QED
  BY <1>2, <1>12 DEF InvFieles

LEMMA NextFieles ==
    ASSUME InvCuentas, InvFieles, [Next]_vars
    PROVE  InvFieles'
<1>1. Cuenta'
  BY CuentaSigue DEF InvFieles
<1>2. ASSUME Solas' PROVE Fieles'
  <2>1. CASE \E c \in Sockets : VskCliente(c)
    BY <1>2, <2>1, ClienteFieles
  <2>2. CASE VskSfs
    BY <1>2, <2>2, SfsFieles
  <2>3. CASE VskDa
    BY <1>2, <2>3, DaFieles
  <2>4. CASE \E c \in Sockets : VskPierdeCliente(c)
    BY <1>2, <2>4, PierdeClienteFieles
  <2>5. CASE VskPierdeSfs
    BY <1>2, <2>5, PierdeSfsFieles
  <2>6. CASE Consola
    BY <1>2, <2>6, ConsolaFieles
  <2>7. CASE FormatoChs
    BY <1>2, <2>7, FormatoChsFieles
  <2>8. CASE FormatoVuelta
    BY <1>2, <2>8, FormatoVueltaFieles
  <2>9. CASE FormatoSinSfs
    BY <1>2, <2>9, FormatoSinSfsFieles
  <2>10. CASE Sfs
    BY <1>2, <2>10, SfsAtiendeFieles
  <2>11. CASE SfsTermina
    BY <1>2, <2>11, SfsTerminaFieles
  <2>12. CASE Da
    BY <1>2, <2>12, DaAtiendeFieles
  <2>13. CASE ReiniciaSfs
    BY <1>2, <2>13, ReiniciaSfsFieles
  <2>14. CASE ReiniciaTodo
    BY <1>2, <2>14, ReiniciaTodoFieles
  <2>15. CASE \E c \in Sockets : Abre(c) \/ Lee(c) \/ Escribe(c) \/ Cierra(c) \/ Corta(c)
    BY <1>2, <2>15, ClientesFieles
  <2>16. CASE UNCHANGED vars
    <3>1. Solas /\ UNCHANGED <<vsk, fds, cl, ped, cache, cant, disco, aSfs, deSfs, aDa, deDa, cuenta>>
      BY <1>2, <2>16 DEF Solas, vars, varsSfs, varsVsk
    <3>2. Fieles
      BY <3>1 DEF InvFieles
    <3>3. QED
      BY <3>1, <3>2 DEF Fieles
  <2>17. QED
    BY <2>1, <2>2, <2>3, <2>4, <2>5, <2>6, <2>7, <2>8, <2>9, <2>10, <2>11, <2>12, <2>13, <2>14,
       <2>15, <2>16 DEF Next, VskAtiende
<1>3. QED
  BY <1>1, <1>2 DEF InvFieles

\* What a valid entry of the cache has is what the DA has in its sector, whatever the
\* processes fail or lose and whoever is started again, while sessions do not overlap,
\* no entry was a victim and the console read or wrote no sector: a write invalidates
\* before it is sent, a read is stored before anything else is asked, and what the
\* VSK has on its way is of the one session there is.
THEOREM CacheFielSiempre == Spec => []CacheFiel
<1>1. Init => InvCuentas /\ InvFieles
  BY InitCuentas, InitFieles
<1>2. (InvCuentas /\ InvFieles) /\ [Next]_vars => (InvCuentas /\ InvFieles)'
  BY NextConserva, NextFieles
<1>3. InvCuentas /\ InvFieles => CacheFiel
  BY FielesCache
<1>4. QED
  BY <1>1, <1>2, <1>3, PTL DEF Spec

=============================================================================

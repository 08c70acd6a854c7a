----------------------------- MODULE DiscoProofs -----------------------------
(***************************************************************************)
(* Theorems about the disk, for every geometry, number of requests and set *)
(* of failures.  The first part proves what the walk of the head computes: *)
(* the recursive functions of Recorrido are defined everywhere, the place  *)
(* escribirSector starts from is on the disk or one column past its end,   *)
(* and no walk to a sector is longer than a step to each of the other      *)
(* cylinders and the rest of a turn.                                       *)
(*                                                                         *)
(* A handler is a function from the state it finds to the set of those it  *)
(* may leave: the second part proves that each takes good states to good   *)
(* states (Buenos), the third that each step of the loop, the console and  *)
(* the environment keeps InvDisco, and a fourth reads the properties off   *)
(* it.                                                                     *)
(*                                                                         *)
(* The last part proves that the disk without a cache is the store of      *)
(* sectors of Almacen: when one of the steps of the store takes place, in  *)
(* terms of the variables of the disk; what adding and taking a message    *)
(* does to the queues of the store; what each handler leaves when LDAP     *)
(* answers; and the step of the store that each step of the disk is.       *)
(***************************************************************************)
EXTENDS Disco, WellFoundedInduction, TLAPS

-----------------------------------------------------------------------------
(* The walk of the head.  The provers have no induction; it is replaced by  *)
(* the least element of a set of naturals, and a recursive function by a    *)
(* measure that decreases at each of its calls.                             *)

\* Every set of naturals that is not empty has a least element.
LEMMA Minimo ==
    ASSUME NEW T, T \subseteq Nat, T # {}
    PROVE  \E n \in T : \A k \in T : n <= k
<1> DEFINE R == {ss \in Nat \X Nat : ss[1] < ss[2]}
<1>1. OpToRel(<, Nat) = R
  BY Zenon DEF OpToRel
<1>2. IsWellFoundedOn(R, Nat)
  BY <1>1, NatLessThanWellFounded, Zenon
<1> HIDE DEF R
<1>3. PICK n \in T : \A k \in T : <<k, n>> \notin R
  BY <1>2, WFMin, Zenon
<1>4. ASSUME NEW k \in T PROVE n <= k
  <2>1. <<k, n>> \notin R /\ k \in Nat /\ n \in Nat
    BY <1>3
  <2>2. QED
    BY <2>1 DEF R
<1>5. QED
  BY <1>4

\* A function that at p calls itself at sg[p], unless p is in the base B where
\* its value is h[p], and does G with the result.
EsRecursiva(n, D, V, B, sg, h, G) ==
    n \in [D -> V] /\ \A p \in D : n[p] = IF p \in B THEN h[p] ELSE G[n[sg[p]]]

\* The measure m, which is at most M, decreases at each call.
Decrece(D, B, M, m, sg) ==
    /\ M \in Nat /\ m \in [D -> 0..M] /\ sg \in [D -> D]
    /\ \A p \in D : p \notin B => m[sg[p]] < m[p]

\* With a measure that decreases there is such a function.
LEMMA Recursion ==
    ASSUME NEW D, NEW V, NEW B, NEW M, NEW m, NEW sg, NEW h \in [D -> V], NEW G \in [V -> V],
           Decrece(D, B, M, m, sg)
    PROVE  \E n : EsRecursiva(n, D, V, B, sg, h, G)
<1>0. /\ M \in Nat /\ m \in [D -> 0..M] /\ sg \in [D -> D]
      /\ \A p \in D : p \notin B => m[sg[p]] < m[p]
  BY DEF Decrece
<1> DEFINE Valor(n, p) == IF p \in B THEN h[p] ELSE G[n[sg[p]]]
           Hasta(k) == \E n \in [D -> V] : \A p \in D : m[p] < k => n[p] = Valor(n, p)
           Malos == {k \in Nat : ~Hasta(k)}
<1>1. Malos = {}
  <2> SUFFICES ASSUME Malos # {} PROVE FALSE
    OBVIOUS
  <2>1. PICK k \in Malos : \A j \in Malos : k <= j
    <3>1. Malos \subseteq Nat
      OBVIOUS
    <3> HIDE DEF Malos
    <3>2. QED
      BY <3>1, Minimo
  <2>2. k \in Nat /\ ~Hasta(k)
    BY <2>1
  <2>3. k # 0
    <3>1. Hasta(0)
      <4>1. \A p \in D : m[p] < 0 => h[p] = Valor(h, p)
        BY <1>0
      <4>2. QED
        BY <4>1
    <3> HIDE DEF Hasta
    <3>2. QED
      BY <2>2, <3>1
  <2>4. Hasta(k - 1)
    <3> HIDE DEF Hasta
    <3>1. k - 1 \in Nat /\ ~(k <= k - 1)
      BY <2>2, <2>3
    <3>2. k - 1 \notin Malos
      <4> HIDE DEF Malos
      <4>1. QED
        BY <2>1, <3>1
    <3>3. QED
      BY <3>1, <3>2
  <2>5. PICK n \in [D -> V] : \A p \in D : m[p] < k - 1 => n[p] = Valor(n, p)
    BY <2>4
  <2> DEFINE n1 == [p \in D |-> Valor(n, p)]
  <2>6. n1 \in [D -> V]
    BY <1>0
  <2>7. ASSUME NEW p \in D, m[p] < k PROVE n1[p] = Valor(n1, p)
    <3>1. CASE p \in B
      BY <3>1
    <3>2. CASE p \notin B
      <4>1. sg[p] \in D /\ m[sg[p]] < k - 1
        BY <1>0, <2>2, <2>7, <3>2
      <4>2. n1[sg[p]] = n[sg[p]]
        BY <2>5, <4>1
      <4>3. QED
        BY <3>2, <4>2
    <3>3. QED
      BY <3>1, <3>2
  <2> HIDE DEF n1, Valor
  <2>8. Hasta(k)
    BY <2>6, <2>7
  <2>9. QED
    BY <2>2, <2>8
<1>2. Hasta(M + 1)
  <2> HIDE DEF Hasta
  <2>1. M + 1 \notin Malos /\ M + 1 \in Nat
    <3> HIDE DEF Malos
    <3>1. QED
      BY <1>0, <1>1
  <2>2. QED
    BY <2>1
<1>3. PICK n \in [D -> V] : \A p \in D : m[p] < M + 1 => n[p] = Valor(n, p)
  BY <1>2
<1>4. \A p \in D : m[p] < M + 1
  BY <1>0
<1>5. \A p \in D : n[p] = Valor(n, p)
  BY <1>3, <1>4
<1>6. QED
  BY <1>5 DEF EsRecursiva

\* What holds in the base, and at p when it holds at sg[p], holds everywhere.
LEMMA InduccionEnMedida ==
    ASSUME NEW D, NEW B, NEW M, NEW m, NEW sg, NEW P,
           Decrece(D, B, M, m, sg),
           \A p \in D : p \in B \/ sg[p] \in P => p \in P
    PROVE  D \subseteq P
<1> DEFINE Malos == {p \in D : p \notin P}
           T == {m[p] : p \in Malos}
<1> SUFFICES ASSUME Malos # {} PROVE FALSE
  OBVIOUS
<1>1. /\ M \in Nat /\ m \in [D -> 0..M] /\ sg \in [D -> D]
      /\ \A p \in D : p \notin B => m[sg[p]] < m[p]
  BY DEF Decrece
<1>2. T \subseteq Nat /\ T # {}
  BY <1>1
<1>3. PICK k \in T : \A j \in T : k <= j
  <2> HIDE DEF T
  <2>1. QED
    BY <1>2, Minimo
<1>4. PICK p \in Malos : k = m[p]
  OBVIOUS
<1>5. p \in D /\ p \notin B /\ sg[p] \notin P
  BY <1>4
<1>6. sg[p] \in Malos /\ m[sg[p]] < m[p] /\ m[sg[p]] \in Nat /\ m[p] \in Nat
  BY <1>1, <1>5
<1>7. m[sg[p]] \in T
  BY <1>6
<1>8. k <= m[sg[p]]
  <2> HIDE DEF T, Malos
  <2>1. QED
    BY <1>3, <1>7
<1>9. QED
  BY <1>4, <1>6, <1>8

-----------------------------------------------------------------------------
(* The matrix of sectors *)

\* A sector is its cylinder times the sectors of one, and its column.
LEMMA Division ==
    ASSUME NEW s \in Int
    PROVE  /\ s \div Sectores \in Int /\ s % Sectores \in 0..Sectores - 1
           /\ s = ((s \div Sectores) * Sectores) + (s % Sectores)
<1>1. Sectores \in Nat \ {0}
  BY GeometriaAssumption
<1>2. QED
  BY <1>1

\* Only one cylinder and one column make a given number.
LEMMA DivisionUnica ==
    ASSUME NEW i \in Int, NEW j \in 0..Sectores - 1
    PROVE  ((i * Sectores) + j) \div Sectores = i /\ ((i * Sectores) + j) % Sectores = j
<1>1. Sectores \in Nat \ {0}
  BY GeometriaAssumption
<1>2. QED
  BY <1>1

\* The place of a number of the disk, and the number of a place.
LEMMA LugarDeId ==
    ASSUME NEW s \in Ids
    PROVE  /\ Donde(s) \in Lugares
           /\ s \div Sectores \in 0..Cilindros - 1
           /\ s % Sectores \in 0..Sectores - 1
           /\ ImDisco(Donde(s)) = s
<1>1. s \in Int /\ 0 <= s /\ s < Cilindros * Sectores
  BY GeometriaAssumption DEF Ids, Total
<1> DEFINE i == s \div Sectores
           j == s % Sectores
<1>2. i \in Int /\ j \in 0..Sectores - 1 /\ s = (i * Sectores) + j
  BY <1>1, Division
<1> HIDE DEF i, j
<1>3. i \in 0..Cilindros - 1
  <2>1. i >= 0
    BY <1>1, <1>2, GeometriaAssumption
  <2>2. i < Cilindros
    <3> SUFFICES ASSUME i >= Cilindros PROVE FALSE
      BY <1>2, GeometriaAssumption
    <3>1. i * Sectores >= Cilindros * Sectores
      BY <1>2, GeometriaAssumption
    <3>2. QED
      BY <1>1, <1>2, <3>1, GeometriaAssumption
  <2>3. QED
    BY <1>2, <2>1, <2>2, GeometriaAssumption
<1>4. QED
  BY <1>2, <1>3 DEF Donde, Lugares, ImDisco, i, j

\* The number of a place is a number of the disk, and names no other place.
LEMMA IdDeLugar ==
    ASSUME NEW p \in Lugares
    PROVE  ImDisco(p) \in Ids /\ Donde(ImDisco(p)) = p
<1>1. p[1] \in 0..Cilindros - 1 /\ p[2] \in 0..Sectores - 1 /\ p = <<p[1], p[2]>>
  BY DEF Lugares
<1>2. ImDisco(p) \in Ids
  <2>1. p[1] * Sectores <= (Cilindros - 1) * Sectores /\ p[1] * Sectores >= 0
    BY <1>1, GeometriaAssumption
  <2>2. QED
    BY <1>1, <2>1, GeometriaAssumption DEF ImDisco, Ids, Total
<1>3. QED
  <2>1. p[1] \in Int
    BY <1>1
  <2>2. Donde(ImDisco(p)) = <<p[1], p[2]>>
    BY <1>1, <2>1, DivisionUnica DEF Donde, ImDisco
  <2>3. QED
    BY <1>1, <1>2, <2>2

\* The column past the end of a cylinder has the number of the sector after it.
LEMMA IdDeColumna ==
    ASSUME NEW p \in (0..Cilindros - 1) \X (0..Sectores)
    PROVE  ImDisco(p) \in 0..Total
<1>1. p[1] \in 0..Cilindros - 1 /\ p[2] \in 0..Sectores
  OBVIOUS
<1>2. p[1] * Sectores <= (Cilindros - 1) * Sectores /\ p[1] * Sectores >= 0
  BY <1>1, GeometriaAssumption
<1>3. QED
  BY <1>1, <1>2, GeometriaAssumption DEF ImDisco, Total

LEMMA LugaresHolgados == Lugares \subseteq (0..Cilindros - 1) \X (0..Sectores)
BY GeometriaAssumption DEF Lugares

LEMMA RotadoTipo ==
    ASSUME NEW p \in (0..Cilindros - 1) \X (0..Sectores)
    PROVE  Rotado(p) \in Lugares
BY GeometriaAssumption DEF Rotado, Sgte, Lugares

LEMMA UbicarTipo ==
    ASSUME NEW idCab \in Ids
    PROVE  Ubicar(idCab) \in Lugares
BY LugarDeId, GeometriaAssumption DEF Ubicar, Lugares

LEMMA PasoTipo ==
    ASSUME NEW p \in (0..Cilindros - 1) \X (0..Sectores), NEW s \in Int
    PROVE  Paso(p, s) \in Lugares
BY RotadoTipo, GeometriaAssumption DEF Paso, Sgte, Lugares

-----------------------------------------------------------------------------
(* The walk to a sector *)

\* How far a place is: the rest of a turn when it is in the cylinder of the
\* sector, and otherwise a step to each cylinder before it and a turn.
Columnas(j, d) == IF j <= d THEN d - j ELSE d - j + Sectores
Distancia(q, s) ==
    IF s \div Sectores = q[1]
      THEN Columnas(q[2], s % Sectores)
      ELSE (IF q[1] < s \div Sectores THEN (s \div Sectores) - q[1]
                                      ELSE (s \div Sectores) - q[1] + Cilindros) + Sectores - 1

\* The longest walk.
Vuelta == Cilindros + Sectores - 2

LEMMA DistanciaTipo ==
    ASSUME NEW q \in Lugares, NEW s \in Ids
    PROVE  Distancia(q, s) \in 0..Vuelta
<1>1. s \div Sectores \in 0..Cilindros - 1 /\ s % Sectores \in 0..Sectores - 1
  BY LugarDeId
<1>2. q[1] \in 0..Cilindros - 1 /\ q[2] \in 0..Sectores - 1
  BY DEF Lugares
<1>3. QED
  BY <1>1, <1>2, GeometriaAssumption DEF Distancia, Columnas, Vuelta

\* A step of the walk brings the head nearer.
LEMMA PasoAcerca ==
    ASSUME NEW q \in Lugares, NEW s \in Ids, ImDisco(q) # s
    PROVE  Distancia(Paso(q, s), s) < Distancia(q, s)
<1> DEFINE c == s \div Sectores
           d == s % Sectores
<1>1. c \in 0..Cilindros - 1 /\ d \in 0..Sectores - 1 /\ ImDisco(<<c, d>>) = s
  BY LugarDeId DEF Donde
<1>2. q[1] \in 0..Cilindros - 1 /\ q[2] \in 0..Sectores - 1 /\ q = <<q[1], q[2]>>
  BY DEF Lugares
<1> HIDE DEF c, d
<1>3. CASE c = q[1]
  <2>1. q[2] # d
    BY <1>1, <1>2, <1>3
  <2>2. Paso(q, s) = <<q[1], Sgte(q[2])>>
    BY <1>3 DEF Paso, Rotado, c
  <2>3. Distancia(q, s) = Columnas(q[2], d) /\ Distancia(Paso(q, s), s) = Columnas(Sgte(q[2]), d)
    BY <1>3, <2>2 DEF Distancia, c, d
  <2>4. QED
    BY <1>1, <1>2, <2>1, <2>3, GeometriaAssumption DEF Columnas, Sgte
<1>4. CASE c # q[1]
  <2> DEFINE i == IF q[1] < Cilindros - 1 THEN q[1] + 1 ELSE 0
  <2>1. Paso(q, s) = <<i, Sgte(q[2])>>
    BY <1>4 DEF Paso, c
  <2>2. Distancia(q, s) = (IF q[1] < c THEN c - q[1] ELSE c - q[1] + Cilindros) + Sectores - 1
    BY <1>4 DEF Distancia, c
  <2>3. Distancia(Paso(q, s), s) =
          IF c = i THEN Columnas(Sgte(q[2]), d)
                   ELSE (IF i < c THEN c - i ELSE c - i + Cilindros) + Sectores - 1
    BY <2>1 DEF Distancia, c, d
  <2>4. Columnas(Sgte(q[2]), d) \in 0..Sectores - 1
    BY <1>1, <1>2, GeometriaAssumption DEF Columnas, Sgte
  <2>5. QED
    BY <1>1, <1>2, <1>4, <2>2, <2>3, <2>4, GeometriaAssumption
<1>5. QED
  BY <1>3, <1>4

\* The function that the walk computes, for a sector of the disk.
CruzadosHasta(s) ==
    CHOOSE n : n = [q \in Lugares |-> IF ImDisco(q) = s THEN 0 ELSE 1 + n[Paso(q, s)]]

LEMMA CruzadosHastaTipo ==
    ASSUME NEW s \in Ids
    PROVE  \A q \in Lugares :
             /\ CruzadosHasta(s)[q] \in 0..Distancia(q, s)
             /\ CruzadosHasta(s)[q] = IF ImDisco(q) = s THEN 0
                                                       ELSE 1 + CruzadosHasta(s)[Paso(q, s)]
<1> DEFINE B == {q \in Lugares : ImDisco(q) = s}
           m == [q \in Lugares |-> Distancia(q, s)]
           sg == [q \in Lugares |-> Paso(q, s)]
           h == [q \in Lugares |-> 0]
           G == [k \in Nat |-> 1 + k]
           F(n) == [q \in Lugares |-> IF ImDisco(q) = s THEN 0 ELSE 1 + n[Paso(q, s)]]
<1>1. s \in Int /\ Vuelta \in Nat
  BY GeometriaAssumption DEF Ids, Vuelta
<1>2. \A q \in Lugares : Paso(q, s) \in Lugares
  BY <1>1, PasoTipo, LugaresHolgados
<1>3. \A q \in Lugares : Distancia(q, s) \in 0..Vuelta
  BY DistanciaTipo
<1>4. Decrece(Lugares, B, Vuelta, m, sg)
  <2>1. ASSUME NEW q \in Lugares, q \notin B PROVE m[sg[q]] < m[q]
    <3>1. ImDisco(q) # s /\ sg[q] \in Lugares /\ sg[q] = Paso(q, s)
      BY <1>2, <2>1
    <3>2. QED
      BY <3>1, PasoAcerca
  <2>2. m \in [Lugares -> 0..Vuelta] /\ sg \in [Lugares -> Lugares]
    BY <1>2, <1>3
  <2>3. QED
    BY <1>1, <2>1, <2>2 DEF Decrece
<1>5. \E n : n = F(n)
  <2>1. \E n : EsRecursiva(n, Lugares, Nat, B, sg, h, G)
    <3>1. h \in [Lugares -> Nat] /\ G \in [Nat -> Nat]
      OBVIOUS
    <3> HIDE DEF B, m, sg, h, G
    <3>2. QED
      BY <1>4, <3>1, Recursion
  <2>2. PICK n : EsRecursiva(n, Lugares, Nat, B, sg, h, G)
    BY <2>1
  <2>3. \A q \in Lugares : n[q] = IF ImDisco(q) = s THEN 0 ELSE 1 + n[Paso(q, s)]
    BY <1>2, <2>2 DEF EsRecursiva
  <2>4. n = F(n)
    BY <2>2, <2>3 DEF EsRecursiva
  <2>5. QED
    BY <2>4
<1>6. PICK n : n = CruzadosHasta(s)
  OBVIOUS
<1>7. n = F(n)
  BY <1>5, <1>6 DEF CruzadosHasta
<1>8. \A q \in Lugares : n[q] = IF ImDisco(q) = s THEN 0 ELSE 1 + n[Paso(q, s)]
  BY <1>7
<1> DEFINE P == {q \in Lugares : n[q] \in 0..Distancia(q, s)}
<1>9. \A q \in Lugares : q \in B \/ sg[q] \in P => q \in P
  <2>1. ASSUME NEW q \in Lugares, ImDisco(q) = s PROVE q \in P
    BY <1>3, <1>8, <2>1
  <2>2. ASSUME NEW q \in Lugares, ImDisco(q) # s, Paso(q, s) \in P PROVE q \in P
    <3>1. n[q] = 1 + n[Paso(q, s)] /\ n[Paso(q, s)] \in 0..Distancia(Paso(q, s), s)
      BY <1>8, <2>2
    <3>2. Distancia(Paso(q, s), s) < Distancia(q, s) /\ Distancia(q, s) \in Nat
          /\ Distancia(Paso(q, s), s) \in Nat
      BY <1>2, <1>3, <2>2, PasoAcerca
    <3>3. QED
      BY <3>1, <3>2
  <2>3. QED
    BY <2>1, <2>2
<1>10. Lugares \subseteq P
  <2> HIDE DEF P, B, m, sg
  <2>1. QED
    BY <1>4, <1>9, InduccionEnMedida
<1>11. QED
  BY <1>6, <1>8, <1>10

\* What the walk crosses from p to the sector s: the equation that defines it, and
\* its bound.
LEMMA CruzadosTipo ==
    ASSUME NEW p \in Lugares, NEW s \in Ids
    PROVE  /\ Cruzados(p, s) \in 0..Vuelta
           /\ Cruzados(p, s) = IF ImDisco(p) = s THEN 0 ELSE 1 + Cruzados(Paso(p, s), s)
<1>1. \A q : Cruzados(q, s) = CruzadosHasta(s)[q]
  BY DEF Cruzados, CruzadosHasta
<1>2. Distancia(p, s) \in 0..Vuelta /\ Vuelta \in Nat
  BY DistanciaTipo, GeometriaAssumption DEF Vuelta
<1>3. QED
  BY <1>1, <1>2, CruzadosHastaTipo

-----------------------------------------------------------------------------
(* The search of escribirSector *)

Holgados == (0..Cilindros - 1) \X (0..Sectores)

LugarEscribiendo(idCab) ==
    CHOOSE lugar : lugar = [p \in Holgados |->
        CASE p[1] = Cilindros - 1 \/ ImDisco(p) = idCab -> p
          [] OTHER -> IF p[2] < Sectores - 1 THEN lugar[<<p[1], p[2] + 2>>]
                                             ELSE lugar[<<p[1] + 1, 1>>]]

\* The search ends, on the disk or one column past the end of a cylinder.
LEMMA UbicarEscribiendoTipo ==
    ASSUME NEW idCab
    PROVE  UbicarEscribiendo(idCab) \in Holgados
<1> DEFINE B == {p \in Holgados : p[1] = Cilindros - 1 \/ ImDisco(p) = idCab}
           S(p) == IF p[2] < Sectores - 1 THEN <<p[1], p[2] + 2>> ELSE <<p[1] + 1, 1>>
           sg == [p \in Holgados |-> IF p \in B THEN p ELSE S(p)]
           D(p) == ((Cilindros - p[1]) * (Sectores + 2)) - p[2]
           m == [p \in Holgados |-> D(p)]
           M == Cilindros * (Sectores + 2)
           h == [p \in Holgados |-> p]
           F(n) == [p \in Holgados |->
                      CASE p[1] = Cilindros - 1 \/ ImDisco(p) = idCab -> p
                        [] OTHER -> IF p[2] < Sectores - 1 THEN n[<<p[1], p[2] + 2>>]
                                                           ELSE n[<<p[1] + 1, 1>>]]
<1>1. \A p \in Holgados : p[1] \in 0..Cilindros - 1 /\ p[2] \in 0..Sectores
  BY DEF Holgados
<1>2. \A p \in Holgados : p \notin B => S(p) \in Holgados
  BY <1>1, GeometriaAssumption DEF Holgados
<1>3. Decrece(Holgados, B, M, m, sg)
  <2>1. M \in Nat
    BY GeometriaAssumption
  <2>2. ASSUME NEW p \in Holgados PROVE D(p) \in 0..M
    <3>1. PICK k \in Nat : k = Cilindros - p[1] /\ k >= 1 /\ k <= Cilindros
      BY <1>1, GeometriaAssumption
    <3>2. k * (Sectores + 2) >= Sectores + 2
      BY <3>1, GeometriaAssumption
    <3>3. k * (Sectores + 2) <= Cilindros * (Sectores + 2)
      BY <3>1, GeometriaAssumption
    <3>4. k * (Sectores + 2) \in Int /\ Cilindros * (Sectores + 2) \in Int
      BY <3>1, GeometriaAssumption
    <3>5. QED
      BY <1>1, <3>1, <3>2, <3>3, <3>4, GeometriaAssumption
  <2>3. ASSUME NEW p \in Holgados, p \notin B PROVE m[sg[p]] < m[p]
    <3>1. sg[p] = S(p) /\ S(p) \in Holgados
      BY <1>2, <2>3
    <3>2. D(S(p)) < D(p)
      <4>1. CASE p[2] < Sectores - 1
        <5>1. S(p)[1] = p[1] /\ S(p)[2] = p[2] + 2
          BY <4>1
        <5>2. (Cilindros - p[1]) * (Sectores + 2) \in Int
          BY <1>1, GeometriaAssumption
        <5>3. QED
          BY <1>1, <5>1, <5>2
      <4>2. CASE ~(p[2] < Sectores - 1)
        <5>1. S(p)[1] = p[1] + 1 /\ S(p)[2] = 1
          BY <4>2
        <5>2. (Cilindros - (p[1] + 1)) * (Sectores + 2)
                = ((Cilindros - p[1]) * (Sectores + 2)) - (Sectores + 2)
          BY <1>1, GeometriaAssumption
        <5>3. (Cilindros - p[1]) * (Sectores + 2) \in Int
          BY <1>1, GeometriaAssumption
        <5>4. QED
          BY <1>1, <5>1, <5>2, <5>3, GeometriaAssumption
      <4>3. QED
        BY <4>1, <4>2
    <3>3. QED
      BY <3>1, <3>2
  <2>4. m \in [Holgados -> 0..M]
    BY <2>2
  <2>5. sg \in [Holgados -> Holgados]
    BY <1>2
  <2>6. QED
    BY <2>1, <2>3, <2>4, <2>5 DEF Decrece
<1>4. \E n : n = F(n)
  <2>1. \E n : EsRecursiva(n, Holgados, Holgados, B, sg, h, h)
    <3>1. h \in [Holgados -> Holgados]
      OBVIOUS
    <3> HIDE DEF B, m, sg, h, M
    <3>2. QED
      BY <1>3, <3>1, Recursion
  <2>2. PICK n : EsRecursiva(n, Holgados, Holgados, B, sg, h, h)
    BY <2>1
  <2>3. n \in [Holgados -> Holgados]
        /\ \A p \in Holgados : n[p] = IF p \in B THEN p ELSE n[S(p)]
    BY <1>2, <2>2 DEF EsRecursiva
  <2>4. \A p \in Holgados : n[p] = F(n)[p]
    BY <2>3
  <2>5. n = F(n)
    BY <2>3, <2>4
  <2>6. QED
    BY <2>5
<1>5. PICK n : n = LugarEscribiendo(idCab)
  OBVIOUS
<1>6. n = F(n)
  BY <1>4, <1>5 DEF LugarEscribiendo
<1>7. \A p \in Holgados : n[p] = IF p \in B THEN p ELSE n[S(p)]
  BY <1>6
<1> DEFINE P == {p \in Holgados : n[p] \in Holgados}
<1>8. \A p \in Holgados : p \in B \/ sg[p] \in P => p \in P
  BY <1>7
<1>9. Holgados \subseteq P
  <2> HIDE DEF P, B, m, sg, M
  <2>1. QED
    BY <1>3, <1>8, InduccionEnMedida
<1>10. <<0, 0>> \in Holgados
  BY GeometriaAssumption DEF Holgados
<1>11. UbicarEscribiendo(idCab) = n[<<0, 0>>]
  BY <1>5 DEF UbicarEscribiendo, LugarEscribiendo, Holgados
<1>12. QED
  BY <1>9, <1>10, <1>11

-----------------------------------------------------------------------------
(* The states and the handlers.                                             *)

\* The sectors a request may name.
Pedibles == Ids \union {Total}

\* What the directory and memcached may have of one.
Contados == Contenidos \union {NoHay}

\* What is sent to the loop: as many sectors as its type says and, in a write, a
\* content of each of them.
Mensajes == {m \in [t : Tipos, s : Seq(Pedibles), d : Seq(Contenidos)] :
    /\ m.t \in {"GET2", "PUT2"} => Len(m.s) = 2
    /\ m.t \in {"GET1", "PUT1", "DEFINITIVO", "DEPASO", "ESCRIBIR"} => Len(m.s) = 1
    /\ m.t \in TiposPut => Len(m.d) = Len(m.s)
    /\ \A k \in DOMAIN m.d : DelSector(m.s[k], m.d[k])}

Respuestas == [t : {"GET", "DEPASO", "PUT_OK", "PUT_FAIL", "CHS"}, d : Seq(Contenidos)]

\* stEstadisticas, and without a cache the bound of its worst time.
Estadisticas == [buscados : Nat, busquedas : 0..Ancho - 1, peor : Nat, hit : Nat,
                 miss : Nat, tCache : 0..Ancho - 1]

Cota == ((Cilindros + Sectores - 1) * TLectura) + TCache

Medida(x) == ~HayCache => x.tCache = TCache /\ x.peor <= Cota

\* No content is at a sector that is not its own.
Fiel(l, c) == /\ \A s \in Ids : DelSector(s, l[s])
              /\ \A s \in Pedibles : DelSector(s, c[s])

\* What a handler works on, and the part of it that keeps what InvDisco says.
Estados == [ldap : [Ids -> Contados], sesion : {"viva", "perdida"},
            memc : [Pedibles -> Contados], iCache : {"cero", "cache", "rota"},
            cab : Ids, est : Estadisticas, d : Seq(Contenidos), ok : BOOLEAN,
            rta : Seq(Respuestas), fin : {"sigue", "colgado", "muere"}]

Buenos == {e \in Estados : Fiel(e.ldap, e.memc) /\ Medida(e.est)}

\* The last buffer holds the content of s.
Trae(e, s) == e.d # <<>> /\ DelSector(s, e.d[Len(e.d)])

LEMMA LdapGetSectorBueno ==
    ASSUME NEW e \in Buenos, NEW s \in Pedibles, NEW x \in LdapGetSector(e, s)
    PROVE  x \in Buenos /\ (x.fin = "sigue" => Trae(x, s))
<1>1. e \in Estados
  BY DEF Buenos
<1>2. Vacio \in Contenidos
  BY DEF Contenidos
<1>3. s \in Ids /\ e.ldap[s] # NoHay => e.ldap[s] \in Contenidos /\ DelSector(s, e.ldap[s])
  BY <1>1 DEF Estados, Buenos, Fiel, Contados
<1>4. PICK v \in Contenidos : /\ DelSector(s, v)
                              /\ \/ x = [e EXCEPT !.d = Append(@, v)]
                                 \/ x = [e EXCEPT !.d = Append(@, v), !.sesion = "perdida"]
                                 \/ x = [e EXCEPT !.fin = "muere"]
  BY <1>2, <1>3 DEF LdapGetSector, DelSector
<1>5. CASE x = [e EXCEPT !.fin = "muere"]
  BY <1>1, <1>5 DEF Buenos, Estados
<1>6. CASE \/ x = [e EXCEPT !.d = Append(@, v)]
           \/ x = [e EXCEPT !.d = Append(@, v), !.sesion = "perdida"]
  <2> DEFINE d == Append(e.d, v)
  <2>0. d \in Seq(Contenidos) /\ d # <<>> /\ d[Len(d)] = v
    BY <1>1, SMTT(30) DEF Estados
  <2> HIDE DEF d
  <2>1. x \in Estados /\ x.ldap = e.ldap /\ x.memc = e.memc /\ x.est = e.est /\ x.d = d
    <3>1. x = [e EXCEPT !.d = d] \/ x = [e EXCEPT !.d = d, !.sesion = "perdida"]
      BY <1>6 DEF d
    <3>2. QED
      BY <1>1, <2>0, <3>1 DEF Estados
  <2>2. Trae(x, s)
    BY <1>4, <2>0, <2>1 DEF Trae
  <2>3. QED
    BY <2>1, <2>2 DEF Buenos
<1>7. QED
  BY <1>4, <1>5, <1>6

LEMMA LdapModificarSectorBueno ==
    ASSUME NEW e \in Buenos, NEW s \in Pedibles, NEW v \in Contenidos, DelSector(s, v), NEW falla,
           NEW x \in LdapModificarSector(e, s, v, falla)
    PROVE  x \in Buenos
<1>1. e \in Estados
  BY DEF Buenos
<1>2. \/ s \in Ids /\ x = [e EXCEPT !.ldap[s] = v, !.ok = TRUE]
      \/ x = [e EXCEPT !.ok = FALSE]
      \/ x = [e EXCEPT !.fin = "muere"]
  BY DEF LdapModificarSector
<1>3. CASE s \in Ids /\ x = [e EXCEPT !.ldap[s] = v, !.ok = TRUE]
  <2>1. x \in Estados /\ x.ldap = [e.ldap EXCEPT ![s] = v] /\ x.memc = e.memc /\ x.est = e.est
    BY <1>1, <1>3 DEF Estados, Contados
  <2>2. Fiel(x.ldap, x.memc)
    BY <1>1, <2>1 DEF Estados, Buenos, Fiel
  <2>3. QED
    BY <2>1, <2>2 DEF Buenos
<1>4. CASE x = [e EXCEPT !.ok = FALSE] \/ x = [e EXCEPT !.fin = "muere"]
  BY <1>1, <1>4 DEF Buenos, Estados
<1>5. QED
  BY <1>2, <1>3, <1>4

LEMMA PeticionCacheBuena ==
    ASSUME NEW e \in Buenos, NEW s \in Pedibles, NEW x \in PeticionCache(e, s)
    PROVE  x \in Buenos
<1>1. e \in Estados
  BY DEF Buenos
<1>2. PICK v \in Contenidos : \/ x = [e EXCEPT !.d = Append(@, v)]
                              \/ x = [e EXCEPT !.fin = "muere"]
                              \/ x = e
  BY <1>1, Zenon DEF PeticionCache, Estados, Contados, Contenidos
<1>3. Append(e.d, v) \in Seq(Contenidos)
  BY <1>1 DEF Estados
<1>4. QED
  BY <1>1, <1>2, <1>3 DEF Buenos, Estados

\* Changing the statistics, or the content the cache has of a sector.
LEMMA EstCambiada ==
    ASSUME NEW e \in Buenos, NEW v \in Estadisticas, Medida(v)
    PROVE  [e EXCEPT !.est = v] \in Buenos
BY DEF Buenos, Estados

LEMMA MemcCambiada ==
    ASSUME NEW e \in Buenos, NEW s \in Pedibles, NEW v \in Contenidos, DelSector(s, v)
    PROVE  [e EXCEPT !.memc[s] = v] \in Buenos
<1> DEFINE c == [e.memc EXCEPT ![s] = v]
           x == [e EXCEPT !.memc = c]
<1>1. e \in Estados
  BY DEF Buenos
<1>2. c \in [Pedibles -> Contados]
  BY <1>1 DEF Estados, Contados
<1>3. Fiel(e.ldap, c)
  BY <1>1 DEF Estados, Buenos, Fiel
<1> HIDE DEF c
<1>4. x \in Estados /\ x.ldap = e.ldap /\ x.memc = c /\ x.est = e.est
  BY <1>1, <1>2 DEF Estados
<1>5. x \in Buenos
  BY <1>3, <1>4 DEF Buenos
<1>6. QED
  BY <1>5 DEF c

LEMMA LeerConCacheBueno ==
    ASSUME NEW e \in Buenos, NEW s \in Pedibles, NEW x \in LeerConCache(e, s)
    PROVE  x \in Buenos
<1> DEFINE fallo(e1) == [e1 EXCEPT !.est.miss = @ + 1]
<1>1. PICK e1 \in PeticionCache(e, s) :
        x \in IF e1.fin = "sigue"
                THEN IF Acierta(e, s)
                       THEN {[e1 EXCEPT !.est.hit = @ + 1]}
                       ELSE Luego(LdapGetSector(fallo(e1), s),
                                  LAMBDA e2 : PonerEnCache(e2, s))
                ELSE {e1}
  BY DEF LeerConCache, Luego
<1>2. e1 \in Buenos /\ e1.est \in Estadisticas /\ Medida(e1.est)
  BY PeticionCacheBuena DEF Buenos, Estados
<1>3. CASE e1.fin # "sigue"
  BY <1>1, <1>2, <1>3
<1>4. CASE x = [e1 EXCEPT !.est.hit = @ + 1]
  <2> DEFINE v == [e1.est EXCEPT !.hit = @ + 1]
  <2>1. v \in Estadisticas /\ Medida(v)
    BY <1>2 DEF Estadisticas, Medida
  <2>2. x = [e1 EXCEPT !.est = v]
    BY <1>4
  <2>3. QED
    BY <1>2, <2>1, <2>2, EstCambiada
<1>5. CASE x \in Luego(LdapGetSector(fallo(e1), s), LAMBDA e2 : PonerEnCache(e2, s))
  <2> DEFINE v == [e1.est EXCEPT !.miss = @ + 1]
  <2>1. v \in Estadisticas /\ Medida(v)
    BY <1>2 DEF Estadisticas, Medida
  <2>2. fallo(e1) \in Buenos
    BY <1>2, <2>1, EstCambiada
  <2> HIDE DEF fallo
  <2>3. PICK e2 \in LdapGetSector(fallo(e1), s) :
          x \in IF e2.fin = "sigue" THEN PonerEnCache(e2, s) ELSE {e2}
    BY <1>5 DEF Luego
  <2>4. e2 \in Buenos /\ (e2.fin = "sigue" => Trae(e2, s))
    BY <2>2, LdapGetSectorBueno
  <2>5. CASE e2.fin = "sigue"
    <3>1. e2.d[Len(e2.d)] \in Contenidos /\ DelSector(s, e2.d[Len(e2.d)])
      BY <2>4, <2>5 DEF Trae, Buenos, Estados
    <3>2. x = [e2 EXCEPT !.memc[s] = e2.d[Len(e2.d)]]
      BY <2>3, <2>5 DEF PonerEnCache
    <3>3. QED
      BY <2>4, <3>1, <3>2, MemcCambiada
  <2>6. QED
    BY <2>3, <2>4, <2>5
<1>6. QED
  BY <1>1, <1>3, <1>4, <1>5

LEMMA DemorarBueno ==
    ASSUME NEW e \in Buenos, HayCache, NEW x \in Demorar(e)
    PROVE  x \in Buenos
<1>1. PICK ms \in Nat : x = [e EXCEPT !.est.tCache = (@ - ms) % Ancho]
  BY DiscoAssumption DEF Demorar
<1> DEFINE v == [e.est EXCEPT !.tCache = (@ - ms) % Ancho]
<1>2. e.est \in Estadisticas /\ Ancho \in Nat \ {0}
  BY DiscoAssumption DEF Buenos, Estados
<1>3. v \in Estadisticas
  <2>1. (e.est.tCache - ms) \in Int
    BY <1>2 DEF Estadisticas
  <2>2. (e.est.tCache - ms) % Ancho \in 0..Ancho - 1
    BY <1>2, <2>1
  <2>3. QED
    BY <1>2, <2>2 DEF Estadisticas
<1>4. Medida(v)
  BY DEF Medida
<1>5. x = [e EXCEPT !.est = v]
  BY <1>1
<1>6. QED
  BY <1>3, <1>4, <1>5, EstCambiada

\* A search takes at most the longest walk and the reading.
LEMMA TiempoTipo ==
    ASSUME NEW e \in Buenos, NEW s \in Ids
    PROVE  /\ Tiempo(e, s) \in 0..Ancho - 1
           /\ ~HayCache => Tiempo(e, s) <= Cota
<1> DEFINE n == Cruzados(Ubicar(e.cab), s)
           t == ((n + 1) * TLectura) + e.est.tCache
<1>1. e.cab \in Ids /\ e.est.tCache \in Nat /\ (~HayCache => e.est.tCache = TCache)
  BY DiscoAssumption DEF Buenos, Estados, Estadisticas, Medida
<1>2. n \in 0..Cilindros + Sectores - 2
  BY <1>1, UbicarTipo, CruzadosTipo DEF Vuelta
<1>3. Ancho \in Nat \ {0} /\ TLectura \in Nat /\ TCache \in Nat
      /\ Cilindros \in Nat /\ Sectores \in Nat
  BY DiscoAssumption, GeometriaAssumption
<1> HIDE DEF n
<1>4. (n + 1) * TLectura \in Nat /\ (n + 1) * TLectura <= (Cilindros + Sectores - 1) * TLectura
  BY <1>2, <1>3
<1>5. t \in Nat /\ (~HayCache => t <= Cota)
  <2>1. (Cilindros + Sectores - 1) * TLectura \in Int
    BY <1>3
  <2>2. QED
    BY <1>1, <1>3, <1>4, <2>1 DEF Cota
<1> HIDE DEF t
<1>6. t % Ancho \in 0..Ancho - 1 /\ t % Ancho <= t
  BY <1>3, <1>5
<1>7. Tiempo(e, s) = t % Ancho
  BY DEF Tiempo, n, t
<1>8. Cota \in Int
  BY <1>3 DEF Cota
<1>9. QED
  BY <1>3, <1>5, <1>6, <1>7, <1>8

LEMMA ContarBueno ==
    ASSUME NEW e \in Buenos, NEW s \in Pedibles
    PROVE  Contar(e, s) \in Buenos /\ Contar(e, s) = [e EXCEPT !.est = Contar(e, s).est]
<1>1. CASE s \notin Ids
  BY <1>1 DEF Contar, Buenos, Estados
<1>2. CASE s \in Ids
  <2> DEFINE n == Tiempo(e, s)
             peor == IF e.est.peor < n THEN n ELSE e.est.peor
             suma == (e.est.busquedas + n) % Ancho
             v == [e.est EXCEPT !.buscados = @ + 1, !.busquedas = suma, !.peor = peor]
  <2>1. n \in 0..Ancho - 1 /\ (~HayCache => n <= Cota)
    BY <1>2, TiempoTipo
  <2> HIDE DEF n
  <2>2. e.est \in Estadisticas /\ Medida(e.est) /\ Ancho \in Nat \ {0}
    BY DiscoAssumption DEF Buenos, Estados
  <2>3. suma \in 0..Ancho - 1
    <3>1. e.est.busquedas + n \in Nat
      BY <2>1, <2>2 DEF Estadisticas
    <3>2. QED
      BY <2>2, <3>1
  <2>4. peor \in Nat /\ (~HayCache => peor <= Cota)
    BY <2>1, <2>2 DEF Estadisticas, Medida
  <2> HIDE DEF peor, suma
  <2>5. v \in Estadisticas /\ Medida(v)
    <3>1. v \in Estadisticas
      <4>1. ASSUME NEW g \in Estadisticas, NEW k \in Nat, NEW b \in 0..Ancho - 1, NEW p \in Nat
            PROVE  [g EXCEPT !.buscados = k, !.busquedas = b, !.peor = p] \in Estadisticas
        BY DEF Estadisticas
      <4>2. e.est.buscados + 1 \in Nat
        BY <2>2 DEF Estadisticas
      <4>3. QED
        BY <2>2, <2>3, <2>4, <4>1, <4>2
    <3>2. v.tCache = e.est.tCache /\ v.peor = peor
      BY <2>2 DEF Estadisticas
    <3>3. QED
      BY <2>2, <2>4, <3>1, <3>2 DEF Medida
  <2>6. Contar(e, s) = [e EXCEPT !.est = v]
    BY <1>2 DEF Contar, n, peor, suma
  <2> HIDE DEF v
  <2>7. Contar(e, s) \in Buenos
    BY <2>5, <2>6, EstCambiada
  <2>8. Contar(e, s).est = v
    BY <2>6 DEF Buenos, Estados
  <2>9. QED
    BY <2>6, <2>7, <2>8
<1>3. QED
  BY <1>1, <1>2

LEMMA MoverBueno ==
    ASSUME NEW e \in Buenos, NEW s \in Pedibles
    PROVE  Mover(e, s) \in Buenos
<1>1. CASE s \in Ids
  <2>1. ImDisco(Rotado(Donde(s))) \in Ids
    BY <1>1, LugarDeId, LugaresHolgados, RotadoTipo, IdDeLugar
  <2>2. QED
    BY <1>1, <2>1 DEF Mover, Buenos, Estados
<1>2. CASE s \notin Ids
  BY <1>2 DEF Mover, Buenos, Estados
<1>3. QED
  BY <1>1, <1>2

LEMMA GenerarEstadisticasBueno ==
    ASSUME NEW e \in Buenos, NEW s \in Pedibles
    PROVE  /\ GenerarEstadisticasGet(e, s) \subseteq Buenos
           /\ GenerarEstadisticasPut(e, s) \subseteq Buenos
<1>1. Mover(Contar(e, s), s) \in Buenos
  BY ContarBueno, MoverBueno
<1>2. QED
  BY <1>1, MoverBueno DEF GenerarEstadisticasGet, GenerarEstadisticasPut

\* The sectors of a request: one or two.
LEMMA PorSectorBueno ==
    ASSUME NEW e \in Buenos, NEW s \in Seq(Pedibles), Len(s) \in {1, 2}
    PROVE  /\ s[1] \in Pedibles /\ (Len(s) = 2 => s[2] \in Pedibles)
           /\ PorSector(e, s, LdapGetSector) \subseteq Buenos
           /\ PorSector(e, s, GenerarEstadisticasGet) \subseteq Buenos
           /\ PorSector(e, s, GenerarEstadisticasPut) \subseteq Buenos
<1>1. s[1] \in Pedibles /\ (Len(s) = 2 => s[2] \in Pedibles)
  OBVIOUS
<1>2. PorSector(e, s, LdapGetSector) \subseteq Buenos
  BY <1>1, LdapGetSectorBueno DEF PorSector, Luego
<1>3. PorSector(e, s, GenerarEstadisticasGet) \subseteq Buenos
  BY <1>1, GenerarEstadisticasBueno DEF PorSector, Luego
<1>4. PorSector(e, s, GenerarEstadisticasPut) \subseteq Buenos
  BY <1>1, GenerarEstadisticasBueno DEF PorSector, Luego
<1>5. QED
  BY <1>1, <1>2, <1>3, <1>4

LEMMA ServirConCacheBueno ==
    ASSUME HayCache, NEW e \in Buenos, NEW s \in Pedibles
    PROVE  ServirConCache(e, s) \subseteq Buenos
<1> SUFFICES ASSUME NEW x \in ServirConCache(e, s) PROVE x \in Buenos
  OBVIOUS
<1>1. PICK e1 \in LeerConCache(e, s) :
        x \in IF e1.fin = "sigue"
                THEN Luego(Demorar(e1), LAMBDA e2 :
                        IF Acierta(e, s) THEN {e2} ELSE GenerarEstadisticasGet(e2, s))
                ELSE {e1}
  BY DEF ServirConCache, Luego
<1>2. e1 \in Buenos
  BY LeerConCacheBueno
<1>3. CASE e1.fin = "sigue"
  <2>1. PICK e2 \in Demorar(e1) : x \in {e2} \union GenerarEstadisticasGet(e2, s)
    BY <1>1, <1>3 DEF Luego
  <2>2. e2 \in Buenos
    BY <1>2, DemorarBueno
  <2>3. QED
    BY <2>1, <2>2, GenerarEstadisticasBueno
<1>4. QED
  BY <1>1, <1>2, <1>3

TiposRta == {"GET", "DEPASO", "PUT_OK", "PUT_FAIL", "CHS"}

LEMMA RespuestaBuena ==
    ASSUME NEW e \in Buenos, NEW t \in TiposRta
    PROVE  /\ [e EXCEPT !.rta = <<Rta(t, e.d)>>] \in Buenos
           /\ [e EXCEPT !.rta = <<Rta(t, <<>>)>>] \in Buenos
<1>1. e.d \in Seq(Contenidos) /\ <<>> \in Seq(Contenidos)
  BY DEF Buenos, Estados
<1>2. ASSUME NEW d \in Seq(Contenidos) PROVE [e EXCEPT !.rta = <<Rta(t, d)>>] \in Buenos
  <2>1. Rta(t, d) \in Respuestas
    BY DEF Rta, Respuestas, TiposRta
  <2>2. <<Rta(t, d)>> \in Seq(Respuestas)
    BY <2>1
  <2>3. QED
    BY <2>2 DEF Buenos, Estados
<1>3. QED
  BY <1>1, <1>2

LEMMA ContestarBueno ==
    ASSUME NEW E, E \subseteq Buenos, NEW t \in TiposRta
    PROVE  Contestar(E, t) \subseteq Buenos
<1>1. ASSUME NEW x \in Contestar(E, t)
      PROVE  \E e \in Buenos : x \in {e, [e EXCEPT !.rta = <<Rta(t, e.d)>>]}
  BY DEF Contestar, Luego
<1>2. QED
  BY <1>1, RespuestaBuena

LEMMA GetSectoresBueno ==
    ASSUME NEW e \in Buenos, NEW m \in Mensajes, Len(m.s) \in {1, 2}
    PROVE  GetSectores(e, m) \subseteq Buenos
<1>1. m.s \in Seq(Pedibles) /\ m.s[1] \in Pedibles /\ (Len(m.s) = 2 => m.s[2] \in Pedibles)
  BY DEF Mensajes
<1>2. "GET" \in TiposRta
  BY DEF TiposRta
<1>3. CASE HayCache
  <2>1. PorSector(e, m.s, ServirConCache) \subseteq Buenos
    BY <1>1, <1>3, ServirConCacheBueno DEF PorSector, Luego
  <2>2. QED
    BY <1>2, <1>3, <2>1, ContestarBueno DEF GetSectores
<1>4. CASE ~HayCache
  <2>1. ServirSinCache(e, m.s) \subseteq Buenos
    BY <1>1, PorSectorBueno DEF ServirSinCache, Luego
  <2>2. QED
    BY <1>2, <1>4, <2>1, ContestarBueno DEF GetSectores
<1>5. QED
  BY <1>3, <1>4

LEMMA ObtenerDefinitivoBueno ==
    ASSUME NEW e \in Buenos, NEW m \in Mensajes, m.t = "DEFINITIVO"
    PROVE  ObtenerDefinitivo(e, m) \subseteq Buenos
<1>1. m.s[1] \in Pedibles
  BY DEF Mensajes
<1>2. QED
  BY <1>1, LeerConCacheBueno, LdapGetSectorBueno, ContestarBueno DEF ObtenerDefinitivo, TiposRta

LEMMA ObtenerDePasoBueno ==
    ASSUME NEW e \in Buenos, NEW m \in Mensajes, m.t = "DEPASO"
    PROVE  ObtenerDePaso(e, m) \subseteq Buenos
<1>1. m.s[1] \in Pedibles
  BY DEF Mensajes
<1> DEFINE mira(e1) == IF Acierta(e, m.s[1]) THEN [e1 EXCEPT !.est.hit = @ + 1]
                                              ELSE [e1 EXCEPT !.est.miss = @ + 1]
           mirado == IF ~HayCache THEN {e}
                     ELSE Luego(PeticionCache(e, m.s[1]), LAMBDA e1 : {mira(e1)})
<1>2. ASSUME NEW e1 \in Buenos PROVE mira(e1) \in Buenos
  <2> DEFINE v == [e1.est EXCEPT !.hit = @ + 1]
             w == [e1.est EXCEPT !.miss = @ + 1]
  <2>1. e1.est \in Estadisticas /\ Medida(e1.est)
    BY DEF Buenos, Estados
  <2>2. v \in Estadisticas /\ Medida(v) /\ w \in Estadisticas /\ Medida(w)
    BY <2>1 DEF Estadisticas, Medida
  <2>3. [e1 EXCEPT !.est = v] \in Buenos /\ [e1 EXCEPT !.est = w] \in Buenos
    BY <2>2, EstCambiada
  <2>4. QED
    BY <2>3
<1> HIDE DEF mira
<1>3. mirado \subseteq Buenos
  BY <1>1, <1>2, PeticionCacheBuena DEF Luego
<1> HIDE DEF mirado
<1>4. {[x EXCEPT !.d = <<>>] : x \in mirado} \subseteq Buenos
  <2>1. \A x \in Buenos : [x EXCEPT !.d = <<>>] \in Buenos
    <3>1. <<>> \in Seq(Contenidos)
      OBVIOUS
    <3>2. QED
      BY <3>1 DEF Buenos, Estados
  <2>2. QED
    BY <1>3, <2>1
<1>5. ObtenerDePaso(e, m) = Contestar({[x EXCEPT !.d = <<>>] : x \in mirado}, "DEPASO")
  BY DEF ObtenerDePaso, mirado, mira
<1>6. QED
  BY <1>4, <1>5, ContestarBueno DEF TiposRta

LEMMA GrabarSectoresBueno ==
    ASSUME NEW e \in Buenos, NEW m \in Mensajes, m.t \in TiposPut
    PROVE  GrabarSectores(e, m) \subseteq Buenos
<1>1. Len(m.s) \in {1, 2} /\ m.s \in Seq(Pedibles) /\ m.d \in Seq(Contenidos) /\ Len(m.d) = Len(m.s)
      /\ \A k \in DOMAIN m.d : DelSector(m.s[k], m.d[k])
  BY DEF Mensajes, TiposPut
<1>2. m.s[1] \in Pedibles /\ m.d[1] \in Contenidos /\ DelSector(m.s[1], m.d[1])
  BY <1>1
<1>3. CASE Len(m.s) = 1
  BY <1>2, <1>3, LdapModificarSectorBueno DEF GrabarSectores
<1>4. CASE Len(m.s) = 2
  <2>1. m.s[2] \in Pedibles /\ m.d[2] \in Contenidos /\ DelSector(m.s[2], m.d[2])
    BY <1>1, <1>4
  <2>2. LdapModificarSector(e, m.s[1], m.d[1], "grabar primero") \subseteq Buenos
    BY <1>2, LdapModificarSectorBueno
  <2>3. \A x \in Buenos : LdapModificarSector(x, m.s[2], m.d[2], "grabar ultimo") \subseteq Buenos
    BY <2>1, LdapModificarSectorBueno
  <2>4. QED
    BY <1>4, <2>2, <2>3 DEF GrabarSectores, Luego
<1>5. QED
  BY <1>1, <1>3, <1>4

LEMMA PutSectoresBueno ==
    ASSUME NEW e \in Buenos, NEW m \in Mensajes, m.t \in {"PUT2", "PUT1"}
    PROVE  PutSectores(e, m) \subseteq Buenos
<1>1. GrabarSectores(e, m) \subseteq Buenos /\ Len(m.s) \in {1, 2} /\ m.s \in Seq(Pedibles)
  BY GrabarSectoresBueno DEF TiposPut, Mensajes
<1>2. ASSUME NEW x \in Buenos
      PROVE  /\ PorSector([x EXCEPT !.rta = <<Rta("PUT_OK", <<>>)>>], m.s, GenerarEstadisticasPut)
                  \subseteq Buenos
             /\ [x EXCEPT !.rta = <<Rta("PUT_FAIL", <<>>)>>] \in Buenos
  <2>1. [x EXCEPT !.rta = <<Rta("PUT_OK", <<>>)>>] \in Buenos
        /\ [x EXCEPT !.rta = <<Rta("PUT_FAIL", <<>>)>>] \in Buenos
    BY RespuestaBuena DEF TiposRta
  <2>2. QED
    BY <1>1, <2>1, PorSectorBueno
<1>3. QED
  BY <1>1, <1>2 DEF PutSectores, Luego

LEMMA EscribirSectorBueno ==
    ASSUME NEW e \in Buenos, NEW m \in Mensajes, m.t = "ESCRIBIR"
    PROVE  EscribirSector(e, m) \subseteq Buenos
<1>1. GrabarSectores(e, m) \subseteq Buenos /\ m.s[1] \in Pedibles
  BY GrabarSectoresBueno DEF TiposPut, Mensajes
<1>2. QED
  BY <1>1, GenerarEstadisticasBueno DEF EscribirSector, Luego

\* Every case of the switch leaves a good state.
LEMMA ManejarBueno ==
    ASSUME Estado \in Buenos, NEW c \in Clientes, NEW m \in Mensajes
    PROVE  Manejar(c, m) \subseteq Buenos
<1>1. CASE m.t \in {"GET2", "GET1"}
  <2>1. Len(m.s) \in {1, 2}
    BY <1>1 DEF Mensajes
  <2>2. QED
    BY <1>1, <2>1, GetSectoresBueno DEF Manejar
<1>2. CASE m.t = "DEFINITIVO"
  BY <1>2, ObtenerDefinitivoBueno DEF Manejar
<1>3. CASE m.t = "DEPASO"
  BY <1>3, ObtenerDePasoBueno DEF Manejar
<1>4. CASE m.t \in {"PUT2", "PUT1"}
  BY <1>4, PutSectoresBueno DEF Manejar
<1>5. CASE m.t = "ESCRIBIR"
  BY <1>5, EscribirSectorBueno DEF Manejar
<1>6. CASE m.t = "CHS"
  BY <1>6, RespuestaBuena DEF Manejar, GetCHS, TiposRta
<1>7. CASE m.t = "HSCACHE"
  <2>1. \A v \in {"cache", "rota"} : [Estado EXCEPT !.iCache = v] \in Buenos
    BY DEF Buenos, Estados
  <2>2. QED
    BY <1>7, <2>1 DEF Manejar, HandshakeCache
<1>8. CASE m.t = "OTRO"
  <2>1. [Estado EXCEPT !.fin = "muere"] \in Buenos
    BY DEF Buenos, Estados
  <2>2. QED
    BY <1>8, <2>1 DEF Manejar
<1>9. m.t \in Tipos
  BY DEF Mensajes
<1>10. QED
  BY <1>1, <1>2, <1>3, <1>4, <1>5, <1>6, <1>7, <1>8, <1>9 DEF Tipos, TiposGet, TiposPut

-----------------------------------------------------------------------------
(* The inductive invariant *)

\* What the loop keeps: the directory, the cache, the head and the statistics.
InvLoop ==
    /\ proceso \in {"apagado", "atendiendo", "colgado"}
    /\ ldap \in [Ids -> Contados] /\ sesion \in {"viva", "perdida"}
    /\ memc \in [Pedibles -> Contados] /\ Fiel(ldap, memc)
    /\ iCache \in {"cero", "cache", "rota"} /\ cache \in {"no", "naciendo", "viva", "muerta"}
    /\ cab \in Ids /\ giro \in 0..Pasadas - 1
    /\ est \in Estadisticas /\ Medida(est)

\* What travels.
InvCanales ==
    /\ entrada \in [Clientes -> Seq(Mensajes)]
    /\ salida \in [Clientes -> Seq(Respuestas)]
    /\ conexion \in [Clientes -> {"abierta", "cerrada", "rota"}]

\* The console thread; in the walk towards a sector what it read and what is left
\* to cross make what there was to cross when it started.
Consolas == [paso : {"lee", "camina", "espera", "espera sector"},
             orden : {"ninguna", "obtener", "escribir"}, p : Holgados, cab : Ids,
             giro : 0..Pasadas - 1, resto : Seq(Ids), dato : Contenidos, leidos : Nat,
             desde : Holgados]

Parada(k) == k.paso = "lee" => k.p \in Lugares /\ k.leidos = 0

EnCamino(k) ==
    k.paso # "lee" =>
        /\ k.resto # <<>>
        /\ k.orden \in {"obtener", "escribir"}
        /\ k.orden = "escribir" => Len(k.resto) = 1 /\ DelSector(k.resto[1], k.dato)
        /\ k.orden = "obtener" =>
              /\ k.p \in Lugares /\ k.desde \in Lugares
              /\ k.leidos + Cruzados(k.p, Head(k.resto)) = Cruzados(k.desde, Head(k.resto))
        /\ k.paso = "espera" => ImDisco(k.p) # Head(k.resto)
        /\ k.paso = "espera sector" => k.orden = "obtener" /\ ImDisco(k.p) = Head(k.resto)

ConsolaBien(k) == k \in Consolas /\ Parada(k) /\ EnCamino(k)

InvDisco == InvLoop /\ InvCanales /\ ConsolaBien(con) /\ nPedidos \in 0..MaxPedidos

LEMMA CeroEsId == 0 \in Ids /\ Total \in Nat \ {0}
<1>1. Cilindros * Sectores >= 1 /\ Cilindros * Sectores \in Int
  BY GeometriaAssumption
<1>2. QED
  BY <1>1 DEF Ids, Total

LEMMA Con0Bien == ConsolaBien(Con0)
<1>1. Ubicar(0) \in Lugares /\ Ubicar(0) \in Holgados
  BY CeroEsId, UbicarTipo, LugaresHolgados DEF Holgados
<1>2. Vacio \in Contenidos /\ 0 \in 0..Pasadas - 1 /\ <<>> \in Seq(Ids)
  BY DiscoAssumption DEF Contenidos
<1>3. Con0 \in Consolas
  BY <1>1, <1>2, CeroEsId DEF Con0, Consolas
<1>4. QED
  BY <1>1, <1>3 DEF ConsolaBien, Parada, EnCamino, Con0

LEMMA FinDeOrdenBien ==
    ASSUME NEW k \in Consolas, k.p \in Lugares
    PROVE  ConsolaBien(FinDeOrden(k))
<1> DEFINE libre == [k EXCEPT !.paso = "lee", !.orden = "ninguna", !.resto = <<>>,
                              !.dato = Vacio, !.leidos = 0, !.desde = Ubicar(0)]
<1>1. Ubicar(0) \in Holgados /\ Vacio \in Contenidos /\ <<>> \in Seq(Ids)
  BY CeroEsId, UbicarTipo, LugaresHolgados DEF Holgados, Contenidos
<1>2. Rotado(k.p) \in Lugares /\ Rotado(k.p) \in Holgados /\ ImDisco(Rotado(k.p)) \in Ids
  BY LugaresHolgados, RotadoTipo, IdDeLugar DEF Holgados
<1>3. libre \in Consolas /\ libre.paso = "lee" /\ libre.p = k.p /\ libre.giro = k.giro
      /\ libre.leidos = 0
  BY <1>1 DEF Consolas
<1> HIDE DEF libre
<1>4. CASE k.giro < Pasadas - 1
  <2>1. FinDeOrden(k) = [libre EXCEPT !.giro = k.giro + 1]
    BY <1>3, <1>4 DEF FinDeOrden, libre
  <2>2. k.giro + 1 \in 0..Pasadas - 1
    <3>1. Pasadas \in Nat /\ k.giro \in 0..Pasadas - 1
      BY DiscoAssumption DEF Consolas
    <3>2. QED
      BY <1>4, <3>1
  <2>3. FinDeOrden(k) \in Consolas /\ FinDeOrden(k).paso = "lee" /\ FinDeOrden(k).p = k.p
        /\ FinDeOrden(k).leidos = 0
    BY <1>3, <2>1, <2>2 DEF Consolas
  <2>4. QED
    BY <2>3 DEF ConsolaBien, Parada, EnCamino
<1>5. CASE ~(k.giro < Pasadas - 1)
  <2>1. FinDeOrden(k) = [libre EXCEPT !.p = Rotado(k.p), !.cab = ImDisco(Rotado(k.p)), !.giro = 0]
    BY <1>3, <1>5 DEF FinDeOrden, libre
  <2>2. 0 \in 0..Pasadas - 1
    BY DiscoAssumption
  <2>3. FinDeOrden(k) \in Consolas /\ FinDeOrden(k).paso = "lee" /\ FinDeOrden(k).p = Rotado(k.p)
        /\ FinDeOrden(k).leidos = 0
    BY <1>2, <1>3, <2>1, <2>2 DEF Consolas
  <2>4. QED
    BY <1>2, <2>3 DEF ConsolaBien, Parada, EnCamino
<1>6. QED
  BY <1>4, <1>5

LEMMA PasadoBien ==
    ASSUME NEW k \in Consolas
    PROVE  Pasado(k) \in Consolas /\ Pasado(k).p \in Lugares
           /\ Pasado(k) = [k EXCEPT !.p = Pasado(k).p, !.cab = Pasado(k).cab]
<1>1. Rotado(k.p) \in Lugares /\ Rotado(k.p) \in Holgados /\ ImDisco(Rotado(k.p)) \in Ids
  <2>1. k.p \in Holgados
    BY DEF Consolas
  <2>2. QED
    BY <2>1, LugaresHolgados, RotadoTipo, IdDeLugar DEF Holgados
<1>2. QED
  BY <1>1 DEF Pasado, Consolas

\* The walk of an order starts: nothing was crossed.
LEMMA Empieza ==
    ASSUME NEW p \in Lugares, NEW s \in Ids
    PROVE  0 + Cruzados(p, s) = Cruzados(p, s)
BY CruzadosTipo, GeometriaAssumption DEF Vuelta

-----------------------------------------------------------------------------
(* The steps of the console *)

loopDeInv == <<proceso, ldap, sesion, memc, iCache, cache, cab, giro, est>>

LEMMA LoopSigue ==
    ASSUME InvLoop, UNCHANGED loopDeInv
    PROVE  InvLoop'
BY DEF InvLoop, loopDeInv, Fiel, DelSector, Medida

\* A message is sent, or an answer is taken.
LEMMA EnviaTipo ==
    ASSUME InvCanales, NEW c \in Clientes, NEW m \in Mensajes, Envia(c, m)
    PROVE  entrada' \in [Clientes -> Seq(Mensajes)]
<1>1. entrada[c] \in Seq(Mensajes)
  BY DEF InvCanales
<1>2. Append(entrada[c], m) \in Seq(Mensajes)
  BY <1>1
<1>3. QED
  BY <1>2 DEF InvCanales, Envia

LEMMA TomaTipo ==
    ASSUME InvCanales, NEW c \in Clientes, Toma(c)
    PROVE  salida' \in [Clientes -> Seq(Respuestas)]
<1>1. salida[c] \in Seq(Respuestas) /\ salida[c] # <<>>
  BY DEF InvCanales, Toma
<1>2. Tail(salida[c]) \in Seq(Respuestas)
  BY <1>1
<1>3. QED
  BY <1>2 DEF InvCanales, Toma

LEMMA PasoOrden ==
    ASSUME InvDisco, NEW k, Orden(k), ConsolaBien(k), nPedidos' \in 0..MaxPedidos
    PROVE  InvDisco'
<1>1. UNCHANGED loopDeInv /\ UNCHANGED <<entrada, salida, conexion>> /\ con' = k
  BY DEF Orden, loopIgual, loopDeInv
<1>2. InvLoop'
  BY <1>1, LoopSigue DEF InvDisco
<1>3. QED
  BY <1>1, <1>2 DEF InvDisco, InvCanales, ConsolaBien

LEMMA ConLee ==
    ASSUME InvDisco, con.paso = "lee"
    PROVE  con \in Consolas /\ con.p \in Lugares /\ con.leidos = 0 /\ con.cab \in Ids
           /\ con.p \in Holgados
BY LugaresHolgados DEF InvDisco, ConsolaBien, Parada, Consolas, Holgados

LEMMA PasoOrdenObtener ==
    ASSUME InvDisco, NEW l \in DeConsola, OrdenObtener(l)
    PROVE  InvDisco'
<1> DEFINE k == [con EXCEPT !.paso = "camina", !.orden = "obtener", !.resto = l, !.desde = con.p]
<1>1. con.paso = "lee" /\ Orden(k) /\ nPedidos' = nPedidos
  BY DEF OrdenObtener, Orden
<1>2. l \in Seq(Ids) /\ l # <<>> /\ Head(l) \in Ids
  BY DiscoAssumption
<1>3. con \in Consolas /\ con.p \in Lugares /\ con.p \in Holgados /\ con.leidos = 0
  BY <1>1, ConLee
<1>4. k \in Consolas /\ k.paso = "camina" /\ k.orden = "obtener" /\ k.resto = l
      /\ k.p = con.p /\ k.desde = con.p /\ k.leidos = 0
  BY <1>2, <1>3 DEF Consolas
<1> HIDE DEF k
<1>5. ConsolaBien(k)
  BY <1>2, <1>3, <1>4, Empieza DEF ConsolaBien, Parada, EnCamino
<1>6. QED
  BY <1>1, <1>5, PasoOrden DEF InvDisco

LEMMA EscritoTipo ==
    ASSUME NEW s \in Pedibles, NEW n \in 1..MaxPedidos
    PROVE  Escrito(s, n) \in Contenidos /\ DelSector(s, Escrito(s, n))
BY DEF Escrito, Contenidos, Escritos, DelSector, Pedibles

LEMMA PasoOrdenEscribir ==
    ASSUME InvDisco, NEW s \in Ids, OrdenEscribir(s)
    PROVE  InvDisco'
<1> DEFINE p == UbicarEscribiendo(con.cab)
           v == Escrito(s, nPedidos + 1)
           k == [con EXCEPT !.paso = "camina", !.orden = "escribir", !.resto = <<s>>,
                            !.dato = v, !.p = p, !.desde = p]
<1>1. con.paso = "lee" /\ Orden(k) /\ nPedidos < MaxPedidos /\ nPedidos' = nPedidos + 1
  BY DEF OrdenEscribir, Orden
<1>2. nPedidos + 1 \in 1..MaxPedidos /\ nPedidos' \in 0..MaxPedidos
  BY <1>1, DiscoAssumption DEF InvDisco
<1>3. v \in Contenidos /\ DelSector(s, v)
  BY <1>2, EscritoTipo DEF Pedibles
<1>4. p \in Holgados
  BY UbicarEscribiendoTipo
<1>5. con \in Consolas
  BY <1>1, ConLee
<1>6. <<s>> \in Seq(Ids) /\ <<s>>[1] = s /\ Len(<<s>>) = 1 /\ <<s>> # <<>>
  OBVIOUS
<1> HIDE DEF p, v
<1>7. k \in Consolas /\ k.paso = "camina" /\ k.orden = "escribir" /\ k.resto = <<s>> /\ k.dato = v
  BY <1>3, <1>4, <1>5, <1>6 DEF Consolas
<1> HIDE DEF k
<1>8. ConsolaBien(k)
  BY <1>3, <1>6, <1>7 DEF ConsolaBien, Parada, EnCamino
<1>9. QED
  BY <1>1, <1>2, <1>8, PasoOrden

LEMMA PasoOrdenOtra ==
    ASSUME InvDisco, OrdenOtra
    PROVE  InvDisco'
<1>1. con.paso = "lee" /\ Orden(FinDeOrden(con)) /\ nPedidos' = nPedidos
  BY DEF OrdenOtra, Orden
<1>2. ConsolaBien(FinDeOrden(con))
  BY <1>1, ConLee, FinDeOrdenBien
<1>3. QED
  BY <1>1, <1>2, PasoOrden DEF InvDisco

\* What a step of the walk leaves when it changes the thread and one queue.
LEMMA PasoDeConsola ==
    ASSUME InvDisco, NEW k, ConsolaBien(k), con' = k,
           UNCHANGED loopIgual, UNCHANGED entorno,
           entrada' \in [Clientes -> Seq(Mensajes)], salida' \in [Clientes -> Seq(Respuestas)]
    PROVE  InvDisco'
<1>1. UNCHANGED loopDeInv /\ UNCHANGED conexion /\ UNCHANGED nPedidos
  BY DEF loopIgual, loopDeInv, entorno
<1>2. InvLoop'
  BY <1>1, LoopSigue DEF InvDisco
<1>3. QED
  BY <1>1, <1>2 DEF InvDisco, InvCanales, ConsolaBien

\* In the middle of an order the first sector left is one of the disk.
LEMMA ConEnCamino ==
    ASSUME InvDisco, con.paso # "lee"
    PROVE  /\ con \in Consolas /\ con.resto \in Seq(Ids) /\ con.resto # <<>>
           /\ Head(con.resto) \in Ids /\ Head(con.resto) = con.resto[1]
           /\ con.p \in Holgados /\ con.leidos \in Nat
           /\ EnCamino(con)
<1>1. con \in Consolas /\ EnCamino(con)
  BY DEF InvDisco, ConsolaBien
<1>2. con.resto \in Seq(Ids) /\ con.resto # <<>> /\ con.p \in Holgados /\ con.leidos \in Nat
  BY <1>1 DEF Consolas, EnCamino
<1>3. QED
  BY <1>1, <1>2

LEMMA PasoConsolaPaso ==
    ASSUME InvDisco, ConsolaPaso
    PROVE  InvDisco'
<1> DEFINE k == [con EXCEPT !.paso = "espera"]
           m == Mensaje("DEPASO", <<ImDisco(con.p)>>, <<>>)
<1>1. con.paso = "camina" /\ ImDisco(con.p) # Head(con.resto) /\ Envia("consola", m) /\ con' = k
      /\ UNCHANGED loopIgual /\ UNCHANGED entorno /\ UNCHANGED salida
  BY DEF ConsolaPaso
<1>2. con \in Consolas /\ con.p \in Holgados /\ EnCamino(con)
  BY <1>1, ConEnCamino
<1>3. m \in Mensajes
  <2>1. ImDisco(con.p) \in Pedibles
    <3>1. ImDisco(con.p) \in 0..Total
      BY <1>2, IdDeColumna DEF Holgados
    <3>2. QED
      BY <3>1, CeroEsId DEF Pedibles, Ids
  <2>2. <<ImDisco(con.p)>> \in Seq(Pedibles) /\ <<>> \in Seq(Contenidos)
        /\ Len(<<ImDisco(con.p)>>) = 1
    BY <2>1
  <2>3. QED
    BY <2>2 DEF Mensajes, Mensaje, Tipos, TiposPut, TiposGet
<1> HIDE DEF m
<1>4. entrada' \in [Clientes -> Seq(Mensajes)]
  BY <1>1, <1>3, EnviaTipo DEF InvDisco, Clientes
<1>5. k \in Consolas /\ k.paso = "espera" /\ k.orden = con.orden /\ k.p = con.p
      /\ k.resto = con.resto /\ k.dato = con.dato /\ k.leidos = con.leidos /\ k.desde = con.desde
  BY <1>2 DEF Consolas
<1> HIDE DEF k
<1>6. ConsolaBien(k)
  BY <1>1, <1>2, <1>5 DEF ConsolaBien, Parada, EnCamino
<1>7. salida' \in [Clientes -> Seq(Respuestas)]
  BY <1>1 DEF InvDisco, InvCanales
<1>8. QED
  BY <1>1, <1>4, <1>6, <1>7, PasoDeConsola

LEMMA PasoConsolaAvanza ==
    ASSUME InvDisco, ConsolaAvanza
    PROVE  InvDisco'
<1> DEFINE s == Head(con.resto)
           q == Paso(con.p, s)
           k == [con EXCEPT !.paso = "camina", !.leidos = con.leidos + 1, !.p = q]
<1>1. con.paso = "espera" /\ Toma("consola") /\ UNCHANGED loopIgual /\ UNCHANGED entorno
      /\ UNCHANGED entrada
  BY DEF ConsolaAvanza
<1>2. con \in Consolas /\ s \in Ids /\ con.p \in Holgados /\ con.leidos \in Nat /\ EnCamino(con)
  BY <1>1, ConEnCamino
<1>3. con' = k
  BY <1>2 DEF ConsolaAvanza, Consolas
<1>4. q \in Lugares /\ q \in Holgados
  <2> HIDE DEF s
  <2>1. s \in Int
    BY <1>2 DEF Ids
  <2>2. q \in Lugares
    BY <1>2, <2>1, PasoTipo DEF Holgados
  <2>3. QED
    BY <2>2, LugaresHolgados DEF Holgados
<1>5. con.orden = "obtener" => con.leidos + 1 + Cruzados(q, s) = Cruzados(con.desde, s)
  <2> SUFFICES ASSUME con.orden = "obtener"
               PROVE  con.leidos + 1 + Cruzados(q, s) = Cruzados(con.desde, s)
    OBVIOUS
  <2>1. con.p \in Lugares /\ con.leidos + Cruzados(con.p, s) = Cruzados(con.desde, s)
        /\ ImDisco(con.p) # s
    BY <1>1, <1>2 DEF EnCamino
  <2>2. Cruzados(con.p, s) = 1 + Cruzados(q, s) /\ Cruzados(q, s) \in 0..Vuelta
    BY <1>2, <1>4, <2>1, CruzadosTipo
  <2>3. Vuelta \in Nat
    BY GeometriaAssumption DEF Vuelta
  <2>4. QED
    BY <1>2, <2>1, <2>2, <2>3
<1> HIDE DEF q
<1>6. k \in Consolas /\ k.paso = "camina" /\ k.orden = con.orden /\ k.p = q
      /\ k.resto = con.resto /\ k.dato = con.dato /\ k.leidos = con.leidos + 1 /\ k.desde = con.desde
  <2>1. con.leidos + 1 \in Nat
    BY <1>2
  <2>2. ASSUME NEW n \in Nat, NEW x, x = [con EXCEPT !.paso = "camina", !.leidos = n, !.p = q]
        PROVE  x \in Consolas /\ x.paso = "camina" /\ x.orden = con.orden /\ x.p = q
               /\ x.resto = con.resto /\ x.dato = con.dato /\ x.leidos = n /\ x.desde = con.desde
    BY <1>2, <1>4, <2>2 DEF Consolas
  <2>3. QED
    BY <2>1, <2>2
<1> HIDE DEF k
<1>7. ConsolaBien(k)
  BY <1>1, <1>2, <1>4, <1>5, <1>6 DEF ConsolaBien, Parada, EnCamino
<1>8. entrada' \in [Clientes -> Seq(Mensajes)] /\ salida' \in [Clientes -> Seq(Respuestas)]
  BY <1>1, TomaTipo DEF InvDisco, InvCanales, Clientes
<1>9. QED
  BY <1>1, <1>3, <1>7, <1>8, PasoDeConsola

LEMMA PasoConsolaPide ==
    ASSUME InvDisco, ConsolaPide
    PROVE  InvDisco'
<1> DEFINE s == Head(con.resto)
           k == [con EXCEPT !.paso = "espera sector"]
           m == Mensaje("DEFINITIVO", <<s>>, <<>>)
<1>1. con.paso = "camina" /\ con.orden = "obtener" /\ ImDisco(con.p) = s
      /\ Envia("consola", m) /\ con' = k
      /\ UNCHANGED loopIgual /\ UNCHANGED entorno /\ UNCHANGED salida
  BY DEF ConsolaPide, Llega
<1>2. con \in Consolas /\ s \in Ids /\ EnCamino(con)
  BY <1>1, ConEnCamino
<1>3. m \in Mensajes
  <2>1. <<s>> \in Seq(Pedibles) /\ <<>> \in Seq(Contenidos) /\ Len(<<s>>) = 1
    BY <1>2 DEF Pedibles
  <2>2. QED
    BY <2>1 DEF Mensajes, Mensaje, Tipos, TiposPut, TiposGet
<1> HIDE DEF m
<1>4. entrada' \in [Clientes -> Seq(Mensajes)]
  BY <1>1, <1>3, EnviaTipo DEF InvDisco, Clientes
<1>5. k \in Consolas /\ k.paso = "espera sector" /\ k.orden = con.orden /\ k.p = con.p
      /\ k.resto = con.resto /\ k.dato = con.dato /\ k.leidos = con.leidos /\ k.desde = con.desde
  BY <1>2 DEF Consolas
<1> HIDE DEF k
<1>6. ConsolaBien(k)
  BY <1>1, <1>2, <1>5 DEF ConsolaBien, Parada, EnCamino
<1>7. salida' \in [Clientes -> Seq(Respuestas)]
  BY <1>1 DEF InvDisco, InvCanales
<1>8. QED
  BY <1>1, <1>4, <1>6, <1>7, PasoDeConsola

LEMMA PasoConsolaObtiene ==
    ASSUME InvDisco, ConsolaObtiene
    PROVE  InvDisco'
<1> DEFINE a == Pasado(con)
           k == [a EXCEPT !.resto = Tail(a.resto), !.leidos = 0]
           k1 == [k EXCEPT !.paso = "camina", !.desde = k.p]
<1>1. con.paso = "espera sector" /\ Toma("consola") /\ UNCHANGED loopIgual /\ UNCHANGED entorno
      /\ UNCHANGED entrada
  BY DEF ConsolaObtiene
<1>2. con \in Consolas /\ con.resto \in Seq(Ids) /\ con.resto # <<>> /\ con.orden = "obtener"
  BY <1>1, ConEnCamino DEF EnCamino
<1>3. a \in Consolas /\ a.p \in Lugares /\ a.orden = "obtener" /\ a.resto = con.resto
  <2>1. a \in Consolas /\ a.p \in Lugares /\ a = [con EXCEPT !.p = a.p, !.cab = a.cab]
    BY <1>2, PasadoBien
  <2> HIDE DEF a
  <2>2. QED
    BY <1>2, <2>1 DEF Consolas
<1>4. con' = IF k.resto = <<>> THEN FinDeOrden(k) ELSE k1
  BY DEF ConsolaObtiene
<1> HIDE DEF a
<1>5. Tail(a.resto) \in Seq(Ids)
  BY <1>2, <1>3
<1>6. k \in Consolas /\ k.p \in Lugares /\ k.orden = "obtener" /\ k.leidos = 0
  BY <1>3, <1>5 DEF Consolas
<1> HIDE DEF k
<1>7. CASE k.resto = <<>>
  <2>1. ConsolaBien(con')
    BY <1>4, <1>6, <1>7, FinDeOrdenBien
  <2>2. QED
    BY <1>1, <2>1, TomaTipo, PasoDeConsola DEF InvDisco, InvCanales, Clientes
<1>8. CASE k.resto # <<>>
  <2>1. k.p \in Holgados /\ k.resto \in Seq(Ids) /\ Head(k.resto) \in Ids
    <3>1. k.p \in Holgados /\ k.resto \in Seq(Ids)
      BY <1>6 DEF Consolas
    <3>2. QED
      BY <1>8, <3>1
  <2>2. k1 \in Consolas /\ k1.paso = "camina" /\ k1.desde = k.p /\ k1.p = k.p /\ k1.resto = k.resto
        /\ k1.orden = "obtener" /\ k1.leidos = 0
    BY <1>6, <2>1 DEF Consolas
  <2> HIDE DEF k1
  <2>3. ConsolaBien(k1)
    BY <1>6, <1>8, <2>1, <2>2, Empieza DEF ConsolaBien, Parada, EnCamino
  <2>4. con' = k1
    BY <1>4, <1>8
  <2>5. QED
    BY <1>1, <2>3, <2>4, TomaTipo, PasoDeConsola DEF InvDisco, InvCanales, Clientes
<1>9. QED
  BY <1>7, <1>8

\* What the console writes.
LEMMA ConsolaEscribeTipo ==
    ASSUME InvDisco, ConsolaEscribe
    PROVE  Mensaje("ESCRIBIR", con.resto, <<con.dato>>) \in Mensajes /\ con.resto \in Seq(Ids)
<1>1. con.paso = "camina" /\ con.orden = "escribir"
  BY DEF ConsolaEscribe, Llega
<1>2. con \in Consolas /\ con.resto \in Seq(Ids) /\ Len(con.resto) = 1
      /\ DelSector(con.resto[1], con.dato) /\ con.dato \in Contenidos
  BY <1>1, ConEnCamino DEF EnCamino, Consolas
<1>3. con.resto \in Seq(Pedibles) /\ <<con.dato>> \in Seq(Contenidos) /\ Len(<<con.dato>>) = 1
      /\ \A k \in DOMAIN <<con.dato>> : DelSector(con.resto[k], <<con.dato>>[k])
  BY <1>2 DEF Pedibles
<1>4. QED
  BY <1>2, <1>3 DEF Mensajes, Mensaje, Tipos, TiposPut, TiposGet

LEMMA PasoConsolaEscribe ==
    ASSUME InvDisco, ConsolaEscribe
    PROVE  InvDisco'
<1> DEFINE m == Mensaje("ESCRIBIR", con.resto, <<con.dato>>)
<1>1. con.paso = "camina" /\ con.orden = "escribir"
      /\ Envia("consola", m) /\ con' = FinDeOrden(Pasado(con))
      /\ UNCHANGED loopIgual /\ UNCHANGED entorno /\ UNCHANGED salida
  BY DEF ConsolaEscribe, Llega
<1>2. con \in Consolas
  BY <1>1, ConEnCamino
<1>3. m \in Mensajes
  BY ConsolaEscribeTipo
<1> HIDE DEF m
<1>4. entrada' \in [Clientes -> Seq(Mensajes)]
  BY <1>1, <1>3, EnviaTipo DEF InvDisco, Clientes
<1>5. ConsolaBien(FinDeOrden(Pasado(con)))
  BY <1>2, PasadoBien, FinDeOrdenBien
<1>6. salida' \in [Clientes -> Seq(Respuestas)]
  BY <1>1 DEF InvDisco, InvCanales
<1>7. QED
  BY <1>1, <1>4, <1>5, <1>6, PasoDeConsola

-----------------------------------------------------------------------------
(* The steps of the loop *)

LEMMA EstadoBueno ==
    ASSUME InvDisco
    PROVE  Estado \in Buenos
<1>1. <<>> \in Seq(Contenidos) /\ <<>> \in Seq(Respuestas)
  OBVIOUS
<1>2. QED
  BY <1>1 DEF InvDisco, InvLoop, Estado, Estados, Buenos

LEMMA Est0Tipo == Est0 \in Estadisticas /\ Medida(Est0)
<1>1. TCache \in 0..Ancho - 1 /\ 0 \in 0..Ancho - 1 /\ TCache \in Nat /\ TLectura \in Nat
  BY DiscoAssumption
<1>2. (Cilindros + Sectores - 1) * TLectura >= 0 /\ (Cilindros + Sectores - 1) * TLectura \in Int
  BY <1>1, GeometriaAssumption
<1>3. QED
  BY <1>1, <1>2 DEF Est0, Estadisticas, Medida, Cota

\* The process ends: what is left is its stores and a counter.
LEMMA PasoApagar ==
    ASSUME InvDisco, Apagar, nPedidos' = nPedidos,
           ldap' \in [Ids -> Contados], memc' \in [Pedibles -> Contados], Fiel(ldap', memc')
    PROVE  InvDisco'
<1>1. 0 \in 0..Pasadas - 1
  BY DiscoAssumption
<1>2. Medida(est)' /\ est' \in Estadisticas
  BY Est0Tipo DEF Apagar, Medida
<1>3. InvLoop'
  BY <1>1, <1>2, CeroEsId DEF Apagar, InvLoop, Fiel, DelSector
<1>4. InvCanales'
  <2>1. <<>> \in Seq(Mensajes) /\ <<>> \in Seq(Respuestas)
    OBVIOUS
  <2>2. QED
    BY <2>1 DEF Apagar, InvCanales
<1>5. ConsolaBien(con')
  BY Con0Bien DEF Apagar
<1>6. QED
  BY <1>3, <1>4, <1>5 DEF InvDisco, ConsolaBien

LEMMA PasoDejar ==
    ASSUME InvDisco, NEW c \in Clientes, NEW m, NEW e \in Buenos,
           NEW q \in [Clientes -> Seq(Mensajes)], NEW u, Dejar(c, m, e, q, u)
    PROVE  InvDisco'
<1>1. ldap' = e.ldap /\ memc' = e.memc /\ nPedidos' = nPedidos
  BY DEF Dejar, entorno
<1>2. ldap' \in [Ids -> Contados] /\ memc' \in [Pedibles -> Contados] /\ Fiel(ldap', memc')
  BY <1>1 DEF Buenos, Estados
<1>3. CASE Apagar
  BY <1>1, <1>2, <1>3, PasoApagar
<1>4. CASE ~Apagar
  <2>1. /\ proceso' = IF e.fin = "colgado" THEN "colgado" ELSE proceso
        /\ sesion' = e.sesion /\ iCache' = e.iCache /\ cab' = e.cab /\ est' = e.est
        /\ \/ salida' = [salida EXCEPT ![c] = @ \o e.rta] /\ UNCHANGED conexion
           \/ conexion' = [conexion EXCEPT ![c] = IF e.rta = <<>> THEN @ ELSE "rota"]
              /\ UNCHANGED salida
        /\ entrada' = q
        /\ UNCHANGED <<con, giro, cache>>
    BY <1>4 DEF Dejar
  <2>2. e \in Estados /\ Medida(e.est)
    BY DEF Buenos
  <2>3. InvLoop'
    <3>1. Medida(est)'
      BY <2>1, <2>2 DEF Medida
    <3>2. Fiel(ldap, memc)'
      BY <1>2 DEF Fiel, DelSector
    <3>3. QED
      BY <1>2, <2>1, <2>2, <3>1, <3>2 DEF InvDisco, InvLoop, Estados
  <2>4. salida' \in [Clientes -> Seq(Respuestas)]
    <3>1. salida[c] \in Seq(Respuestas) /\ e.rta \in Seq(Respuestas)
      BY <2>2 DEF InvDisco, InvCanales, Estados
    <3>2. salida[c] \o e.rta \in Seq(Respuestas)
      BY <3>1
    <3>3. QED
      BY <2>1, <3>2 DEF InvDisco, InvCanales
  <2>5. conexion' \in [Clientes -> {"abierta", "cerrada", "rota"}]
    BY <2>1 DEF InvDisco, InvCanales
  <2>6. QED
    BY <1>1, <2>1, <2>3, <2>4, <2>5 DEF InvDisco, InvCanales, ConsolaBien
<1>5. QED
  BY <1>3, <1>4

LEMMA CabezaTipo ==
    ASSUME NEW S, NEW q \in Seq(S), q # <<>>
    PROVE  Head(q) \in S /\ Tail(q) \in Seq(S)
OBVIOUS

LEMMA ElementoTipo ==
    ASSUME NEW S, NEW q \in Seq(S), NEW k \in 1..Len(q)
    PROVE  q[k] \in S /\ k \in DOMAIN q
OBVIOUS

LEMMA PasoAtender ==
    ASSUME InvDisco, NEW c \in Clientes, NEW tipos, Atender(c, tipos)
    PROVE  InvDisco'
<1> DEFINE m == Head(entrada[c])
           q == [entrada EXCEPT ![c] = Tail(@)]
<1>1. entrada \in [Clientes -> Seq(Mensajes)] /\ entrada[c] # <<>> /\ entrada[c] \in Seq(Mensajes)
  BY DEF InvDisco, InvCanales, Atender
<1>2. m \in Mensajes /\ Tail(entrada[c]) \in Seq(Mensajes)
  BY <1>1
<1>3. q \in [Clientes -> Seq(Mensajes)]
  BY <1>1, <1>2
<1>4. PICK e \in Manejar(c, m) : Dejar(c, m, e, q, m.t)
  BY DEF Atender
<1> HIDE DEF m, q
<1>5. e \in Buenos
  BY <1>2, EstadoBueno, ManejarBueno
<1>6. QED
  BY <1>3, <1>4, <1>5, PasoDejar

\* The pairs and the sectors the array asks for.
LEMMA PedibleTipo ==
    /\ \A s \in Pares : /\ s \in Seq(Pedibles) /\ Len(s) = 2 /\ DOMAIN s = {1, 2}
                        /\ s[1] \in Pedibles /\ s[2] \in Pedibles
    /\ \A s \in Sueltos : s \in Pedibles /\ <<s>> \in Seq(Pedibles) /\ Len(<<s>>) = 1
<1>1. 0..Total = Pedibles
  BY CeroEsId DEF Pedibles, Ids
<1>2. ASSUME NEW s \in Pares
      PROVE  /\ s \in Seq(Pedibles) /\ Len(s) = 2 /\ DOMAIN s = {1, 2}
             /\ s[1] \in Pedibles /\ s[2] \in Pedibles
  <2>1. s \in Pedibles \X Pedibles
    BY <1>1, DiscoAssumption
  <2>2. s = <<s[1], s[2]>> /\ s[1] \in Pedibles /\ s[2] \in Pedibles
    BY <2>1
  <2>3. ASSUME NEW a \in Pedibles, NEW b \in Pedibles
        PROVE  <<a, b>> \in Seq(Pedibles) /\ Len(<<a, b>>) = 2 /\ DOMAIN <<a, b>> = {1, 2}
    OBVIOUS
  <2>4. QED
    BY <2>2, <2>3
<1>3. ASSUME NEW s \in Sueltos PROVE s \in Pedibles
  BY <1>1, DiscoAssumption
<1>4. \A s \in Pedibles : <<s>> \in Seq(Pedibles) /\ Len(<<s>>) = 1
  OBVIOUS
<1>5. QED
  BY <1>2, <1>3, <1>4

\* What the buffers hold when nothing was received is a message all the same.
LEMMA IndefinidosTipo ==
    ASSUME NEW t \in Tipos, NEW m \in Indefinidos(t)
    PROVE  m \in Mensajes
<1>1. /\ Basura \in Contenidos /\ <<>> \in Seq(Contenidos) /\ <<>> \in Seq(Pedibles)
      /\ \A s : DelSector(s, Basura)
  BY DEF Contenidos, DelSector
<1>2. \A s \in Pares : s \in Seq(Pedibles) /\ Len(s) = 2 /\ DOMAIN s = {1, 2}
  BY PedibleTipo
<1>3. \A s \in Sueltos : <<s>> \in Seq(Pedibles) /\ Len(<<s>>) = 1
  BY PedibleTipo
<1>4. /\ <<Basura>> \in Seq(Contenidos) /\ <<Basura, Basura>> \in Seq(Contenidos)
      /\ Len(<<Basura>>) = 1 /\ Len(<<Basura, Basura>>) = 2
      /\ \A k \in DOMAIN <<Basura>> : <<Basura>>[k] = Basura
      /\ \A k \in DOMAIN <<Basura, Basura>> : <<Basura, Basura>>[k] = Basura
  BY <1>1
<1>5. /\ m.t = t /\ m.t \in Tipos /\ m.s \in Seq(Pedibles) /\ m.d \in Seq(Contenidos)
      /\ m = [t |-> m.t, s |-> m.s, d |-> m.d]
      /\ m.t \in {"GET2", "PUT2"} => Len(m.s) = 2
      /\ m.t \in {"GET1", "PUT1", "DEFINITIVO", "DEPASO", "ESCRIBIR"} => Len(m.s) = 1
      /\ m.t \in TiposPut => Len(m.d) = Len(m.s)
      /\ \A k \in DOMAIN m.d : m.d[k] = Basura
  <2>1. CASE t = "PUT2"
    <3>1. PICK s \in Pares : m = Mensaje(t, s, <<Basura, Basura>>)
      BY <2>1 DEF Indefinidos
    <3>2. QED
      BY <1>2, <1>4, <2>1, <3>1 DEF Mensaje
  <2>2. CASE t \in {"PUT1", "ESCRIBIR"}
    <3>1. PICK s \in Sueltos : m = Mensaje(t, <<s>>, <<Basura>>)
      BY <2>2 DEF Indefinidos
    <3>2. QED
      BY <1>3, <1>4, <2>2, <3>1 DEF Mensaje
  <2>3. CASE t = "GET2"
    <3>1. PICK s \in Pares : m = Mensaje(t, s, <<>>)
      BY <2>3 DEF Indefinidos
    <3>2. QED
      BY <1>1, <1>2, <2>3, <3>1 DEF Mensaje, TiposPut
  <2>4. CASE t \in {"GET1", "DEFINITIVO", "DEPASO"}
    <3>1. PICK s \in Sueltos : m = Mensaje(t, <<s>>, <<>>)
      BY <2>4 DEF Indefinidos
    <3>2. QED
      BY <1>1, <1>3, <2>4, <3>1 DEF Mensaje, TiposPut
  <2>5. CASE t \in {"CHS", "HSCACHE", "OTRO"}
    <3>1. m = Mensaje(t, <<>>, <<>>)
      BY <2>5 DEF Indefinidos
    <3>2. QED
      BY <1>1, <2>5, <3>1 DEF Mensaje, TiposPut
  <2>6. QED
    BY <2>1, <2>2, <2>3, <2>4, <2>5 DEF Tipos, TiposGet, TiposPut
<1>6. QED
  BY <1>1, <1>5 DEF Mensajes

LEMMA PasoAtenderCierre ==
    ASSUME InvDisco, NEW c \in Clientes, AtenderCierre(c)
    PROVE  InvDisco'
<1>0. PICK t \in Tipos : \E m \in Indefinidos(t) : \E e \in Manejar(c, m) :
        Dejar(c, m, e, entrada, ultima)
  BY DEF AtenderCierre
<1>1. PICK m, e :
        m \in Indefinidos(t) /\ e \in Manejar(c, m) /\ Dejar(c, m, e, entrada, ultima)
  BY <1>0
<1>2. m \in Mensajes
  BY <1>1, IndefinidosTipo
<1>3. e \in Buenos
  BY <1>1, <1>2, EstadoBueno, ManejarBueno
<1>4. QED
  BY <1>1, <1>3, PasoDejar DEF InvDisco, InvCanales

LEMMA PasoFinDePasada ==
    ASSUME InvDisco, FinDePasada
    PROVE  InvDisco'
<1>1. giro' \in 0..Pasadas - 1
  <2>1. Pasadas \in Nat \ {0} /\ giro \in Nat
    BY DiscoAssumption DEF InvDisco, InvLoop
  <2>2. giro' = (giro + 1) % Pasadas
    BY DEF FinDePasada
  <2>3. QED
    BY <2>1, <2>2
<1>2. cab' \in Ids
  <2>1. cab \in Ids
    BY DEF InvDisco, InvLoop
  <2>2. ImDisco(Rotado(Ubicar(cab))) \in Ids
    BY <2>1, UbicarTipo, LugaresHolgados, RotadoTipo, IdDeLugar
  <2>3. QED
    BY <2>1, <2>2 DEF FinDePasada
<1>3. InvLoop'
  BY <1>1, <1>2 DEF FinDePasada, InvDisco, InvLoop, Fiel, DelSector, Medida
<1>4. QED
  BY <1>3 DEF FinDePasada, InvDisco, InvCanales, ConsolaBien, entorno

-----------------------------------------------------------------------------
(* The steps of the environment *)

LEMMA PasoArrancar ==
    ASSUME InvDisco, Arrancar
    PROVE  InvDisco'
<1>1. ldap' \in [Ids -> Contados] /\ Fiel(ldap', memc)
  <2>1. ldap \in [Ids -> Contados] /\ Fiel(ldap, memc) /\ Vacio \in Contados /\ \A s : DelSector(s, Vacio)
    BY DEF InvDisco, InvLoop, Contados, Contenidos, DelSector
  <2>2. ldap' = [s \in Ids |-> IF ldap[s] = NoHay THEN Vacio ELSE ldap[s]] \/ ldap' = ldap
    BY DEF Arrancar
  <2>3. QED
    BY <2>1, <2>2 DEF Fiel
<1>2. InvLoop'
  BY <1>1 DEF Arrancar, InvDisco, InvLoop, Fiel, DelSector, Medida
<1>3. QED
  BY <1>2 DEF Arrancar, InvDisco, InvCanales, ConsolaBien, entorno, canales

LEMMA PasoCaer ==
    ASSUME InvDisco, Caer
    PROVE  InvDisco'
BY PasoApagar DEF Caer, InvDisco, InvLoop

LEMMA PasoCaerGrabando ==
    ASSUME InvDisco, NEW c \in Clientes, CaerGrabando(c)
    PROVE  InvDisco'
<1> DEFINE m == Head(entrada[c])
<1>1. PICK e : /\ e \in LdapModificarSector(Estado, m.s[1], m.d[1], "grabar primero")
               /\ ldap' = e.ldap
  BY DEF CaerGrabando
<1>2. m \in Mensajes /\ m.t = "PUT2"
  <2>1. entrada[c] \in Seq(Mensajes) /\ entrada[c] # <<>>
    BY DEF InvDisco, InvCanales, CaerGrabando
  <2>2. Head(entrada[c]) \in Mensajes
    BY <2>1, CabezaTipo
  <2>3. QED
    BY <2>2 DEF CaerGrabando
<1> HIDE DEF m
<1>3. m.s[1] \in Pedibles /\ m.d[1] \in Contenidos /\ DelSector(m.s[1], m.d[1])
  <2>1. /\ m.s \in Seq(Pedibles) /\ m.d \in Seq(Contenidos) /\ Len(m.s) = 2 /\ Len(m.d) = 2
        /\ \A k \in DOMAIN m.d : DelSector(m.s[k], m.d[k])
    BY <1>2 DEF Mensajes, TiposPut
  <2>2. QED
    BY <2>1, ElementoTipo
<1>4. e \in Buenos
  BY <1>1, <1>3, EstadoBueno, LdapModificarSectorBueno
<1>5. e.memc = memc
  BY <1>1 DEF LdapModificarSector, Estado
<1>6. memc' = memc /\ Apagar /\ nPedidos' = nPedidos
  BY DEF CaerGrabando
<1>7. QED
  BY <1>1, <1>4, <1>5, <1>6, PasoApagar DEF Buenos, Estados

LEMMA PasoPide ==
    ASSUME InvDisco, NEW m \in Mensajes, Pide(m)
    PROVE  InvDisco'
<1>1. Envia("array", m) /\ nPedidos < MaxPedidos /\ nPedidos' = nPedidos + 1 /\ UNCHANGED loopDeInv
      /\ UNCHANGED <<conexion, salida, con>>
  BY DEF Pide, loopIgual, loopDeInv
<1>2. entrada' \in [Clientes -> Seq(Mensajes)]
  BY <1>1, EnviaTipo DEF InvDisco, Clientes
<1>3. nPedidos' \in 0..MaxPedidos
  BY <1>1, DiscoAssumption DEF InvDisco
<1>4. InvLoop'
  BY <1>1, LoopSigue DEF InvDisco
<1>5. QED
  BY <1>1, <1>2, <1>3, <1>4 DEF InvDisco, InvCanales, ConsolaBien

LEMMA PasoPideGet ==
    ASSUME InvDisco, PideGet
    PROVE  InvDisco'
<1>1. <<>> \in Seq(Contenidos) /\ DOMAIN <<>> = {}
  OBVIOUS
<1>2. \A s \in Pares : Mensaje("GET2", s, <<>>) \in Mensajes
  BY <1>1, PedibleTipo DEF Mensaje, Mensajes, Tipos, TiposGet, TiposPut
<1>3. \A s \in Sueltos : Mensaje("GET1", <<s>>, <<>>) \in Mensajes
  BY <1>1, PedibleTipo DEF Mensaje, Mensajes, Tipos, TiposGet, TiposPut
<1>4. QED
  BY <1>2, <1>3, PasoPide DEF PideGet

\* What the array writes in the n-th request.
LEMMA PidePutTipo ==
    ASSUME NEW n \in 1..MaxPedidos
    PROVE  /\ \A s \in Pares : Mensaje("PUT2", s, <<Escrito(s[1], n), Escrito(s[2], n)>>) \in Mensajes
           /\ \A s \in Sueltos : Mensaje("PUT1", <<s>>, <<Escrito(s, n)>>) \in Mensajes
<1>1. \A s \in Pares : Mensaje("PUT2", s, <<Escrito(s[1], n), Escrito(s[2], n)>>) \in Mensajes
  <2> SUFFICES ASSUME NEW s \in Pares
               PROVE  Mensaje("PUT2", s, <<Escrito(s[1], n), Escrito(s[2], n)>>) \in Mensajes
    OBVIOUS
  <2>1. /\ s \in Seq(Pedibles) /\ Len(s) = 2 /\ s[1] \in Pedibles /\ s[2] \in Pedibles
    BY PedibleTipo
  <2>2. /\ Escrito(s[1], n) \in Contenidos /\ DelSector(s[1], Escrito(s[1], n))
        /\ Escrito(s[2], n) \in Contenidos /\ DelSector(s[2], Escrito(s[2], n))
    BY <2>1, EscritoTipo
  <2> DEFINE a == Escrito(s[1], n)
             b == Escrito(s[2], n)
  <2> HIDE DEF a, b
  <2>3. <<a, b>> \in Seq(Contenidos) /\ Len(<<a, b>>) = 2
        /\ \A k \in DOMAIN <<a, b>> : DelSector(s[k], <<a, b>>[k])
    BY <2>2 DEF a, b
  <2>4. Mensaje("PUT2", s, <<a, b>>) \in Mensajes
    BY <2>1, <2>3 DEF Mensaje, Mensajes, Tipos, TiposGet, TiposPut
  <2>5. QED
    BY <2>4 DEF a, b
<1>2. \A s \in Sueltos : Mensaje("PUT1", <<s>>, <<Escrito(s, n)>>) \in Mensajes
  <2> SUFFICES ASSUME NEW s \in Sueltos
               PROVE  Mensaje("PUT1", <<s>>, <<Escrito(s, n)>>) \in Mensajes
    OBVIOUS
  <2>1. <<s>> \in Seq(Pedibles) /\ s \in Pedibles /\ Len(<<s>>) = 1
    BY PedibleTipo
  <2>2. Escrito(s, n) \in Contenidos /\ DelSector(s, Escrito(s, n))
    BY <2>1, EscritoTipo
  <2> DEFINE a == Escrito(s, n)
  <2> HIDE DEF a
  <2>3. <<a>> \in Seq(Contenidos) /\ Len(<<a>>) = 1
        /\ \A k \in DOMAIN <<a>> : DelSector(<<s>>[k], <<a>>[k])
    BY <2>2 DEF a
  <2>4. Mensaje("PUT1", <<s>>, <<a>>) \in Mensajes
    BY <2>1, <2>3 DEF Mensaje, Mensajes, Tipos, TiposGet, TiposPut
  <2>5. QED
    BY <2>4 DEF a
<1>3. QED
  BY <1>1, <1>2

LEMMA PasoPidePut ==
    ASSUME InvDisco, PidePut
    PROVE  InvDisco'
<1> DEFINE n == nPedidos + 1
<1>1. n \in 1..MaxPedidos
  <2>1. nPedidos < MaxPedidos
    BY DEF PidePut, Pide
  <2>2. QED
    BY <2>1, DiscoAssumption DEF InvDisco
<1> HIDE DEF n
<1>2. QED
  BY <1>1, PidePutTipo, PasoPide DEF PidePut, n

LEMMA SinDatosTipo ==
    ASSUME NEW t \in {"CHS", "HSCACHE"}
    PROVE  Mensaje(t, <<>>, <<>>) \in Mensajes
<1>1. <<>> \in Seq(Contenidos) /\ <<>> \in Seq(Pedibles) /\ DOMAIN <<>> = {}
  OBVIOUS
<1>2. QED
  BY <1>1 DEF Mensaje, Mensajes, Tipos, TiposGet, TiposPut

\* The steps that leave alone the loop and the console.
LEMMA PasoDeCanal ==
    ASSUME InvDisco, UNCHANGED <<con, nPedidos>>, InvLoop',
           entrada' \in [Clientes -> Seq(Mensajes)], salida' \in [Clientes -> Seq(Respuestas)],
           conexion' \in [Clientes -> {"abierta", "cerrada", "rota"}]
    PROVE  InvDisco'
BY DEF InvDisco, InvCanales, ConsolaBien

LEMMA PasoEntorno ==
    ASSUME InvDisco, Entorno
    PROVE  InvDisco'
<1>1. CASE Arrancar
  BY <1>1, PasoArrancar
<1>2. CASE Caer
  BY <1>2, PasoCaer
<1>3. ASSUME NEW c \in Clientes, CaerGrabando(c) PROVE InvDisco'
  BY <1>3, PasoCaerGrabando
<1>4. CASE PideGet \/ PidePut
  BY <1>4, PasoPideGet, PasoPidePut
<1>5. CASE PideCHS
  BY <1>5, SinDatosTipo, PasoPide DEF PideCHS
<1>6. CASE ArrayRecibe
  <2>1. salida' \in [Clientes -> Seq(Respuestas)]
    BY <1>6, TomaTipo DEF ArrayRecibe, InvDisco, Clientes
  <2>2. InvLoop'
    BY <1>6, LoopSigue DEF ArrayRecibe, InvDisco, loopIgual, loopDeInv
  <2>3. QED
    BY <1>6, <2>1, <2>2, PasoDeCanal DEF ArrayRecibe, InvDisco, InvCanales, loopIgual, entorno
<1>7. CASE ArrayCierra
  <2>1. <<>> \in Seq(Respuestas)
    OBVIOUS
  <2>2. InvLoop'
    BY <1>7, LoopSigue DEF ArrayCierra, InvDisco, loopDeInv
  <2>3. QED
    BY <1>7, <2>1, <2>2, PasoDeCanal DEF ArrayCierra, Cerrar, InvDisco, InvCanales
<1>8. CASE CacheConecta
  <2>1. entrada' \in [Clientes -> Seq(Mensajes)]
    BY <1>8, SinDatosTipo, EnviaTipo DEF CacheConecta, InvDisco, Clientes
  <2>2. InvLoop'
    BY <1>8 DEF CacheConecta, InvDisco, InvLoop, Fiel, DelSector, Medida
  <2>3. QED
    BY <1>8, <2>1, <2>2, PasoDeCanal DEF CacheConecta, InvDisco, InvCanales, entorno
<1>9. CASE CacheMuere
  <2>1. InvLoop'
    BY <1>9 DEF CacheMuere, InvDisco, InvLoop, Fiel, DelSector, Medida
  <2>2. QED
    BY <1>9, <2>1, PasoDeCanal DEF CacheMuere, Cerrar, InvDisco, InvCanales
<1>10. ASSUME NEW s \in Pedibles, Desaloja(s) PROVE InvDisco'
  <2>1. memc' \in [Pedibles -> Contados]
    BY <1>10 DEF Desaloja, InvDisco, InvLoop, Contados
  <2>2. Fiel(ldap, memc)'
    BY <1>10 DEF Desaloja, InvDisco, InvLoop, Fiel, DelSector
  <2>3. InvLoop'
    BY <1>10, <2>1, <2>2 DEF Desaloja, InvDisco, InvLoop, Medida
  <2>4. QED
    BY <1>10, <2>3, PasoDeCanal DEF Desaloja, InvDisco, InvCanales, canales
<1>11. QED
  BY <1>1, <1>2, <1>3, <1>4, <1>5, <1>6, <1>7, <1>8, <1>9, <1>10 DEF Entorno, Pedibles

-----------------------------------------------------------------------------
(* The theorems *)

LEMMA InicioDisco == Init => InvDisco
<1> SUFFICES ASSUME Init PROVE InvDisco
  OBVIOUS
<1>1. InvLoop
  <2>1. NoHay \in Contados /\ 0 \in 0..Pasadas - 1 /\ \A s : DelSector(s, NoHay)
    BY DiscoAssumption DEF Contados, DelSector
  <2>2. QED
    BY <2>1, Est0Tipo, CeroEsId DEF Init, InvLoop, Fiel, Pedibles
<1>2. InvCanales
  <2>1. <<>> \in Seq(Mensajes) /\ <<>> \in Seq(Respuestas)
    OBVIOUS
  <2>2. QED
    BY <2>1 DEF Init, InvCanales
<1>3. QED
  BY <1>1, <1>2, Con0Bien, DiscoAssumption DEF Init, InvDisco

LEMMA PasoDisco == InvDisco /\ [Next]_vars => InvDisco'
<1> SUFFICES ASSUME InvDisco, [Next]_vars PROVE InvDisco'
  OBVIOUS
<1>1. CASE Bucle
  BY <1>1, PasoAtender, PasoAtenderCierre, PasoFinDePasada
     DEF Bucle, AtenderGet, AtenderConsola, AtenderPut, AtenderCHS, AtenderCache
<1>2. CASE Consola
  BY <1>2, PasoConsolaPaso, PasoConsolaAvanza, PasoConsolaPide, PasoConsolaObtiene,
     PasoConsolaEscribe DEF Consola
<1>3. CASE Operador
  <2>1. ASSUME NEW l \in DeConsola, Len(l) = 1 PROVE l[1] \in Ids
    BY <2>1, DiscoAssumption
  <2>2. QED
    BY <1>3, <2>1, PasoOrdenObtener, PasoOrdenEscribir, PasoOrdenOtra DEF Operador
<1>4. CASE Entorno
  BY <1>4, PasoEntorno
<1>5. CASE UNCHANGED vars
  BY <1>5 DEF vars, canales, entorno, InvDisco, InvLoop, InvCanales, ConsolaBien, Fiel, DelSector,
              Medida
<1>6. QED
  BY <1>1, <1>2, <1>3, <1>4, <1>5 DEF Next

LEMMA SiempreInvDisco == Spec => []InvDisco
BY InicioDisco, PasoDisco, PTL DEF Spec

\* Every variable of the disk has its type: the head and the head of the console
\* are always in the matrix, or the second one column past it after the search of
\* escribirSector, and the counters of time stay in an unsigned int.
THEOREM TiposDisco == Spec => []TypeOK
<1>1. InvDisco => TypeOK
  BY DEF InvDisco, InvLoop, InvCanales, ConsolaBien, TypeOK, Consolas, Holgados, Pedibles,
         Contados, Estadisticas
<1>2. QED
  BY <1>1, SiempreInvDisco, PTL

\* No content is ever found at another sector, in the directory or in memcached,
\* whatever fails, restarts or is evicted and whatever pairs are asked for.
THEOREM ContenidoEnSuSector == Spec => []ContenidoDelSector
<1>1. InvDisco => ContenidoDelSector
  BY DEF InvDisco, InvLoop, Fiel, Pedibles, ContenidoDelSector
<1>2. QED
  BY <1>1, SiempreInvDisco, PTL

LEMMA MasCero == \A n \in Nat : n + 0 = n
OBVIOUS

\* For every geometry the console asks for as many sectors on the way as the walk
\* of calculosYEstadisticas.c crosses.
THEOREM LosCaminosCoinciden == Spec => []CaminosIguales
<1>1. InvDisco => CaminosIguales
  <2> SUFFICES ASSUME InvDisco, con.paso = "espera sector"
               PROVE  con.leidos = Cruzados(con.desde, Head(con.resto))
    BY DEF CaminosIguales
  <2> DEFINE s == Head(con.resto)
  <2>1. s \in Ids /\ con.leidos \in Nat /\ con.p \in Lugares /\ ImDisco(con.p) = s
        /\ con.leidos + Cruzados(con.p, s) = Cruzados(con.desde, s)
    BY ConEnCamino DEF EnCamino
  <2> HIDE DEF s
  <2>2. Cruzados(con.p, s) = 0
    BY <2>1, CruzadosTipo
  <2>3. QED
    BY <2>1, <2>2, MasCero, Zenon DEF s
<1>2. QED
  BY <1>1, SiempreInvDisco, PTL

\* Without a cache, whose delays are subtracted from the time of an access, the
\* worst search is never longer than the longest walk of the geometry.
THEOREM PeorTiempo == ~HayCache => (Spec => []PeorTiempoAcotado)
<1> SUFFICES ASSUME ~HayCache PROVE Spec => []PeorTiempoAcotado
  OBVIOUS
<1>1. InvDisco => PeorTiempoAcotado
  BY DEF InvDisco, InvLoop, Medida, Cota, PeorTiempoAcotado
<1>2. QED
  BY <1>1, SiempreInvDisco, PTL

-----------------------------------------------------------------------------
(* The store of sectors *)

\* When the disk is a store.  There is no cache; of LDAP only the last modification
\* of a write may fail (the result of the others is not looked at, and a search that
\* fails is answered with zeros); nobody closes its connection before the disk ends;
\* and pairs are of sectors the disk has, for a first sector that does not exist is
\* not written and the pair is confirmed.
Almacena ==
    /\ ~HayCache
    /\ Fallas \subseteq {"grabar ultimo"}
    /\ MaxCierres = 0
    /\ Pares \subseteq Ids \X Ids

Guardado(l) == [s \in Ids |-> IF l[s] = NoHay THEN Vacio ELSE l[s]]
PedidosDe(e) == [c \in Clientes |-> [k \in DOMAIN e[c] |-> PedidoAbstracto(e[c][k])]]
RtasDe(o) == [c \in Clientes |->
                [k \in DOMAIN o[c] |-> [t |-> RtaAbstracta(o[c][k]), d |-> o[c][k].d]]]

-----------------------------------------------------------------------------
(* The abstract store in terms of the disk *)

lA == Guardado(ldap)
eA == PedidosDe(entrada)
oA == RtasDe(salida)

GrabadoA(p, n) ==
    [s \in Ids |-> LET k == {i \in 1..n : p.s[i] = s}
                   IN IF k = {} THEN lA[s] ELSE p.d[CHOOSE i \in k : \A j \in k : j <= i]]
AtiendeA(c, tipos) == eA[c] # <<>> /\ Head(eA[c]).t \in tipos /\ eA' = [eA EXCEPT ![c] = Tail(@)]
RespondeA(c, t, d) == oA' = [oA EXCEPT ![c] = Append(@, [t |-> t, d |-> d])]

LEMMA Atiende ==
    ASSUME NEW c, NEW tipos
    PROVE  A!Atiende(c, tipos) <=> AtiendeA(c, tipos)
BY Zenon DEF A!Atiende, AtiendeA, eA, PedidosDe

LEMMA Responde ==
    ASSUME NEW c, NEW t, NEW d
    PROVE  A!Responde(c, t, d) <=> RespondeA(c, t, d)
BY Zenon DEF A!Responde, RespondeA, oA, RtasDe

LEMMA Grabado ==
    ASSUME NEW p, NEW n
    PROVE  A!Grabado(p, n) = GrabadoA(p, n)
BY Zenon DEF A!Grabado, GrabadoA, lA, Guardado

LEMMA LeerA ==
    ASSUME NEW c, AtiendeA(c, {"LEE"}), \A k \in DOMAIN Head(eA[c]).s : Head(eA[c]).s[k] \in Ids,
           NEW d, d = [k \in DOMAIN Head(eA[c]).s |-> lA[Head(eA[c]).s[k]]],
           RespondeA(c, "DATOS", d), lA' = lA
    PROVE  A!Leer(c)
<1>1. A!Atiende(c, {"LEE"}) /\ A!Responde(c, "DATOS", d)
  BY Atiende, Responde
<1>2. A!Leer(c) <=>
        /\ A!Atiende(c, {"LEE"})
        /\ \A k \in DOMAIN Head(eA[c]).s : Head(eA[c]).s[k] \in Ids
        /\ A!Responde(c, "DATOS", [k \in DOMAIN Head(eA[c]).s |-> lA[Head(eA[c]).s[k]]])
        /\ lA' = lA
  BY Zenon DEF A!Leer, lA, eA, Guardado, PedidosDe
<1>3. A!Responde(c, "DATOS", [k \in DOMAIN Head(eA[c]).s |-> lA[Head(eA[c]).s[k]]])
  BY Zenon DEF A!Responde, RespondeA, oA, RtasDe
<1>4. QED
  BY <1>1, <1>2, <1>3, Zenon

LEMMA GrabarA ==
    ASSUME NEW c, AtiendeA(c, {"GRABA"}), \A k \in DOMAIN Head(eA[c]).s : Head(eA[c]).s[k] \in Ids,
           RespondeA(c, "OK", <<>>),
           lA' = GrabadoA(Head(eA[c]), Len(Head(eA[c]).s))
    PROVE  A!Grabar(c)
<1>1. A!Atiende(c, {"GRABA"}) /\ A!Responde(c, "OK", <<>>)
  BY Atiende, Responde
<1>2. lA' = A!Grabado(Head(eA[c]), Len(Head(eA[c]).s))
  BY Grabado
<1>3. QED
  BY <1>1, <1>2, Zenon DEF A!Grabar, lA, eA, Guardado, PedidosDe

LEMMA RechazarA ==
    ASSUME NEW c, AtiendeA(c, {"GRABA"}), RespondeA(c, "FALLA", <<>>),
           NEW n \in 0..Len(Head(eA[c]).s) - 1, lA' = GrabadoA(Head(eA[c]), n)
    PROVE  A!Rechazar(c)
<1>1. A!Atiende(c, {"GRABA"}) /\ A!Responde(c, "FALLA", <<>>)
  BY Atiende, Responde
<1>2. lA' = A!Grabado(Head(eA[c]), n)
  BY Grabado
<1>3. QED
  BY <1>1, <1>2, Zenon DEF A!Rechazar, lA, eA, Guardado, PedidosDe

LEMMA GrabarSinAvisoA ==
    ASSUME NEW c, AtiendeA(c, {"GRABA SIN AVISO"}), oA' = oA,
           NEW n \in 0..Len(Head(eA[c]).s), lA' = GrabadoA(Head(eA[c]), n)
    PROVE  A!GrabarSinAviso(c)
<1>1. A!Atiende(c, {"GRABA SIN AVISO"})
  BY Atiende
<1>2. lA' = A!Grabado(Head(eA[c]), n)
  BY Grabado
<1>3. QED
  BY <1>1, <1>2, Zenon DEF A!GrabarSinAviso, lA, eA, oA, Guardado, PedidosDe, RtasDe

LEMMA OtroA ==
    ASSUME NEW c, AtiendeA(c, {"OTRO"}), RespondeA(c, "OTRA", <<>>), lA' = lA
    PROVE  A!Otro(c)
<1>1. A!Atiende(c, {"OTRO"}) /\ A!Responde(c, "OTRA", <<>>)
  BY Atiende, Responde
<1>2. QED
  BY <1>1, Zenon DEF A!Otro, lA, Guardado

LEMMA TrabarA ==
    ASSUME NEW c, AtiendeA(c, {"LEE"}), \E k \in DOMAIN Head(eA[c]).s : Head(eA[c]).s[k] \notin Ids,
           lA' = lA, oA' = oA
    PROVE  A!Trabar(c)
<1>1. A!Atiende(c, {"LEE"})
  BY Atiende
<1>2. QED
  BY <1>1, Zenon DEF A!Trabar, lA, eA, oA, Guardado, PedidosDe, RtasDe

LEMMA RecibirA ==
    ASSUME NEW c, oA[c] # <<>>, oA' = [oA EXCEPT ![c] = Tail(@)], lA' = lA, eA' = eA
    PROVE  A!Recibir(c)
BY Zenon DEF A!Recibir, lA, eA, oA, Guardado, PedidosDe, RtasDe

LEMMA PedirA ==
    ASSUME NEW c, NEW p \in A!Pedidos, Len(eA'[c]) > 0, eA'[c][Len(eA'[c])] = p,
           eA' = [eA EXCEPT ![c] = Append(@, p)], lA' = lA, oA' = oA
    PROVE  A!Pedir(c)
BY Zenon DEF A!Pedir, lA, eA, oA, Guardado, PedidosDe, RtasDe

LEMMA CortarA ==
    ASSUME \/ lA' = lA
           \/ \E c \in Clientes : \E n \in 1..2 :
                 eA[c] # <<>> /\ n <= Len(Head(eA[c]).d) /\ lA' = GrabadoA(Head(eA[c]), n),
           eA' = [c \in Clientes |-> <<>>], oA' = [c \in Clientes |-> <<>>]
    PROVE  A!Cortar
<1>1. \/ lA' = lA
      \/ \E c \in Clientes : \E n \in 1..2 :
            eA[c] # <<>> /\ n <= Len(Head(eA[c]).d) /\ lA' = A!Grabado(Head(eA[c]), n)
  BY Grabado
<1>2. QED
  BY <1>1, Zenon DEF A!Cortar, lA, eA, oA, Guardado, PedidosDe, RtasDe

\* One of these steps, or none.
LEMMA PasoA ==
    ASSUME \/ lA' = lA /\ eA' = eA /\ oA' = oA
           \/ A!Cortar
           \/ \E c \in Clientes : \/ A!Pedir(c) \/ A!Leer(c) \/ A!Grabar(c) \/ A!Rechazar(c)
                                  \/ A!GrabarSinAviso(c) \/ A!Otro(c) \/ A!Recibir(c) \/ A!Trabar(c)
    PROVE  [A!Next]_(A!vars)
<1>1. CASE lA' = lA /\ eA' = eA /\ oA' = oA
  BY <1>1, Zenon DEF A!vars, lA, eA, oA, Guardado, PedidosDe, RtasDe
<1>2. CASE ~(lA' = lA /\ eA' = eA /\ oA' = oA)
  BY <1>2, Zenon DEF A!Next
<1>3. QED
  BY <1>1, <1>2

-----------------------------------------------------------------------------
(* The queues of the disk and those of the store *)

Mapa(q, f) == [k \in DOMAIN q |-> f[q[k]]]

EsMapa(u, q, f, T) ==
    /\ u \in Seq(T) /\ Len(u) = Len(q)
    /\ \A k \in 1..Len(q) : u[k] = f[q[k]]

LEMMA MapaSeq ==
    ASSUME NEW S, NEW T, NEW f \in [S -> T], NEW q \in Seq(S)
    PROVE  EsMapa(Mapa(q, f), q, f, T)
<1>1. DOMAIN q = 1..Len(q) /\ Len(q) \in Nat /\ \A k \in 1..Len(q) : q[k] \in S
  OBVIOUS
<1>2. Mapa(q, f) = [k \in 1..Len(q) |-> f[q[k]]]
  BY <1>1 DEF Mapa
<1>3. Mapa(q, f) \in [1..Len(q) -> T]
  BY <1>1, <1>2
<1>4. QED
  BY <1>1, <1>2, <1>3 DEF EsMapa

LEMMA MapaIgual ==
    ASSUME NEW T, NEW a \in Seq(T), NEW b \in Seq(T), Len(a) = Len(b),
           \A k \in 1..Len(a) : a[k] = b[k]
    PROVE  a = b
OBVIOUS

LEMMA MapaAppend ==
    ASSUME NEW S, NEW T, NEW f \in [S -> T], NEW q \in Seq(S), NEW x \in S
    PROVE  Mapa(Append(q, x), f) = Append(Mapa(q, f), f[x])
<1>1. Append(q, x) \in Seq(S) /\ Len(Append(q, x)) = Len(q) + 1
      /\ \A k \in 1..Len(q) + 1 : Append(q, x)[k] = IF k = Len(q) + 1 THEN x ELSE q[k]
  OBVIOUS
<1> DEFINE a == Mapa(Append(q, x), f)
           b == Append(Mapa(q, f), f[x])
<1>2. a \in Seq(T) /\ Len(a) = Len(q) + 1
      /\ \A k \in 1..Len(q) + 1 : a[k] = IF k = Len(q) + 1 THEN f[x] ELSE f[q[k]]
  <2> DEFINE z == Append(q, x)
  <2> HIDE DEF z
  <2>1. z \in Seq(S) /\ Len(z) = Len(q) + 1
        /\ \A k \in 1..Len(q) + 1 : z[k] = IF k = Len(q) + 1 THEN x ELSE q[k]
    BY <1>1 DEF z
  <2>2. Mapa(z, f) \in Seq(T) /\ Len(Mapa(z, f)) = Len(z)
        /\ \A k \in 1..Len(z) : Mapa(z, f)[k] = f[z[k]]
    <3>1. EsMapa(Mapa(z, f), z, f, T)
      BY <2>1, MapaSeq
    <3>2. QED
      BY <3>1 DEF EsMapa
  <2>3. a = Mapa(z, f)
    BY DEF z
  <2>4. QED
    BY <2>1, <2>2, <2>3
<1>3. b \in Seq(T) /\ Len(b) = Len(q) + 1
      /\ \A k \in 1..Len(q) + 1 : b[k] = IF k = Len(q) + 1 THEN f[x] ELSE f[q[k]]
  <2>1. Mapa(q, f) \in Seq(T) /\ Len(Mapa(q, f)) = Len(q) /\ f[x] \in T
        /\ \A k \in 1..Len(q) : Mapa(q, f)[k] = f[q[k]]
    <3>1. EsMapa(Mapa(q, f), q, f, T)
      BY MapaSeq
    <3>2. QED
      BY <3>1 DEF EsMapa
  <2> DEFINE u == Mapa(q, f)
             y == f[x]
  <2> HIDE DEF u, y
  <2>2. u \in Seq(T) /\ y \in T /\ Len(u) \in Nat
    BY <2>1 DEF u, y
  <2>3. Append(u, y) \in Seq(T) /\ Len(Append(u, y)) = Len(u) + 1
        /\ \A k \in 1..Len(u) + 1 : Append(u, y)[k] = IF k = Len(u) + 1 THEN y ELSE u[k]
    BY <2>2
  <2>4. QED
    BY <2>1, <2>3 DEF u, y
<1> HIDE DEF a, b
<1>4. a = b
  BY <1>2, <1>3, MapaIgual
<1>5. QED
  BY <1>4 DEF a, b

LEMMA MapaTail ==
    ASSUME NEW S, NEW T, NEW f \in [S -> T], NEW q \in Seq(S), q # <<>>
    PROVE  /\ Mapa(Tail(q), f) = Tail(Mapa(q, f)) /\ Mapa(q, f) # <<>>
           /\ Head(Mapa(q, f)) = f[Head(q)] /\ Head(q) \in S
<1>1. Tail(q) \in Seq(S) /\ Len(Tail(q)) = Len(q) - 1 /\ Len(q) \in Nat \ {0}
      /\ (\A k \in 1..Len(q) - 1 : Tail(q)[k] = q[k + 1]) /\ Head(q) = q[1] /\ q[1] \in S
  OBVIOUS
<1> DEFINE a == Mapa(Tail(q), f)
           u == Mapa(q, f)
<1>2. a \in Seq(T) /\ Len(a) = Len(q) - 1 /\ \A k \in 1..Len(q) - 1 : a[k] = f[q[k + 1]]
  <2> DEFINE z == Tail(q)
  <2> HIDE DEF z
  <2>1. z \in Seq(S) /\ Len(z) = Len(q) - 1 /\ \A k \in 1..Len(q) - 1 : z[k] = q[k + 1]
    BY <1>1 DEF z
  <2>2. Mapa(z, f) \in Seq(T) /\ Len(Mapa(z, f)) = Len(z)
        /\ \A k \in 1..Len(z) : Mapa(z, f)[k] = f[z[k]]
    <3>1. EsMapa(Mapa(z, f), z, f, T)
      BY <2>1, MapaSeq
    <3>2. QED
      BY <3>1 DEF EsMapa
  <2>3. a = Mapa(z, f)
    BY DEF z
  <2>4. QED
    BY <2>1, <2>2, <2>3
<1>3. u \in Seq(T) /\ Len(u) = Len(q) /\ \A k \in 1..Len(q) : u[k] = f[q[k]]
  <2>1. EsMapa(Mapa(q, f), q, f, T)
    BY MapaSeq
  <2>2. QED
    BY <2>1 DEF EsMapa
<1> HIDE DEF a, u
<1>4. u # <<>> /\ Tail(u) \in Seq(T) /\ Len(Tail(u)) = Len(q) - 1 /\ Head(u) = u[1]
      /\ \A k \in 1..Len(q) - 1 : Tail(u)[k] = u[k + 1]
  BY <1>1, <1>3
<1>5. \A k \in 1..Len(q) - 1 : Tail(u)[k] = a[k]
  BY <1>1, <1>2, <1>3, <1>4
<1>6. a = Tail(u)
  BY <1>2, <1>4, <1>5, MapaIgual
<1>7. QED
  BY <1>1, <1>3, <1>4, <1>6 DEF a, u

fP == [m \in Mensajes |-> PedidoAbstracto(m)]
fR == [r \in Respuestas |-> [t |-> RtaAbstracta(r), d |-> r.d]]
TP == {PedidoAbstracto(m) : m \in Mensajes}
TR == {[t |-> RtaAbstracta(r), d |-> r.d] : r \in Respuestas}

LEMMA PedidosDeMapa ==
    ASSUME NEW e \in [Clientes -> Seq(Mensajes)]
    PROVE  fP \in [Mensajes -> TP] /\ PedidosDe(e) = [c \in Clientes |-> Mapa(e[c], fP)]
<1>1. \A c \in Clientes : \A k \in DOMAIN e[c] : e[c][k] \in Mensajes
  OBVIOUS
<1>2. QED
  BY <1>1 DEF PedidosDe, Mapa, fP, TP

LEMMA RtasDeMapa ==
    ASSUME NEW o \in [Clientes -> Seq(Respuestas)]
    PROVE  fR \in [Respuestas -> TR] /\ RtasDe(o) = [c \in Clientes |-> Mapa(o[c], fR)]
<1>1. \A c \in Clientes : \A k \in DOMAIN o[c] : o[c][k] \in Respuestas
  OBVIOUS
<1>2. QED
  BY <1>1 DEF RtasDe, Mapa, fR, TR

LEMMA TomarPedido ==
    ASSUME NEW e \in [Clientes -> Seq(Mensajes)], NEW c \in Clientes, e[c] # <<>>
    PROVE  /\ PedidosDe(e)[c] # <<>> /\ Head(PedidosDe(e)[c]) = PedidoAbstracto(Head(e[c]))
           /\ PedidosDe([e EXCEPT ![c] = Tail(@)]) = [PedidosDe(e) EXCEPT ![c] = Tail(@)]
<1> DEFINE e1 == [e EXCEPT ![c] = Tail(@)]
<1>1. e[c] \in Seq(Mensajes) /\ Tail(e[c]) \in Seq(Mensajes) /\ e1 \in [Clientes -> Seq(Mensajes)]
  OBVIOUS
<1>2. e1[c] = Tail(e[c]) /\ \A x \in Clientes : x # c => e1[x] = e[x]
  OBVIOUS
<1> HIDE DEF e1
<1>3. Mapa(Tail(e[c]), fP) = Tail(Mapa(e[c], fP)) /\ Mapa(e[c], fP) # <<>>
      /\ Head(Mapa(e[c], fP)) = fP[Head(e[c])] /\ Head(e[c]) \in Mensajes
  BY <1>1, PedidosDeMapa, MapaTail
<1>4. PedidosDe(e) = [x \in Clientes |-> Mapa(e[x], fP)]
      /\ PedidosDe(e1) = [x \in Clientes |-> Mapa(e1[x], fP)]
  BY <1>1, PedidosDeMapa
<1>5. PedidosDe(e1) = [PedidosDe(e) EXCEPT ![c] = Tail(@)]
  <2>1. \A x \in Clientes : PedidosDe(e1)[x] = IF x = c THEN Tail(PedidosDe(e)[c])
                                                      ELSE PedidosDe(e)[x]
    <3>1. PedidosDe(e1)[c] = Tail(PedidosDe(e)[c])
      BY <1>2, <1>3, <1>4, Zenon
    <3>2. ASSUME NEW x \in Clientes, x # c PROVE PedidosDe(e1)[x] = PedidosDe(e)[x]
      BY <1>2, <1>4, <3>2, Zenon
    <3>3. QED
      BY <3>1, <3>2, Zenon
  <2>2. QED
    BY <1>4, <2>1, Zenon
<1>6. QED
  BY <1>3, <1>4, <1>5 DEF e1, fP

EnviadoPedido(e1, e, c, m) == e1 = [e EXCEPT ![c] = Append(@, m)]
EnviadoPedidoA(p1, p, c, m) ==
    /\ p1 = [p EXCEPT ![c] = Append(@, PedidoAbstracto(m))]
    /\ Len(p1[c]) > 0 /\ p1[c][Len(p1[c])] = PedidoAbstracto(m)

LEMMA PonerPedido ==
    ASSUME NEW e \in [Clientes -> Seq(Mensajes)], NEW c \in Clientes, NEW m \in Mensajes,
           NEW e1, EnviadoPedido(e1, e, c, m)
    PROVE  EnviadoPedidoA(PedidosDe(e1), PedidosDe(e), c, m)
<1> DEFINE v == PedidoAbstracto(m)
<1>1. e[c] \in Seq(Mensajes) /\ Append(e[c], m) \in Seq(Mensajes) /\ e1 \in [Clientes -> Seq(Mensajes)]
  BY DEF EnviadoPedido
<1>2. e1[c] = Append(e[c], m) /\ \A x \in Clientes : x # c => e1[x] = e[x]
  BY <1>1 DEF EnviadoPedido
<1>3. Mapa(Append(e[c], m), fP) = Append(Mapa(e[c], fP), v)
  <2>0. fP \in [Mensajes -> TP]
    BY <1>1, PedidosDeMapa
  <2>1. Mapa(Append(e[c], m), fP) = Append(Mapa(e[c], fP), fP[m])
    BY <1>1, <2>0, MapaAppend
  <2>2. fP[m] = v
    BY DEF fP
  <2>3. QED
    BY <2>1, <2>2
<1>4. PedidosDe(e) = [x \in Clientes |-> Mapa(e[x], fP)]
      /\ PedidosDe(e1) = [x \in Clientes |-> Mapa(e1[x], fP)]
  BY <1>1, PedidosDeMapa
<1>5. PedidosDe(e1) = [PedidosDe(e) EXCEPT ![c] = Append(@, v)]
  BY <1>2, <1>3, <1>4
<1>6. Mapa(e[c], fP) \in Seq(TP) /\ v \in TP
  BY <1>1, PedidosDeMapa, MapaSeq DEF TP, EsMapa
<1> HIDE DEF v
<1>7. PedidosDe(e1)[c] = Append(Mapa(e[c], fP), v)
  BY <1>2, <1>3, <1>4
<1>8. \A u \in Seq(TP) : Len(Append(u, v)) > 0 /\ Append(u, v)[Len(Append(u, v))] = v
  BY <1>6
<1>9. Len(PedidosDe(e1)[c]) > 0 /\ PedidosDe(e1)[c][Len(PedidosDe(e1)[c])] = v
  BY <1>6, <1>7, <1>8
<1>10. QED
  BY <1>5, <1>9 DEF v, EnviadoPedidoA

LEMMA TomarRta ==
    ASSUME NEW o \in [Clientes -> Seq(Respuestas)], NEW c \in Clientes, o[c] # <<>>
    PROVE  /\ RtasDe(o)[c] # <<>>
           /\ RtasDe([o EXCEPT ![c] = Tail(@)]) = [RtasDe(o) EXCEPT ![c] = Tail(@)]
<1> DEFINE o1 == [o EXCEPT ![c] = Tail(@)]
<1>1. o[c] \in Seq(Respuestas) /\ Tail(o[c]) \in Seq(Respuestas) /\ o1 \in [Clientes -> Seq(Respuestas)]
  OBVIOUS
<1>2. o1[c] = Tail(o[c]) /\ \A x \in Clientes : x # c => o1[x] = o[x]
  OBVIOUS
<1> HIDE DEF o1
<1>3. Mapa(Tail(o[c]), fR) = Tail(Mapa(o[c], fR)) /\ Mapa(o[c], fR) # <<>>
  BY <1>1, RtasDeMapa, MapaTail
<1>4. RtasDe(o) = [x \in Clientes |-> Mapa(o[x], fR)]
      /\ RtasDe(o1) = [x \in Clientes |-> Mapa(o1[x], fR)]
  BY <1>1, RtasDeMapa
<1>5. RtasDe(o1) = [RtasDe(o) EXCEPT ![c] = Tail(@)]
  BY <1>2, <1>3, <1>4, ZenonT(40)
<1>6. QED
  BY <1>3, <1>4, <1>5 DEF o1

EnviadaRta(o1, o, c, a) == o1 = [o EXCEPT ![c] = @ \o <<a>>]
EnviadaRtaA(r1, r, c, a) ==
    r1 = [r EXCEPT ![c] = Append(@, [t |-> RtaAbstracta(a), d |-> a.d])]

LEMMA PonerRta ==
    ASSUME NEW o \in [Clientes -> Seq(Respuestas)], NEW c \in Clientes, NEW a \in Respuestas,
           NEW o1, EnviadaRta(o1, o, c, a)
    PROVE  EnviadaRtaA(RtasDe(o1), RtasDe(o), c, a)
<1> DEFINE v == [t |-> RtaAbstracta(a), d |-> a.d]
<1>1. o[c] \in Seq(Respuestas) /\ Append(o[c], a) \in Seq(Respuestas) /\ o[c] \o <<a>> = Append(o[c], a)
  OBVIOUS
<1>2. o1[c] = Append(o[c], a) /\ (\A x \in Clientes : x # c => o1[x] = o[x])
      /\ o1 \in [Clientes -> Seq(Respuestas)]
  BY <1>1 DEF EnviadaRta
<1>3. Mapa(Append(o[c], a), fR) = Append(Mapa(o[c], fR), v)
  <2>0. fR \in [Respuestas -> TR]
    BY <1>1, RtasDeMapa
  <2>1. Mapa(Append(o[c], a), fR) = Append(Mapa(o[c], fR), fR[a])
    BY <1>1, <2>0, MapaAppend
  <2>2. fR[a] = v
    BY DEF fR
  <2>3. QED
    BY <2>1, <2>2
<1> HIDE DEF v
<1>4. RtasDe(o) = [x \in Clientes |-> Mapa(o[x], fR)]
      /\ RtasDe(o1) = [x \in Clientes |-> Mapa(o1[x], fR)]
  BY <1>2, RtasDeMapa
<1>5. RtasDe(o1) = [RtasDe(o) EXCEPT ![c] = Append(@, v)]
  BY <1>2, <1>3, <1>4
<1>6. QED
  BY <1>5 DEF v, EnviadaRtaA

-----------------------------------------------------------------------------
(* What a handler does without a cache and with the session open *)

\* The messages that are sent without a cache.
Firme(m) ==
    /\ m.t \notin {"HSCACHE", "OTRO"}
    /\ m.t \in {"GET2", "PUT2", "DEFINITIVO", "ESCRIBIR"} => \A k \in DOMAIN m.s : m.s[k] \in Ids
    /\ m.t \notin TiposPut => m.d = <<>>
Firmes == {m \in Mensajes : Firme(m)}

\* A handler finds the session open and every sector in the directory.
Firmado(e) == e \in Buenos /\ e.sesion = "viva" /\ e.ldap \in [Ids -> Contenidos]

\* The directory l after the first n sectors of the write p.
Grabando(l, p, n) ==
    [s \in Ids |-> LET k == {i \in 1..n : p.s[i] = s}
                   IN IF k = {} THEN l[s] ELSE p.d[CHOOSE i \in k : \A j \in k : j <= i]]

LEMMA Grabando0 ==
    ASSUME NEW l \in [Ids -> Contenidos], NEW p
    PROVE  Grabando(l, p, 0) = l
<1>1. \A s : {i \in 1..0 : p.s[i] = s} = {}
  OBVIOUS
<1>2. QED
  BY <1>1 DEF Grabando

LEMMA Grabando1 ==
    ASSUME NEW l \in [Ids -> Contenidos], NEW p
    PROVE  Grabando(l, p, 1) = [l EXCEPT ![p.s[1]] = p.d[1]]
<1>1. ASSUME NEW s \in Ids
      PROVE  Grabando(l, p, 1)[s] = IF p.s[1] = s THEN p.d[1] ELSE l[s]
  <2> DEFINE k == {i \in 1..1 : p.s[i] = s}
  <2>1. Grabando(l, p, 1)[s] = IF k = {} THEN l[s] ELSE p.d[CHOOSE i \in k : \A j \in k : j <= i]
    BY DEF Grabando
  <2>2. CASE p.s[1] = s
    <3>1. k = {1}
      BY <2>2
    <3>2. (CHOOSE i \in {1} : \A j \in {1} : j <= i) = 1
      OBVIOUS
    <3>3. QED
      BY <2>1, <2>2, <3>1, <3>2
  <2>3. CASE p.s[1] # s
    <3>1. k = {}
      BY <2>3
    <3>2. QED
      BY <2>1, <2>3, <3>1
  <2>4. QED
    BY <2>2, <2>3
<1>2. Grabando(l, p, 1) = [s \in Ids |-> Grabando(l, p, 1)[s]]
  BY DEF Grabando
<1> DEFINE g == Grabando(l, p, 1)
<1> HIDE DEF g
<1>3. g = [s \in Ids |-> g[s]] /\ \A s \in Ids : g[s] = IF p.s[1] = s THEN p.d[1] ELSE l[s]
  BY <1>1, <1>2 DEF g
<1>4. g = [l EXCEPT ![p.s[1]] = p.d[1]]
  BY <1>3, Zenon
<1>5. QED
  BY <1>4 DEF g

LEMMA Grabando2 ==
    ASSUME NEW l \in [Ids -> Contenidos], NEW p
    PROVE  Grabando(l, p, 2) = [[l EXCEPT ![p.s[1]] = p.d[1]] EXCEPT ![p.s[2]] = p.d[2]]
<1>1. ASSUME NEW s \in Ids
      PROVE  Grabando(l, p, 2)[s] = IF p.s[2] = s THEN p.d[2] ELSE IF p.s[1] = s THEN p.d[1] ELSE l[s]
  <2> DEFINE k == {i \in 1..2 : p.s[i] = s}
             u == CHOOSE i \in k : \A j \in k : j <= i
  <2>1. Grabando(l, p, 2)[s] = IF k = {} THEN l[s] ELSE p.d[u]
    BY DEF Grabando
  <2>2. CASE p.s[2] = s
    <3>1. 2 \in k /\ k \subseteq 1..2
      BY <2>2
    <3> HIDE DEF k
    <3>2. \A j \in k : j <= 2
      BY <3>1
    <3>3. u \in k /\ \A j \in k : j <= u
      BY <3>1, <3>2
    <3> HIDE DEF u
    <3>4. u = 2
      BY <3>1, <3>3
    <3>5. QED
      BY <2>1, <2>2, <3>1, <3>4
  <2>3. CASE p.s[2] # s /\ p.s[1] = s
    <3>1. k = {1}
      BY <2>3
    <3>2. (CHOOSE i \in {1} : \A j \in {1} : j <= i) = 1
      OBVIOUS
    <3>3. QED
      BY <2>1, <2>3, <3>1, <3>2
  <2>4. CASE p.s[1] # s /\ p.s[2] # s
    <3>1. k = {}
      BY <2>4
    <3>2. QED
      BY <2>1, <2>4, <3>1
  <2>5. QED
    BY <2>2, <2>3, <2>4
<1>2. Grabando(l, p, 2) = [s \in Ids |-> Grabando(l, p, 2)[s]]
  BY DEF Grabando
<1> DEFINE g == Grabando(l, p, 2)
<1> HIDE DEF g
<1>3. g = [s \in Ids |-> g[s]]
      /\ \A s \in Ids : g[s] = IF p.s[2] = s THEN p.d[2] ELSE IF p.s[1] = s THEN p.d[1] ELSE l[s]
  BY <1>1, <1>2 DEF g
<1>4. g = [[l EXCEPT ![p.s[1]] = p.d[1]] EXCEPT ![p.s[2]] = p.d[2]]
  BY <1>3, Zenon
<1>5. QED
  BY <1>4 DEF g

\* A sector read is the one in the directory, or zeros.
Leido(l, s) == IF s \in Ids THEN l[s] ELSE Vacio

LEMMA NoHayAparte == NoHay \notin Contenidos /\ Vacio \in Contenidos
<1>1. \A s \in Ids \union {Total} : s >= 0
  BY CeroEsId DEF Ids
<1>2. NoHay \notin Escritos
  BY <1>1 DEF NoHay, Escritos
<1>3. QED
  BY <1>2 DEF NoHay, Vacio, Basura, Contenidos

LEMMA LdapGetSectorFirme ==
    ASSUME Almacena, NEW e, Firmado(e), NEW s \in Pedibles, NEW x \in LdapGetSector(e, s)
    PROVE  x = [e EXCEPT !.d = Append(@, Leido(e.ldap, s))]
<1>1. "leer" \notin Fallas
  BY DEF Almacena
<1>2. s \in Ids => e.ldap[s] # NoHay
  BY NoHayAparte DEF Firmado
<1>3. QED
  BY <1>1, <1>2 DEF LdapGetSector, Firmado, Leido

LEMMA LeidoTipo ==
    ASSUME NEW l \in [Ids -> Contenidos], NEW s
    PROVE  Leido(l, s) \in Contenidos
BY NoHayAparte DEF Leido

\* What stays in a handler that reads: all but the buffers.
Queda(x, e) == x \in Buenos /\ x.ldap = e.ldap /\ x.sesion = e.sesion /\ x.rta = e.rta

LEMMA AgregarBuffer ==
    ASSUME NEW e \in Buenos, NEW v \in Contenidos, NEW x, x = [e EXCEPT !.d = Append(@, v)]
    PROVE  Queda(x, e) /\ x.d = Append(e.d, v) /\ x.fin = e.fin
<1> DEFINE d == Append(e.d, v)
<1>1. d \in Seq(Contenidos)
  BY DEF Buenos, Estados
<1> HIDE DEF d
<1>2. x = [e EXCEPT !.d = d]
  BY DEF d
<1>3. x \in Estados /\ x.ldap = e.ldap /\ x.sesion = e.sesion /\ x.rta = e.rta /\ x.memc = e.memc
      /\ x.est = e.est /\ x.d = d /\ x.fin = e.fin
  BY <1>1, <1>2 DEF Buenos, Estados
<1>4. QED
  BY <1>3 DEF Queda, Buenos, d

LEMMA LeerPorSector ==
    ASSUME Almacena, NEW e, Firmado(e), e.fin = "sigue", e.d = <<>>,
           NEW s \in Seq(Pedibles), Len(s) \in {1, 2},
           NEW x \in PorSector(e, s, LdapGetSector)
    PROVE  /\ Queda(x, e) /\ x.fin = "sigue"
           /\ x.d = [k \in DOMAIN s |-> Leido(e.ldap, s[k])]
<1> DEFINE v == Leido(e.ldap, s[1])
           w == Leido(e.ldap, s[2])
<1>1. e \in Buenos /\ e.ldap \in [Ids -> Contenidos] /\ e.sesion = "viva"
  BY DEF Firmado
<1>2. s[1] \in Pedibles /\ (Len(s) = 2 => s[2] \in Pedibles)
  BY PorSectorBueno, <1>1
<1>3. v \in Contenidos /\ w \in Contenidos
  BY <1>1, LeidoTipo
<1>4. CASE Len(s) = 1
  <2>1. x = [e EXCEPT !.d = Append(@, v)]
    BY <1>2, <1>4, LdapGetSectorFirme DEF PorSector
  <2>2. Queda(x, e) /\ x.d = Append(<<>>, v) /\ x.fin = "sigue"
    BY <1>1, <1>3, <2>1, AgregarBuffer
  <2>3. DOMAIN s = {1}
    BY <1>4
  <2>4. Append(<<>>, v) = [k \in {1} |-> Leido(e.ldap, s[k])]
    OBVIOUS
  <2>5. QED
    BY <2>2, <2>3, <2>4
<1>5. CASE Len(s) = 2
  <2>1. PICK y : y \in LdapGetSector(e, s[1])
                 /\ x \in IF y.fin = "sigue" THEN LdapGetSector(y, s[2]) ELSE {y}
    BY <1>5 DEF PorSector, Luego
  <2>2. y = [e EXCEPT !.d = Append(@, v)]
    BY <1>2, <2>1, LdapGetSectorFirme
  <2>3. Queda(y, e) /\ y.d = Append(<<>>, v) /\ y.fin = "sigue"
    BY <1>1, <1>3, <2>2, AgregarBuffer
  <2>4. Firmado(y)
    BY <1>1, <2>3 DEF Queda, Firmado
  <2>5. x \in LdapGetSector(y, s[2])
    BY <2>1, <2>3
  <2>6. x = [y EXCEPT !.d = Append(@, w)]
    BY <1>2, <1>5, <2>3, <2>4, <2>5, LdapGetSectorFirme DEF Queda
  <2>7. Queda(x, y) /\ x.d = Append(y.d, w) /\ x.fin = "sigue"
    <3>1. y \in Buenos /\ y.fin = "sigue"
      BY <2>3 DEF Queda
    <3>2. Queda(x, y) /\ x.d = Append(y.d, w) /\ x.fin = y.fin
      <4> HIDE DEF v, w
      <4>1. QED
        BY <1>3, <3>1, <2>6, AgregarBuffer
    <3>3. QED
      BY <3>1, <3>2
  <2>8. Append(Append(<<>>, v), w) = [k \in {1, 2} |-> Leido(e.ldap, s[k])]
    OBVIOUS
  <2>9. DOMAIN s = {1, 2}
    BY <1>5
  <2>10. QED
    BY <2>3, <2>7, <2>8, <2>9 DEF Queda
<1>6. QED
  BY <1>4, <1>5

\* The walk changes the head and the statistics; it does not end for a sector the
\* disk does not have.
Camina(x, e, s) ==
    /\ Queda(x, e) /\ x.d = e.d
    /\ x.fin = IF s \in Ids THEN e.fin ELSE "colgado"

LEMMA MoverFirme ==
    ASSUME NEW e \in Buenos, NEW s \in Pedibles
    PROVE  Camina(Mover(e, s), e, s)
<1>1. Mover(e, s) \in Buenos
  BY MoverBueno
<1>2. CASE s \in Ids
  BY <1>1, <1>2 DEF Mover, Camina, Queda, Buenos, Estados
<1>3. CASE s \notin Ids
  BY <1>1, <1>3 DEF Mover, Camina, Queda, Buenos, Estados
<1>4. QED
  BY <1>2, <1>3

LEMMA GenerarFirme ==
    ASSUME NEW e \in Buenos, NEW s \in Pedibles
    PROVE  /\ \A x \in GenerarEstadisticasGet(e, s) : Camina(x, e, s)
           /\ \A x \in GenerarEstadisticasPut(e, s) : Camina(x, e, s)
<1> DEFINE y == Contar(e, s)
<1>1. y \in Buenos /\ y = [e EXCEPT !.est = y.est]
  BY ContarBueno
<1> HIDE DEF y
<1>2. Queda(y, e) /\ y.d = e.d /\ y.fin = e.fin
  BY <1>1 DEF Queda, Buenos, Estados
<1>3. Camina(Mover(y, s), y, s)
  BY <1>1, MoverFirme
<1>4. Camina(Mover(y, s), e, s)
  BY <1>2, <1>3 DEF Camina, Queda
<1>5. QED
  BY <1>4, MoverFirme DEF GenerarEstadisticasGet, GenerarEstadisticasPut, y

LEMMA CaminarPorSector ==
    ASSUME NEW e \in Buenos, e.fin = "sigue", NEW s \in Seq(Pedibles), Len(s) \in {1, 2}, NEW x,
           \/ x \in PorSector(e, s, GenerarEstadisticasGet)
           \/ x \in PorSector(e, s, GenerarEstadisticasPut)
    PROVE  /\ Queda(x, e) /\ x.d = e.d
           /\ x.fin = IF \A k \in DOMAIN s : s[k] \in Ids THEN "sigue" ELSE "colgado"
<1>1. s[1] \in Pedibles /\ (Len(s) = 2 => s[2] \in Pedibles)
  BY PorSectorBueno
<1>2. CASE Len(s) = 1
  <2>1. Camina(x, e, s[1])
    BY <1>1, <1>2, GenerarFirme DEF PorSector
  <2>2. DOMAIN s = {1}
    BY <1>2
  <2>3. QED
    BY <2>1, <2>2 DEF Camina
<1>3. CASE Len(s) = 2
  <2>1. PICK y : /\ \/ y \in GenerarEstadisticasGet(e, s[1])
                      /\ x \in IF y.fin = "sigue" THEN GenerarEstadisticasGet(y, s[2]) ELSE {y}
                    \/ y \in GenerarEstadisticasPut(e, s[1])
                      /\ x \in IF y.fin = "sigue" THEN GenerarEstadisticasPut(y, s[2]) ELSE {y}
    BY <1>3 DEF PorSector, Luego
  <2>2. Camina(y, e, s[1]) /\ y \in Buenos
    BY <1>1, <2>1, GenerarFirme DEF Camina, Queda
  <2>3. DOMAIN s = {1, 2}
    BY <1>3
  <2>4. CASE s[1] \in Ids
    <3>1. y.fin = "sigue"
      BY <2>2, <2>4 DEF Camina
    <3>2. Camina(x, y, s[2])
      BY <1>1, <1>3, <2>1, <2>2, <3>1, GenerarFirme
    <3>3. QED
      BY <2>2, <2>3, <2>4, <3>1, <3>2 DEF Camina, Queda
  <2>5. CASE s[1] \notin Ids
    <3>1. y.fin = "colgado"
      BY <2>2, <2>5 DEF Camina
    <3>2. x = y
      BY <2>1, <3>1
    <3>3. QED
      BY <2>2, <2>3, <2>5, <3>1, <3>2 DEF Camina
  <2>6. QED
    BY <2>4, <2>5
<1>4. QED
  BY <1>2, <1>3

-----------------------------------------------------------------------------
(* What each message leaves *)

LEMMA FirmeTipo ==
    ASSUME NEW m \in Firmes
    PROVE  /\ m \in Mensajes /\ m.t \in Tipos \ {"HSCACHE", "OTRO"}
           /\ m.s \in Seq(Pedibles) /\ m.d \in Seq(Contenidos)
           /\ m.t \in {"GET2", "PUT2"} => Len(m.s) = 2
           /\ m.t \in {"GET1", "PUT1", "DEFINITIVO", "DEPASO", "ESCRIBIR"} => Len(m.s) = 1
           /\ m.t \in TiposPut => Len(m.d) = Len(m.s)
           /\ m.t \notin TiposPut => m.d = <<>>
           /\ m.t \in {"GET2", "PUT2", "DEFINITIVO", "ESCRIBIR"} => \A k \in DOMAIN m.s : m.s[k] \in Ids
           /\ \A k \in DOMAIN m.d : DelSector(m.s[k], m.d[k])
BY DEF Firmes, Firme, Mensajes

\* A read gives what the directory has of its sectors, or is lost in the search
\* of one the disk does not have.
LEMMA GetFirme ==
    ASSUME Almacena, NEW e, Firmado(e), e.fin = "sigue", e.d = <<>>, e.rta = <<>>,
           NEW m \in Firmes, m.t \in {"GET2", "GET1"}, NEW x \in GetSectores(e, m)
    PROVE  /\ x \in Buenos /\ x.ldap = e.ldap /\ x.sesion = e.sesion
           /\ IF \A k \in DOMAIN m.s : m.s[k] \in Ids
                THEN /\ x.fin = "sigue"
                     /\ x.rta = <<Rta("GET", [k \in DOMAIN m.s |-> e.ldap[m.s[k]]])>>
                ELSE x.fin = "colgado" /\ x.rta = <<>>
<1>1. m.s \in Seq(Pedibles) /\ Len(m.s) \in {1, 2}
  BY FirmeTipo
<1>2. PICK z : /\ z \in ServirSinCache(e, m.s)
               /\ x \in IF z.fin = "sigue" THEN {[z EXCEPT !.rta = <<Rta("GET", z.d)>>]} ELSE {z}
  BY DEF GetSectores, Contestar, Luego, Almacena
<1>3. PICK y : /\ y \in PorSector(e, m.s, LdapGetSector)
               /\ z \in IF y.fin = "sigue" THEN PorSector(y, m.s, GenerarEstadisticasGet) ELSE {y}
  BY <1>2 DEF ServirSinCache, Luego
<1>4. Queda(y, e) /\ y.fin = "sigue" /\ y.d = [k \in DOMAIN m.s |-> Leido(e.ldap, m.s[k])]
  BY <1>1, <1>3, LeerPorSector
<1>5. /\ Queda(z, y) /\ z.d = y.d
      /\ z.fin = IF \A k \in DOMAIN m.s : m.s[k] \in Ids THEN "sigue" ELSE "colgado"
  BY <1>1, <1>3, <1>4, CaminarPorSector DEF Queda
<1>6. CASE \A k \in DOMAIN m.s : m.s[k] \in Ids
  <2>1. y.d = [k \in DOMAIN m.s |-> e.ldap[m.s[k]]]
    BY <1>4, <1>6 DEF Leido
  <2>2. x = [z EXCEPT !.rta = <<Rta("GET", z.d)>>]
    BY <1>2, <1>5, <1>6
  <2> DEFINE r == <<Rta("GET", z.d)>>
  <2>3. x \in Buenos
    BY <1>5, <2>2, RespuestaBuena DEF Queda, TiposRta
  <2> HIDE DEF r
  <2>4. x.ldap = z.ldap /\ x.sesion = z.sesion /\ x.fin = z.fin /\ x.rta = r
    <3>1. x = [z EXCEPT !.rta = r] /\ z \in Estados
      BY <1>5, <2>2 DEF r, Queda, Buenos
    <3>2. QED
      BY <3>1 DEF Estados
  <2>5. r = <<Rta("GET", [k \in DOMAIN m.s |-> e.ldap[m.s[k]]])>>
    BY <1>5, <2>1 DEF r
  <2>6. QED
    BY <1>4, <1>5, <1>6, <2>3, <2>4, <2>5 DEF Queda
<1>7. CASE ~\A k \in DOMAIN m.s : m.s[k] \in Ids
  BY <1>2, <1>4, <1>5, <1>7 DEF Queda
<1>8. QED
  BY <1>6, <1>7

LEMMA DefinitivoFirme ==
    ASSUME Almacena, NEW e, Firmado(e), e.fin = "sigue", e.d = <<>>,
           NEW m \in Firmes, m.t = "DEFINITIVO", NEW x \in ObtenerDefinitivo(e, m)
    PROVE  /\ x \in Buenos /\ x.ldap = e.ldap /\ x.sesion = e.sesion /\ x.fin = "sigue"
           /\ x.rta = <<Rta("GET", [k \in DOMAIN m.s |-> e.ldap[m.s[k]]])>>
<1>1. m.s \in Seq(Pedibles) /\ Len(m.s) = 1 /\ \A k \in DOMAIN m.s : m.s[k] \in Ids
  BY FirmeTipo
<1>2. PICK y : /\ y \in LdapGetSector(e, m.s[1])
               /\ x \in IF y.fin = "sigue" THEN {[y EXCEPT !.rta = <<Rta("GET", y.d)>>]} ELSE {y}
  BY DEF ObtenerDefinitivo, Contestar, Luego, Almacena
<1>3. y \in PorSector(e, m.s, LdapGetSector)
  BY <1>1, <1>2 DEF PorSector
<1>4. Queda(y, e) /\ y.fin = "sigue" /\ y.d = [k \in DOMAIN m.s |-> Leido(e.ldap, m.s[k])]
  BY <1>1, <1>3, LeerPorSector
<1>5. y.d = [k \in DOMAIN m.s |-> e.ldap[m.s[k]]]
  BY <1>1, <1>4 DEF Leido
<1>6. x = [y EXCEPT !.rta = <<Rta("GET", y.d)>>]
  BY <1>2, <1>4
<1>7. x \in Buenos
  BY <1>4, <1>6, RespuestaBuena DEF Queda, TiposRta
<1> DEFINE r == <<Rta("GET", y.d)>>
<1> HIDE DEF r
<1>8. x.ldap = y.ldap /\ x.sesion = y.sesion /\ x.fin = y.fin /\ x.rta = r
  <2>1. x = [y EXCEPT !.rta = r] /\ y \in Estados
    BY <1>4, <1>6 DEF r, Queda, Buenos
  <2>2. QED
    BY <2>1 DEF Estados
<1>9. QED
  BY <1>4, <1>5, <1>7, <1>8 DEF Queda, r

\* The requests that are answered without data.
LEMMA OtraFirme ==
    ASSUME Almacena, NEW e, Firmado(e), e.fin = "sigue", NEW m,
           NEW x, x \in ObtenerDePaso(e, m) \/ x \in GetCHS(e)
    PROVE  /\ x \in Buenos /\ x.ldap = e.ldap /\ x.sesion = e.sesion /\ x.fin = "sigue"
           /\ x.rta = <<Rta("DEPASO", <<>>)>> \/ x.rta = <<Rta("CHS", <<>>)>>
<1>1. e \in Estados /\ e \in Buenos
  BY DEF Firmado, Buenos
<1> DEFINE y == [e EXCEPT !.d = <<>>]
<1>2. y \in Buenos /\ y.fin = "sigue" /\ y.ldap = e.ldap /\ y.sesion = e.sesion /\ y.d = <<>>
  <2>1. <<>> \in Seq(Contenidos)
    OBVIOUS
  <2>2. QED
    BY <1>1, <2>1 DEF Buenos, Estados
<1>3. ASSUME NEW z \in Buenos, NEW t \in TiposRta, z.fin = "sigue", z.ldap = e.ldap, z.sesion = e.sesion,
             x = [z EXCEPT !.rta = <<Rta(t, <<>>)>>]
      PROVE  x \in Buenos /\ x.ldap = e.ldap /\ x.sesion = e.sesion /\ x.fin = "sigue"
             /\ x.rta = <<Rta(t, <<>>)>>
  <2>1. x \in Buenos
    BY <1>3, RespuestaBuena
  <2> DEFINE r == <<Rta(t, <<>>)>>
  <2> HIDE DEF r
  <2>2. x = [z EXCEPT !.rta = r] /\ z \in Estados
    BY <1>3 DEF r, Buenos
  <2>3. x.ldap = z.ldap /\ x.sesion = z.sesion /\ x.fin = z.fin /\ x.rta = r
    BY <2>2 DEF Estados
  <2>4. QED
    BY <1>3, <2>1, <2>3 DEF r
<1> HIDE DEF y
<1>4. CASE x \in ObtenerDePaso(e, m)
  <2>1. x \in Contestar({y}, "DEPASO")
    BY <1>4 DEF ObtenerDePaso, Almacena, y
  <2>2. x = [y EXCEPT !.rta = <<Rta("DEPASO", <<>>)>>]
    BY <1>2, <2>1 DEF Contestar, Luego
  <2>3. QED
    BY <1>2, <1>3, <2>2 DEF TiposRta
<1>5. CASE x \in GetCHS(e)
  <2>1. x = [e EXCEPT !.rta = <<Rta("CHS", <<>>)>>]
    BY <1>5 DEF GetCHS
  <2>2. QED
    BY <1>1, <1>3, <2>1 DEF TiposRta
<1>6. QED
  BY <1>4, <1>5

\* A modification leaves the sector written, or all as it was.
Modifica(x, e, s, v, falla) ==
    /\ x \in Buenos /\ x.sesion = e.sesion /\ x.rta = e.rta /\ x.fin = e.fin /\ x.d = e.d
    /\ \/ s \in Ids /\ x.ok /\ x.ldap = [e.ldap EXCEPT ![s] = v]
       \/ (s \notin Ids \/ falla \in Fallas) /\ ~x.ok /\ x.ldap = e.ldap

LEMMA ModificarFirme ==
    ASSUME NEW e, Firmado(e), NEW s \in Pedibles, NEW v \in Contenidos, DelSector(s, v), NEW falla,
           NEW x \in LdapModificarSector(e, s, v, falla)
    PROVE  Modifica(x, e, s, v, falla) /\ x.ldap \in [Ids -> Contenidos]
<1>1. e \in Estados /\ e \in Buenos /\ e.sesion = "viva" /\ e.ldap \in [Ids -> Contenidos]
  BY DEF Firmado, Buenos
<1>2. x \in Buenos
  BY <1>1, LdapModificarSectorBueno
<1>3. s \in Ids => e.ldap[s] # NoHay
  BY <1>1, NoHayAparte
<1>4. \/ s \in Ids /\ x = [e EXCEPT !.ldap[s] = v, !.ok = TRUE]
      \/ (s \notin Ids \/ falla \in Fallas) /\ x = [e EXCEPT !.ok = FALSE]
  BY <1>1, <1>3 DEF LdapModificarSector
<1>5. CASE s \in Ids /\ x = [e EXCEPT !.ldap[s] = v, !.ok = TRUE]
  <2> DEFINE l == [e.ldap EXCEPT ![s] = v]
  <2>1. l \in [Ids -> Contenidos]
    BY <1>1
  <2> HIDE DEF l
  <2>2. x = [e EXCEPT !.ldap = l, !.ok = TRUE]
    BY <1>5 DEF l
  <2>3. x.ldap = l /\ x.ok = TRUE /\ x.sesion = e.sesion /\ x.rta = e.rta /\ x.fin = e.fin /\ x.d = e.d
    BY <1>1, <2>2 DEF Estados
  <2>4. QED
    BY <1>2, <1>5, <2>1, <2>3 DEF Modifica, l
<1>6. CASE (s \notin Ids \/ falla \in Fallas) /\ x = [e EXCEPT !.ok = FALSE]
  <2>1. x.ldap = e.ldap /\ x.ok = FALSE /\ x.sesion = e.sesion /\ x.rta = e.rta /\ x.fin = e.fin
        /\ x.d = e.d
    BY <1>1, <1>6 DEF Estados
  <2>2. QED
    BY <1>1, <1>2, <1>6, <2>1 DEF Modifica
<1>7. QED
  BY <1>4, <1>5, <1>6

\* A write leaves all its sectors written, or the first ones and never the last.
Graba(x, e, m) ==
    /\ x \in Buenos /\ x.sesion = e.sesion /\ x.rta = e.rta /\ x.fin = e.fin /\ x.d = e.d
    /\ x.ldap \in [Ids -> Contenidos]
    /\ \/ /\ x.ok /\ x.ldap = Grabando(e.ldap, m, Len(m.s))
          /\ \A k \in DOMAIN m.s : m.s[k] \in Ids
       \/ ~x.ok /\ \E n \in 0..Len(m.s) - 1 : x.ldap = Grabando(e.ldap, m, n)

LEMMA GrabarFirme ==
    ASSUME Almacena, NEW e, Firmado(e), e.fin = "sigue",
           NEW m \in Firmes, m.t \in TiposPut, NEW x \in GrabarSectores(e, m)
    PROVE  Graba(x, e, m)
<1>1. /\ m.s \in Seq(Pedibles) /\ m.d \in Seq(Contenidos) /\ Len(m.s) \in {1, 2} /\ Len(m.d) = Len(m.s)
      /\ Len(m.s) = 2 => \A k \in DOMAIN m.s : m.s[k] \in Ids
      /\ \A k \in DOMAIN m.d : DelSector(m.s[k], m.d[k])
  BY FirmeTipo DEF TiposPut
<1>2. /\ m.s[1] \in Pedibles /\ m.d[1] \in Contenidos /\ DelSector(m.s[1], m.d[1])
      /\ Len(m.s) = 2 => m.s[2] \in Pedibles /\ m.d[2] \in Contenidos /\ DelSector(m.s[2], m.d[2])
  BY <1>1, ElementoTipo
<1>3. e.ldap \in [Ids -> Contenidos] /\ Grabando(e.ldap, m, 0) = e.ldap
      /\ Grabando(e.ldap, m, 1) = [e.ldap EXCEPT ![m.s[1]] = m.d[1]]
      /\ Grabando(e.ldap, m, 2) = [[e.ldap EXCEPT ![m.s[1]] = m.d[1]] EXCEPT ![m.s[2]] = m.d[2]]
  BY Grabando0, Grabando1, Grabando2 DEF Firmado
<1>4. CASE Len(m.s) = 1
  <2>1. Modifica(x, e, m.s[1], m.d[1], "grabar ultimo") /\ x.ldap \in [Ids -> Contenidos]
    BY <1>2, <1>4, ModificarFirme DEF GrabarSectores
  <2>2. DOMAIN m.s = {1} /\ 0 \in 0..Len(m.s) - 1
    BY <1>1, <1>4
  <2>3. QED
    BY <1>3, <1>4, <2>1, <2>2 DEF Modifica, Graba
<1>5. CASE Len(m.s) = 2
  <2>1. PICK y : /\ y \in LdapModificarSector(e, m.s[1], m.d[1], "grabar primero")
                 /\ x \in IF y.fin = "sigue"
                            THEN LdapModificarSector(y, m.s[2], m.d[2], "grabar ultimo") ELSE {y}
    <3>1. Len(m.s) # 1
      BY <1>5
    <3>2. x \in UNION {IF y.fin = "sigue" THEN LdapModificarSector(y, m.s[2], m.d[2], "grabar ultimo")
                                          ELSE {y} :
                          y \in LdapModificarSector(e, m.s[1], m.d[1], "grabar primero")}
      BY <3>1, Zenon DEF GrabarSectores, Luego
    <3>3. QED
      BY <3>2, Zenon
  <2>2. Modifica(y, e, m.s[1], m.d[1], "grabar primero") /\ y.ldap \in [Ids -> Contenidos]
    BY <1>2, <2>1, ModificarFirme
  <2>3. DOMAIN m.s = {1, 2} /\ m.s[1] \in Ids /\ m.s[2] \in Ids /\ 1 \in 0..Len(m.s) - 1
    BY <1>1, <1>5
  <2>4. "grabar primero" \notin Fallas
    BY DEF Almacena
  <2>5. y.ldap = Grabando(e.ldap, m, 1) /\ y.fin = "sigue" /\ Firmado(y)
    BY <1>3, <2>2, <2>3, <2>4 DEF Modifica, Firmado
  <2>6. Modifica(x, y, m.s[2], m.d[2], "grabar ultimo") /\ x.ldap \in [Ids -> Contenidos]
    BY <1>2, <1>5, <2>1, <2>5, ModificarFirme
  <2>7. x.ok => x.ldap = Grabando(e.ldap, m, 2)
    BY <1>3, <2>5, <2>6 DEF Modifica
  <2>8. ~x.ok => x.ldap = Grabando(e.ldap, m, 1)
    BY <2>5, <2>6 DEF Modifica
  <2>9. x \in Buenos /\ x.sesion = e.sesion /\ x.rta = e.rta /\ x.fin = e.fin /\ x.d = e.d
    BY <2>2, <2>6 DEF Modifica
  <2>10. \A k \in DOMAIN m.s : m.s[k] \in Ids
    BY <1>1, <1>5
  <2>11. QED
    BY <1>5, <2>3, <2>6, <2>7, <2>8, <2>9, <2>10 DEF Graba
<1>6. QED
  BY <1>1, <1>4, <1>5

\* OK when all is written; otherwise the last sector is as it was.
LEMMA PutFirme ==
    ASSUME Almacena, NEW e, Firmado(e), e.fin = "sigue",
           NEW m \in Firmes, m.t \in {"PUT2", "PUT1"}, NEW x \in PutSectores(e, m)
    PROVE  /\ x \in Buenos /\ x.sesion = e.sesion /\ x.fin = "sigue"
           /\ x.ldap \in [Ids -> Contenidos]
           /\ \/ /\ x.rta = <<Rta("PUT_OK", <<>>)>>
                 /\ x.ldap = Grabando(e.ldap, m, Len(m.s))
                 /\ \A k \in DOMAIN m.s : m.s[k] \in Ids
              \/ /\ x.rta = <<Rta("PUT_FAIL", <<>>)>>
                 /\ \E n \in 0..Len(m.s) - 1 : x.ldap = Grabando(e.ldap, m, n)
<1>1. m.s \in Seq(Pedibles) /\ Len(m.s) \in {1, 2} /\ m.t \in TiposPut
  BY FirmeTipo DEF TiposPut
<1>2. PICK y : /\ y \in GrabarSectores(e, m)
               /\ x \in IF y.fin = "sigue"
                          THEN IF y.ok THEN PorSector([y EXCEPT !.rta = <<Rta("PUT_OK", <<>>)>>], m.s,
                                                      GenerarEstadisticasPut)
                                       ELSE {[y EXCEPT !.rta = <<Rta("PUT_FAIL", <<>>)>>]}
                          ELSE {y}
  BY DEF PutSectores, Luego
<1>3. Graba(y, e, m) /\ y \in Buenos /\ y \in Estados /\ y.fin = "sigue"
  BY <1>1, <1>2, GrabarFirme DEF Graba, Buenos
<1>4. ASSUME NEW t \in TiposRta, NEW z, z = [y EXCEPT !.rta = <<Rta(t, <<>>)>>]
      PROVE  z \in Buenos /\ z.sesion = e.sesion /\ z.fin = "sigue" /\ z.ldap = y.ldap
             /\ z.rta = <<Rta(t, <<>>)>>
  <2> DEFINE r == <<Rta(t, <<>>)>>
  <2>1. z \in Buenos
    BY <1>3, <1>4, RespuestaBuena
  <2> HIDE DEF r
  <2>2. z = [y EXCEPT !.rta = r]
    BY <1>4 DEF r
  <2>3. z.sesion = y.sesion /\ z.fin = y.fin /\ z.ldap = y.ldap /\ z.rta = r
    BY <1>3, <2>2 DEF Estados
  <2>4. QED
    BY <1>3, <2>1, <2>3 DEF r, Graba
<1>5. CASE y.ok
  <2> DEFINE z == [y EXCEPT !.rta = <<Rta("PUT_OK", <<>>)>>]
  <2>1. x \in PorSector(z, m.s, GenerarEstadisticasPut)
    BY <1>2, <1>3, <1>5
  <2>2. z \in Buenos /\ z.sesion = e.sesion /\ z.fin = "sigue" /\ z.ldap = y.ldap
        /\ z.rta = <<Rta("PUT_OK", <<>>)>>
    BY <1>4 DEF TiposRta
  <2> HIDE DEF z
  <2>3. Queda(x, z) /\ x.fin = IF \A k \in DOMAIN m.s : m.s[k] \in Ids THEN "sigue" ELSE "colgado"
    BY <1>1, <2>1, <2>2, CaminarPorSector
  <2>4. QED
    BY <1>3, <1>5, <2>2, <2>3 DEF Queda, Graba
<1>6. CASE ~y.ok
  <2>1. x = [y EXCEPT !.rta = <<Rta("PUT_FAIL", <<>>)>>]
    BY <1>2, <1>3, <1>6
  <2>2. x \in Buenos /\ x.sesion = e.sesion /\ x.fin = "sigue" /\ x.ldap = y.ldap
        /\ x.rta = <<Rta("PUT_FAIL", <<>>)>>
    BY <1>4, <2>1 DEF TiposRta
  <2>3. QED
    BY <1>3, <1>6, <2>2 DEF Graba
<1>7. QED
  BY <1>5, <1>6

\* The console gets no answer, and its sector is written or not.
LEMMA EscribirFirme ==
    ASSUME Almacena, NEW e, Firmado(e), e.fin = "sigue",
           NEW m \in Firmes, m.t = "ESCRIBIR", NEW x \in EscribirSector(e, m)
    PROVE  /\ x \in Buenos /\ x.sesion = e.sesion /\ x.fin = "sigue" /\ x.rta = e.rta
           /\ x.ldap \in [Ids -> Contenidos]
           /\ \E n \in 0..Len(m.s) : x.ldap = Grabando(e.ldap, m, n)
<1>1. m.s \in Seq(Pedibles) /\ Len(m.s) = 1 /\ m.t \in TiposPut /\ m.s[1] \in Ids /\ m.s[1] \in Pedibles
  <2>1. m.s \in Seq(Pedibles) /\ Len(m.s) = 1 /\ m.t \in TiposPut /\ \A k \in DOMAIN m.s : m.s[k] \in Ids
    BY FirmeTipo DEF TiposPut
  <2>2. QED
    BY <2>1 DEF Pedibles
<1>2. PICK y : /\ y \in GrabarSectores(e, m)
               /\ x \in IF y.fin = "sigue" THEN GenerarEstadisticasPut(y, m.s[1]) ELSE {y}
  BY DEF EscribirSector, Luego
<1>3. Graba(y, e, m) /\ y \in Buenos /\ y.fin = "sigue"
  BY <1>1, <1>2, GrabarFirme DEF Graba
<1>4. Camina(x, y, m.s[1])
  BY <1>1, <1>2, <1>3, GenerarFirme
<1>5. QED
  BY <1>1, <1>3, <1>4 DEF Camina, Queda, Graba

-----------------------------------------------------------------------------
(* The invariant of the disk without a cache *)

\* While it attends, the session is open and the directory has every sector; what
\* nobody sends without a cache is not there.
AlmacenBien ==
    /\ cache = "no" /\ nCierres = 0
    /\ \A c \in Clientes : conexion[c] = "abierta"
    /\ Atendiendo => sesion = "viva" /\ ldap \in [Ids -> Contenidos]
    /\ entrada \in [Clientes -> Seq(Firmes)]
InvAlmacen == InvDisco /\ AlmacenBien

LEMMA Abstraido ==
    ASSUME NEW m
    PROVE  /\ m.t \in TiposGet => PedidoAbstracto(m) = [t |-> "LEE", s |-> m.s, d |-> m.d]
           /\ m.t \in {"PUT2", "PUT1"} => PedidoAbstracto(m) = [t |-> "GRABA", s |-> m.s, d |-> m.d]
           /\ m.t = "ESCRIBIR" => PedidoAbstracto(m) = [t |-> "GRABA SIN AVISO", s |-> m.s, d |-> m.d]
           /\ m.t \in {"DEPASO", "CHS"} => PedidoAbstracto(m) = [t |-> "OTRO", s |-> <<>>, d |-> m.d]
<1>1. ASSUME m.t \in TiposGet PROVE TipoAbstracto(m) = "LEE"
  <2>1. m.t \notin {"PUT2", "PUT1"} /\ m.t # "ESCRIBIR"
    BY <1>1 DEF TiposGet
  <2>2. QED
    BY <1>1, <2>1, Zenon DEF TipoAbstracto
<1>2. ASSUME m.t \in {"PUT2", "PUT1"} PROVE TipoAbstracto(m) = "GRABA"
  <2>1. m.t \notin TiposGet
    BY <1>2 DEF TiposGet
  <2>2. QED
    BY <1>2, <2>1, Zenon DEF TipoAbstracto
<1>3. ASSUME m.t = "ESCRIBIR" PROVE TipoAbstracto(m) = "GRABA SIN AVISO"
  <2>1. m.t \notin TiposGet /\ m.t \notin {"PUT2", "PUT1"}
    BY <1>3 DEF TiposGet
  <2>2. QED
    BY <1>3, <2>1, Zenon DEF TipoAbstracto
<1>4. ASSUME m.t \in {"DEPASO", "CHS"} PROVE TipoAbstracto(m) = "OTRO"
  <2>1. m.t \notin TiposGet /\ m.t \notin {"PUT2", "PUT1"} /\ m.t # "ESCRIBIR"
    BY <1>4 DEF TiposGet
  <2>2. QED
    BY <2>1, Zenon DEF TipoAbstracto
<1>5. QED
  BY <1>1, <1>2, <1>3, <1>4 DEF PedidoAbstracto

LEMMA RtaAbstraida ==
    ASSUME NEW d
    PROVE  /\ RtaAbstracta(Rta("GET", d)) = "DATOS" /\ RtaAbstracta(Rta("PUT_OK", d)) = "OK"
           /\ RtaAbstracta(Rta("PUT_FAIL", d)) = "FALLA" /\ RtaAbstracta(Rta("DEPASO", d)) = "OTRA"
           /\ RtaAbstracta(Rta("CHS", d)) = "OTRA"
           /\ \A t : Rta(t, d).d = d
<1>1. \A t : Rta(t, d).t = t /\ Rta(t, d).d = d
  BY DEF Rta
<1>2. "PUT_OK" # "GET" /\ "PUT_FAIL" # "GET" /\ "PUT_FAIL" # "PUT_OK"
      /\ "DEPASO" \notin {"GET", "PUT_OK", "PUT_FAIL"} /\ "CHS" \notin {"GET", "PUT_OK", "PUT_FAIL"}
  OBVIOUS
<1>3. QED
  BY <1>1, <1>2, Zenon DEF RtaAbstracta

\* While it attends, what the store holds is what the directory holds.
LEMMA GuardadoEntero ==
    ASSUME NEW l \in [Ids -> Contenidos]
    PROVE  Guardado(l) = l
BY NoHayAparte DEF Guardado

LEMMA ADelDisco ==
    /\ lA' = Guardado(ldap') /\ eA' = PedidosDe(entrada') /\ oA' = RtasDe(salida')
BY DEF lA, eA, oA, Guardado, PedidosDe, RtasDe

LEMMA FirmesSonMensajes ==
    ASSUME NEW q \in Seq(Firmes)
    PROVE  q \in Seq(Mensajes)
BY DEF Firmes

\* One message is taken and what its handler left is kept.
LEMMA DejarFirme ==
    ASSUME InvAlmacen, Atendiendo, NEW c \in Clientes, entrada[c] # <<>>,
           NEW e \in Buenos, e.fin # "muere", e.sesion = "viva", e.ldap \in [Ids -> Contenidos],
           Dejar(c, Head(entrada[c]), e, [entrada EXCEPT ![c] = Tail(@)], Head(entrada[c]).t)
    PROVE  /\ AlmacenBien'
           /\ lA = ldap /\ lA' = e.ldap /\ ldap \in [Ids -> Contenidos]
           /\ eA[c] # <<>> /\ Head(eA[c]) = PedidoAbstracto(Head(entrada[c]))
           /\ eA' = [eA EXCEPT ![c] = Tail(@)]
           /\ e.rta = <<>> => oA' = oA
           /\ \A a \in Respuestas : e.rta = <<a>> =>
                 oA' = [oA EXCEPT ![c] = Append(@, [t |-> RtaAbstracta(a), d |-> a.d])]
<1>1. /\ ldap' = e.ldap /\ sesion' = "viva" /\ salida' = [salida EXCEPT ![c] = @ \o e.rta]
      /\ entrada' = [entrada EXCEPT ![c] = Tail(@)] /\ UNCHANGED <<conexion, cache, nCierres>>
  <2>1. conexion[c] = "abierta"
    BY DEF InvAlmacen, AlmacenBien
  <2>2. QED
    BY <2>1 DEF Dejar, entorno
<1>2. /\ entrada \in [Clientes -> Seq(Mensajes)] /\ entrada \in [Clientes -> Seq(Firmes)]
      /\ salida \in [Clientes -> Seq(Respuestas)] /\ ldap \in [Ids -> Contenidos]
  BY DEF InvAlmacen, AlmacenBien, InvDisco, InvCanales
<1>3. entrada' \in [Clientes -> Seq(Firmes)]
  <2>1. entrada[c] \in Seq(Firmes) /\ entrada[c] # <<>>
    BY <1>2
  <2>2. Tail(entrada[c]) \in Seq(Firmes)
    BY <2>1, CabezaTipo
  <2>3. QED
    BY <1>1, <1>2, <2>2
<1>4. AlmacenBien'
  BY <1>1, <1>3 DEF InvAlmacen, AlmacenBien, Atendiendo
<1>5. lA = ldap /\ lA' = e.ldap
  BY <1>1, <1>2, GuardadoEntero, ADelDisco DEF lA
<1>6. eA[c] # <<>> /\ Head(eA[c]) = PedidoAbstracto(Head(entrada[c])) /\ eA' = [eA EXCEPT ![c] = Tail(@)]
  BY <1>1, <1>2, TomarPedido, ADelDisco DEF eA
<1>7. e.rta = <<>> => oA' = oA
  <2>1. \A q \in Seq(Respuestas) : q \o <<>> = q
    OBVIOUS
  <2>2. salida[c] \in Seq(Respuestas)
    BY <1>2
  <2>3. e.rta = <<>> => salida' = salida
    BY <1>1, <1>2, <2>1, <2>2
  <2>4. QED
    BY <2>3, ADelDisco DEF oA
<1>8. ASSUME NEW a \in Respuestas, e.rta = <<a>>
      PROVE  oA' = [oA EXCEPT ![c] = Append(@, [t |-> RtaAbstracta(a), d |-> a.d])]
  <2>1. salida' = [salida EXCEPT ![c] = @ \o <<a>>]
    BY <1>1, <1>8
  <2>2. EnviadaRta(salida', salida, c, a)
    BY <2>1 DEF EnviadaRta
  <2>3. EnviadaRtaA(RtasDe(salida'), RtasDe(salida), c, a)
    BY <1>2, <2>2, PonerRta
  <2>4. QED
    BY <2>3, ADelDisco, Zenon DEF oA, EnviadaRtaA
<1>9. QED
  BY <1>2, <1>4, <1>5, <1>6, <1>7, <1>8

\* What a step of the store is.
PasoDelAlmacen ==
    \/ lA' = lA /\ eA' = eA /\ oA' = oA
    \/ A!Cortar
    \/ \E c \in Clientes : \/ A!Pedir(c) \/ A!Leer(c) \/ A!Grabar(c) \/ A!Rechazar(c)
                           \/ A!GrabarSinAviso(c) \/ A!Otro(c) \/ A!Recibir(c) \/ A!Trabar(c)

LEMMA GrabandoAbstracto ==
    ASSUME NEW m, NEW p, p.s = m.s, p.d = m.d, NEW n
    PROVE  GrabadoA(p, n) = Grabando(lA, m, n)
<1> DEFINE g(s, d) == [x \in Ids |-> LET k == {i \in 1..n : s[i] = x}
                                    IN IF k = {} THEN lA[x] ELSE d[CHOOSE i \in k : \A j \in k : j <= i]]
<1>1. GrabadoA(p, n) = g(p.s, p.d)
  BY Zenon DEF GrabadoA
<1>2. Grabando(lA, m, n) = g(m.s, m.d)
  BY Zenon DEF Grabando
<1>3. g(p.s, p.d) = g(m.s, m.d)
  <2> HIDE DEF g
  <2>1. QED
    OBVIOUS
<1>4. QED
  BY <1>1, <1>2, <1>3, Zenon

LEMMA LeidosTipo ==
    ASSUME NEW l \in [Ids -> Contenidos], NEW s \in Seq(Pedibles), \A k \in DOMAIN s : s[k] \in Ids
    PROVE  [k \in DOMAIN s |-> l[s[k]]] \in Seq(Contenidos)
<1>1. DOMAIN s = 1..Len(s) /\ Len(s) \in Nat
  OBVIOUS
<1>2. [k \in 1..Len(s) |-> l[s[k]]] \in [1..Len(s) -> Contenidos]
  BY <1>1
<1>3. QED
  BY <1>1, <1>2

\* The message a client has first is attended.
LEMMA AtenderFirme ==
    ASSUME Almacena, InvAlmacen, NEW c \in Clientes, NEW tipos, Atender(c, tipos)
    PROVE  AlmacenBien' /\ PasoDelAlmacen
<1> DEFINE m == Head(entrada[c])
           e0 == Estado
           p == PedidoAbstracto(m)
<1>1. Atendiendo /\ entrada[c] # <<>>
  BY DEF Atender
<1>2. PICK x : /\ x \in Manejar(c, m)
               /\ Dejar(c, m, x, [entrada EXCEPT ![c] = Tail(@)], m.t)
  BY DEF Atender
<1>3. m \in Firmes
  <2>1. entrada[c] \in Seq(Firmes)
    BY DEF InvAlmacen, AlmacenBien
  <2>2. QED
    BY <1>1, <2>1, CabezaTipo
<1> HIDE DEF m
<1>4. Firmado(e0) /\ e0.fin = "sigue" /\ e0.d = <<>> /\ e0.rta = <<>> /\ e0.ldap = ldap /\ e0.sesion = "viva"
  <2>1. e0 \in Buenos
    BY EstadoBueno DEF InvAlmacen
  <2>2. e0.fin = "sigue" /\ e0.d = <<>> /\ e0.rta = <<>> /\ e0.ldap = ldap /\ e0.sesion = sesion
    BY DEF Estado
  <2>3. sesion = "viva" /\ ldap \in [Ids -> Contenidos]
    BY <1>1 DEF InvAlmacen, AlmacenBien
  <2>4. QED
    BY <2>1, <2>2, <2>3 DEF Firmado
<1>5. m.t \in Tipos \ {"HSCACHE", "OTRO"} /\ m.s \in Seq(Pedibles)
  BY <1>3, FirmeTipo
<1> HIDE DEF e0
<1>6. ASSUME x \in Buenos, x.fin # "muere", x.sesion = "viva", x.ldap \in [Ids -> Contenidos]
      PROVE  /\ AlmacenBien'
             /\ lA = ldap /\ lA' = x.ldap /\ ldap \in [Ids -> Contenidos]
             /\ eA[c] # <<>> /\ Head(eA[c]) = p
             /\ eA' = [eA EXCEPT ![c] = Tail(@)]
             /\ x.rta = <<>> => oA' = oA
             /\ \A a \in Respuestas : x.rta = <<a>> =>
                   oA' = [oA EXCEPT ![c] = Append(@, [t |-> RtaAbstracta(a), d |-> a.d])]
  BY <1>1, <1>2, <1>6, DejarFirme DEF m
<1> HIDE DEF p
<1>7. ASSUME NEW t \in TiposRta, NEW d \in Seq(Contenidos), x.rta = <<Rta(t, d)>>,
             x \in Buenos, x.fin # "muere", x.sesion = "viva", x.ldap \in [Ids -> Contenidos]
      PROVE  oA' = [oA EXCEPT ![c] = Append(@, [t |-> RtaAbstracta(Rta(t, d)), d |-> d])]
  <2>1. Rta(t, d) \in Respuestas /\ Rta(t, d).d = d
    BY DEF Rta, Respuestas, TiposRta
  <2>2. QED
    BY <1>6, <1>7, <2>1
<1>8. <<>> \in Seq(Contenidos)
  OBVIOUS
<1>9. CASE m.t \in {"GET2", "GET1"}
  <2>1. x \in GetSectores(e0, m)
    BY <1>2, <1>9, Zenon DEF Manejar, e0
  <2>2. /\ x \in Buenos /\ x.ldap = ldap /\ x.sesion = "viva"
        /\ IF \A k \in DOMAIN m.s : m.s[k] \in Ids
             THEN x.fin = "sigue" /\ x.rta = <<Rta("GET", [k \in DOMAIN m.s |-> ldap[m.s[k]]])>>
             ELSE x.fin = "colgado" /\ x.rta = <<>>
    BY <1>3, <1>4, <1>9, <2>1, GetFirme
  <2>3. x.fin # "muere" /\ x.ldap \in [Ids -> Contenidos]
    BY <1>4, <2>2 DEF Firmado
  <2>4. p.t = "LEE" /\ p.s = m.s
    <3>1. m.t \in TiposGet
      BY <1>9 DEF TiposGet
    <3>2. p = [t |-> "LEE", s |-> m.s, d |-> m.d]
      BY <3>1, Abstraido, Zenon DEF p
    <3>3. QED
      BY <3>2
  <2>5. AtiendeA(c, {"LEE"}) /\ lA' = lA /\ Head(eA[c]).s = m.s
    BY <1>6, <2>2, <2>3, <2>4 DEF AtiendeA
  <2>6. CASE \A k \in DOMAIN m.s : m.s[k] \in Ids
    <3> DEFINE d == [k \in DOMAIN m.s |-> ldap[m.s[k]]]
    <3>1. d \in Seq(Contenidos)
      BY <1>4, <1>5, <2>6, LeidosTipo DEF Firmado
    <3>2. d = [k \in DOMAIN Head(eA[c]).s |-> lA[Head(eA[c]).s[k]]]
      BY <1>6, <2>2, <2>3, <2>5
    <3>3. x.rta = <<Rta("GET", d)>>
      BY <2>2, <2>6
    <3> HIDE DEF d
    <3>4. oA' = [oA EXCEPT ![c] = Append(@, [t |-> RtaAbstracta(Rta("GET", d)), d |-> d])]
      BY <1>7, <2>2, <2>3, <3>1, <3>3 DEF TiposRta
    <3>5. RespondeA(c, "DATOS", d)
      BY <3>4, RtaAbstraida DEF RespondeA
    <3>6. A!Leer(c)
      BY <2>5, <2>6, <3>2, <3>5, LeerA
    <3>7. QED
      BY <1>6, <2>2, <2>3, <3>6 DEF PasoDelAlmacen
  <2>7. CASE ~\A k \in DOMAIN m.s : m.s[k] \in Ids
    <3>1. oA' = oA
      BY <1>6, <2>2, <2>3, <2>7
    <3>2. A!Trabar(c)
      BY <2>5, <2>7, <3>1, TrabarA
    <3>3. QED
      BY <1>6, <2>2, <2>3, <3>2 DEF PasoDelAlmacen
  <2>8. QED
    BY <2>6, <2>7
<1>10. CASE m.t = "DEFINITIVO"
  <2> DEFINE d == [k \in DOMAIN m.s |-> ldap[m.s[k]]]
  <2>1. x \in ObtenerDefinitivo(e0, m)
    BY <1>2, <1>10, Zenon DEF Manejar, e0
  <2>2. /\ x \in Buenos /\ x.ldap = ldap /\ x.sesion = "viva" /\ x.fin = "sigue"
        /\ x.rta = <<Rta("GET", d)>>
    BY <1>3, <1>4, <1>10, <2>1, DefinitivoFirme
  <2>3. x.fin # "muere" /\ x.ldap \in [Ids -> Contenidos]
    BY <1>4, <2>2 DEF Firmado
  <2>4. p.t = "LEE" /\ p.s = m.s /\ \A k \in DOMAIN m.s : m.s[k] \in Ids
    <3>1. m.t \in TiposGet
      BY <1>10 DEF TiposGet
    <3>2. p = [t |-> "LEE", s |-> m.s, d |-> m.d]
      BY <3>1, Abstraido, Zenon DEF p
    <3>3. QED
      BY <3>2, <1>3, <1>10, FirmeTipo
  <2>5. AtiendeA(c, {"LEE"}) /\ lA' = lA /\ Head(eA[c]).s = m.s
    BY <1>6, <2>2, <2>3, <2>4 DEF AtiendeA
  <2>6. d \in Seq(Contenidos)
    BY <1>4, <1>5, <2>4, LeidosTipo DEF Firmado
  <2>7. d = [k \in DOMAIN Head(eA[c]).s |-> lA[Head(eA[c]).s[k]]]
    BY <1>6, <2>2, <2>3, <2>5
  <2> HIDE DEF d
  <2>8. oA' = [oA EXCEPT ![c] = Append(@, [t |-> RtaAbstracta(Rta("GET", d)), d |-> d])]
    BY <1>7, <2>2, <2>3, <2>6 DEF TiposRta
  <2>9. RespondeA(c, "DATOS", d)
    BY <2>8, RtaAbstraida DEF RespondeA
  <2>10. A!Leer(c)
    BY <2>4, <2>5, <2>7, <2>9, LeerA
  <2>11. QED
    BY <1>6, <2>2, <2>3, <2>10 DEF PasoDelAlmacen
<1>11. CASE m.t \in {"DEPASO", "CHS"}
  <2>1. x \in ObtenerDePaso(e0, m) \/ x \in GetCHS(e0)
    BY <1>2, <1>11, Zenon DEF Manejar, e0
  <2>2. /\ x \in Buenos /\ x.ldap = ldap /\ x.sesion = "viva" /\ x.fin = "sigue"
        /\ x.rta = <<Rta("DEPASO", <<>>)>> \/ x.rta = <<Rta("CHS", <<>>)>>
    BY <1>4, <2>1, OtraFirme
  <2>3. x.fin # "muere" /\ x.ldap \in [Ids -> Contenidos]
    BY <1>4, <2>2 DEF Firmado
  <2>4. p.t = "OTRO"
    <3>1. m.t \in {"DEPASO", "CHS"}
      BY <1>11 DEF TiposGet
    <3>2. p = [t |-> "OTRO", s |-> <<>>, d |-> m.d]
      BY <3>1, Abstraido, Zenon DEF p
    <3>3. QED
      BY <3>2
  <2>5. AtiendeA(c, {"OTRO"}) /\ lA' = lA
    BY <1>6, <2>2, <2>3, <2>4 DEF AtiendeA
  <2>6. \/ oA' = [oA EXCEPT ![c] = Append(@, [t |-> RtaAbstracta(Rta("DEPASO", <<>>)), d |-> <<>>])]
        \/ oA' = [oA EXCEPT ![c] = Append(@, [t |-> RtaAbstracta(Rta("CHS", <<>>)), d |-> <<>>])]
    BY <1>7, <1>8, <2>2, <2>3 DEF TiposRta
  <2>7. RespondeA(c, "OTRA", <<>>)
    BY <2>6, RtaAbstraida DEF RespondeA
  <2>8. A!Otro(c)
    BY <2>5, <2>7, OtroA
  <2>9. QED
    BY <1>6, <2>2, <2>3, <2>8 DEF PasoDelAlmacen
<1>12. CASE m.t \in {"PUT2", "PUT1"}
  <2>1. x \in PutSectores(e0, m)
    BY <1>2, <1>12, Zenon DEF Manejar, e0
  <2>2. /\ x \in Buenos /\ x.sesion = "viva" /\ x.fin = "sigue"
        /\ x.ldap \in [Ids -> Contenidos]
        /\ \/ /\ x.rta = <<Rta("PUT_OK", <<>>)>>
              /\ x.ldap = Grabando(ldap, m, Len(m.s))
              /\ \A k \in DOMAIN m.s : m.s[k] \in Ids
           \/ /\ x.rta = <<Rta("PUT_FAIL", <<>>)>>
              /\ \E n \in 0..Len(m.s) - 1 : x.ldap = Grabando(ldap, m, n)
    BY <1>3, <1>4, <1>12, <2>1, PutFirme
  <2>3. x.fin # "muere"
    BY <2>2
  <2>4. p.t = "GRABA" /\ p.s = m.s /\ p.d = m.d
    <3>1. m.t \in {"PUT2", "PUT1"}
      BY <1>12 DEF TiposGet
    <3>2. p = [t |-> "GRABA", s |-> m.s, d |-> m.d]
      BY <3>1, Abstraido, Zenon DEF p
    <3>3. QED
      BY <3>2
  <2>5. /\ AtiendeA(c, {"GRABA"}) /\ Head(eA[c]).s = m.s /\ Head(eA[c]).d = m.d
        /\ lA' = x.ldap /\ lA = ldap
    BY <1>6, <2>2, <2>3, <2>4 DEF AtiendeA
  <2>6. \A n : GrabadoA(Head(eA[c]), n) = Grabando(ldap, m, n)
    BY <2>5, GrabandoAbstracto
  <2>7. CASE /\ x.rta = <<Rta("PUT_OK", <<>>)>>
             /\ x.ldap = Grabando(ldap, m, Len(m.s))
             /\ \A k \in DOMAIN m.s : m.s[k] \in Ids
    <3>1. oA' = [oA EXCEPT ![c] = Append(@, [t |-> RtaAbstracta(Rta("PUT_OK", <<>>)), d |-> <<>>])]
      BY <1>7, <1>8, <2>2, <2>3, <2>7 DEF TiposRta
    <3>2. RespondeA(c, "OK", <<>>)
      BY <3>1, RtaAbstraida DEF RespondeA
    <3>3. lA' = GrabadoA(Head(eA[c]), Len(Head(eA[c]).s))
      BY <2>5, <2>6, <2>7
    <3>4. A!Grabar(c)
      BY <2>5, <2>7, <3>2, <3>3, GrabarA
    <3>5. QED
      BY <1>6, <2>2, <2>3, <3>4 DEF PasoDelAlmacen
  <2>8. CASE /\ x.rta = <<Rta("PUT_FAIL", <<>>)>>
             /\ \E n \in 0..Len(m.s) - 1 : x.ldap = Grabando(ldap, m, n)
    <3>1. oA' = [oA EXCEPT ![c] = Append(@, [t |-> RtaAbstracta(Rta("PUT_FAIL", <<>>)), d |-> <<>>])]
      BY <1>7, <1>8, <2>2, <2>3, <2>8 DEF TiposRta
    <3>2. RespondeA(c, "FALLA", <<>>)
      BY <3>1, RtaAbstraida DEF RespondeA
    <3>3. PICK n \in 0..Len(m.s) - 1 : lA' = GrabadoA(Head(eA[c]), n)
      BY <2>5, <2>6, <2>8
    <3>4. n \in 0..Len(Head(eA[c]).s) - 1
      BY <2>5
    <3>5. A!Rechazar(c)
      BY <2>5, <3>2, <3>3, <3>4, RechazarA
    <3>6. QED
      BY <1>6, <2>2, <2>3, <3>5 DEF PasoDelAlmacen
  <2>9. QED
    BY <2>2, <2>7, <2>8
<1>13. CASE m.t = "ESCRIBIR"
  <2>1. x \in EscribirSector(e0, m)
    BY <1>2, <1>13, Zenon DEF Manejar, e0
  <2>2. /\ x \in Buenos /\ x.sesion = "viva" /\ x.fin = "sigue" /\ x.rta = <<>>
        /\ x.ldap \in [Ids -> Contenidos]
        /\ \E n \in 0..Len(m.s) : x.ldap = Grabando(ldap, m, n)
    BY <1>3, <1>4, <1>13, <2>1, EscribirFirme
  <2>3. x.fin # "muere"
    BY <2>2
  <2>4. p.t = "GRABA SIN AVISO" /\ p.s = m.s /\ p.d = m.d
    <3>1. m.t \in {"ESCRIBIR"}
      BY <1>13 DEF TiposGet
    <3>2. p = [t |-> "GRABA SIN AVISO", s |-> m.s, d |-> m.d]
      BY <3>1, Abstraido, Zenon DEF p
    <3>3. QED
      BY <3>2
  <2>5. /\ AtiendeA(c, {"GRABA SIN AVISO"}) /\ Head(eA[c]).s = m.s /\ Head(eA[c]).d = m.d
        /\ lA' = x.ldap /\ lA = ldap /\ oA' = oA
    BY <1>6, <2>2, <2>3, <2>4 DEF AtiendeA
  <2>6. \A n : GrabadoA(Head(eA[c]), n) = Grabando(ldap, m, n)
    BY <2>5, GrabandoAbstracto
  <2>7. PICK n \in 0..Len(m.s) : lA' = GrabadoA(Head(eA[c]), n)
    BY <2>2, <2>5, <2>6
  <2>8. n \in 0..Len(Head(eA[c]).s)
    BY <2>5
  <2>9. A!GrabarSinAviso(c)
    BY <2>5, <2>7, <2>8, GrabarSinAvisoA
  <2>10. QED
    BY <1>6, <2>2, <2>3, <2>9 DEF PasoDelAlmacen
<1>14. QED
  BY <1>5, <1>9, <1>10, <1>11, <1>12, <1>13 DEF Tipos, TiposGet, TiposPut

-----------------------------------------------------------------------------
(* The other steps *)

\* What is sent is a request of the store.
LEMMA PedidoTipo ==
    ASSUME NEW m \in Firmes
    PROVE  PedidoAbstracto(m) \in A!Pedidos
<1>1. /\ m.t \in Tipos \ {"HSCACHE", "OTRO"} /\ m.s \in Seq(Pedibles) /\ m.d \in Seq(Contenidos)
      /\ m.t \in TiposPut => Len(m.d) = Len(m.s)
      /\ m.t \notin TiposPut => m.d = <<>>
  BY FirmeTipo
<1>2. m.s \in Seq(Int)
  <2>1. Pedibles \subseteq Int
    BY CeroEsId DEF Pedibles, Ids
  <2>2. ASSUME NEW S, S \subseteq Int, NEW q \in Seq(S) PROVE q \in Seq(Int)
    <3>1. Len(q) \in Nat /\ DOMAIN q = 1..Len(q) /\ q = [k \in 1..Len(q) |-> q[k]]
          /\ \A k \in 1..Len(q) : q[k] \in S
      OBVIOUS
    <3>2. q \in [1..Len(q) -> Int]
      BY <2>2, <3>1
    <3>3. QED
      BY <3>1, <3>2
  <2>3. QED
    BY <1>1, <2>1, <2>2
<1>3. CASE m.t \in TiposGet
  <2>1. PedidoAbstracto(m) = [t |-> "LEE", s |-> m.s, d |-> m.d] /\ m.d = <<>>
    <3>1. m.t \notin TiposPut
      BY <1>3 DEF TiposGet, TiposPut
    <3>2. QED
      BY <1>1, <1>3, <3>1, Abstraido, Zenon
  <2>2. QED
    BY <1>2, <2>1 DEF A!Pedidos, A!Lecturas
<1>4. CASE m.t \in TiposPut
  <2>1. \E t \in {"GRABA", "GRABA SIN AVISO"} : PedidoAbstracto(m) = [t |-> t, s |-> m.s, d |-> m.d]
    <3>1. m.t \in {"PUT2", "PUT1"} \/ m.t = "ESCRIBIR"
      BY <1>4 DEF TiposPut
    <3>2. QED
      BY <3>1, Abstraido, Zenon
  <2>2. ASSUME NEW t \in {"GRABA", "GRABA SIN AVISO"}, NEW s \in Seq(Int), NEW d \in Seq(Contenidos),
               Len(s) = Len(d)
        PROVE  [t |-> t, s |-> s, d |-> d] \in A!Escrituras
    BY <2>2 DEF A!Escrituras
  <2>3. QED
    BY <1>1, <1>2, <1>4, <2>1, <2>2 DEF A!Pedidos
<1>5. CASE m.t \in {"DEPASO", "CHS"}
  <2>1. PedidoAbstracto(m) = [t |-> "OTRO", s |-> <<>>, d |-> m.d] /\ m.d = <<>>
    <3>1. m.t \notin TiposPut
      BY <1>5 DEF TiposPut
    <3>2. QED
      BY <1>1, <1>5, <3>1, Abstraido, Zenon
  <2>2. QED
    BY <2>1 DEF A!Pedidos, A!Otros
<1>6. QED
  BY <1>1, <1>3, <1>4, <1>5 DEF Tipos

\* A message of a client is added to what it sent.
LEMMA EnviarFirme ==
    ASSUME InvAlmacen, NEW c \in Clientes, NEW m \in Firmes, Envia(c, m),
           UNCHANGED <<ldap, salida, proceso, sesion, cache, conexion, nCierres>>
    PROVE  AlmacenBien' /\ PasoDelAlmacen
<1>1. /\ entrada \in [Clientes -> Seq(Mensajes)] /\ entrada \in [Clientes -> Seq(Firmes)]
      /\ m \in Mensajes /\ entrada' = [entrada EXCEPT ![c] = Append(@, m)]
  BY DEF InvAlmacen, AlmacenBien, InvDisco, InvCanales, Firmes, Envia
<1>2. entrada' \in [Clientes -> Seq(Firmes)]
  <2>1. entrada[c] \in Seq(Firmes)
    BY <1>1
  <2>2. Append(entrada[c], m) \in Seq(Firmes)
    BY <2>1
  <2>3. QED
    BY <1>1, <2>2
<1>3. AlmacenBien'
  BY <1>2 DEF InvAlmacen, AlmacenBien, Atendiendo
<1>4. lA' = lA /\ oA' = oA
  BY ADelDisco DEF lA, oA
<1>5. /\ eA' = [eA EXCEPT ![c] = Append(@, PedidoAbstracto(m))]
      /\ Len(eA'[c]) > 0 /\ eA'[c][Len(eA'[c])] = PedidoAbstracto(m)
  <2>1. EnviadoPedido(entrada', entrada, c, m)
    BY <1>1 DEF EnviadoPedido
  <2>2. EnviadoPedidoA(PedidosDe(entrada'), PedidosDe(entrada), c, m)
    BY <1>1, <2>1, PonerPedido
  <2>3. QED
    BY <2>2, ADelDisco, Zenon DEF eA, EnviadoPedidoA
<1>6. A!Pedir(c)
  BY <1>4, <1>5, PedidoTipo, PedirA
<1>7. QED
  BY <1>3, <1>6 DEF PasoDelAlmacen

\* An answer is read.
LEMMA TomarFirme ==
    ASSUME InvAlmacen, NEW c \in Clientes, Toma(c),
           UNCHANGED <<ldap, entrada, proceso, sesion, cache, conexion, nCierres>>
    PROVE  AlmacenBien' /\ PasoDelAlmacen
<1>1. AlmacenBien'
  BY DEF InvAlmacen, AlmacenBien, Atendiendo
<1>2. salida \in [Clientes -> Seq(Respuestas)] /\ salida[c] # <<>>
      /\ salida' = [salida EXCEPT ![c] = Tail(@)]
  BY DEF InvAlmacen, InvDisco, InvCanales, Toma
<1>3. lA' = lA /\ eA' = eA
  BY ADelDisco DEF lA, eA
<1>4. oA[c] # <<>> /\ oA' = [oA EXCEPT ![c] = Tail(@)]
  BY <1>2, TomarRta, ADelDisco DEF oA
<1>5. A!Recibir(c)
  BY <1>3, <1>4, RecibirA
<1>6. QED
  BY <1>1, <1>5 DEF PasoDelAlmacen

\* Nothing of the store changes.
LEMMA NadaFirme ==
    ASSUME InvAlmacen,
           UNCHANGED <<ldap, entrada, salida, proceso, sesion, cache, conexion, nCierres>>
    PROVE  AlmacenBien' /\ PasoDelAlmacen
<1>1. AlmacenBien'
  BY DEF InvAlmacen, AlmacenBien, Atendiendo
<1>2. lA' = lA /\ eA' = eA /\ oA' = oA
  BY ADelDisco DEF lA, eA, oA
<1>3. QED
  BY <1>1, <1>2 DEF PasoDelAlmacen

\* The process ends.
LEMMA ApagarFirme ==
    ASSUME InvAlmacen, Apagar, nCierres' = nCierres,
           \/ ldap' = ldap
           \/ \E c \in Clientes : \E n \in 1..2 :
                 eA[c] # <<>> /\ n <= Len(Head(eA[c]).d) /\ lA' = GrabadoA(Head(eA[c]), n)
    PROVE  AlmacenBien' /\ PasoDelAlmacen
<1>1. AlmacenBien'
  <2>1. <<>> \in Seq(Firmes)
    OBVIOUS
  <2>2. QED
    BY <2>1 DEF Apagar, InvAlmacen, AlmacenBien, Atendiendo
<1>2. DOMAIN <<>> = {} /\ \A q : DOMAIN q = {} => [k \in DOMAIN q |-> PedidoAbstracto(q[k])] = <<>>
      /\ [k \in DOMAIN q |-> [t |-> RtaAbstracta(q[k]), d |-> q[k].d]] = <<>>
  OBVIOUS
<1>3. eA' = [c \in Clientes |-> <<>>]
  <2>1. entrada' = [c \in Clientes |-> <<>>]
    BY DEF Apagar
  <2>2. QED
    BY <1>2, <2>1, ADelDisco DEF PedidosDe
<1>4. oA' = [c \in Clientes |-> <<>>]
  <2>1. salida' = [c \in Clientes |-> <<>>]
    BY DEF Apagar
  <2>2. QED
    BY <1>2, <2>1, ADelDisco DEF RtasDe
<1>5. ldap' = ldap => lA' = lA
  BY ADelDisco DEF lA
<1>6. A!Cortar
  BY <1>3, <1>4, <1>5, CortarA
<1>7. QED
  BY <1>1, <1>6 DEF PasoDelAlmacen

LEMMA SiempreFirme ==
    /\ \A s \in Pares : Almacena => Mensaje("GET2", s, <<>>) \in Firmes
    /\ \A s \in Sueltos : Mensaje("GET1", <<s>>, <<>>) \in Firmes
    /\ Mensaje("CHS", <<>>, <<>>) \in Firmes
    /\ \A s \in Pedibles : Mensaje("DEPASO", <<s>>, <<>>) \in Firmes
    /\ \A s \in Ids : Mensaje("DEFINITIVO", <<s>>, <<>>) \in Firmes
<1>1. <<>> \in Seq(Contenidos) /\ DOMAIN <<>> = {} /\ <<>> \in Seq(Pedibles)
  OBVIOUS
<1>2. \A s \in Pares : Mensaje("GET2", s, <<>>) \in Mensajes
  BY <1>1, PedibleTipo DEF Mensaje, Mensajes, Tipos, TiposGet, TiposPut
<1>3. \A s \in Sueltos : Mensaje("GET1", <<s>>, <<>>) \in Mensajes
  BY <1>1, PedibleTipo DEF Mensaje, Mensajes, Tipos, TiposGet, TiposPut
<1>4. \A s \in Pedibles : <<s>> \in Seq(Pedibles) /\ Len(<<s>>) = 1
  OBVIOUS
<1>5. \A s \in Pedibles : /\ Mensaje("DEPASO", <<s>>, <<>>) \in Mensajes
                          /\ Mensaje("DEFINITIVO", <<s>>, <<>>) \in Mensajes
  BY <1>1, <1>4 DEF Mensaje, Mensajes, Tipos, TiposGet, TiposPut
<1>6. ASSUME Almacena, NEW s \in Pares PROVE Firme(Mensaje("GET2", s, <<>>))
  <2>1. s \in Ids \X Ids
    BY <1>6 DEF Almacena
  <2>2. DOMAIN s = {1, 2} /\ s[1] \in Ids /\ s[2] \in Ids
    BY <2>1, PedibleTipo
  <2>3. QED
    BY <2>2 DEF Firme, Mensaje, TiposPut
<1>7. \A s : Firme(Mensaje("GET1", <<s>>, <<>>)) /\ Firme(Mensaje("DEPASO", <<s>>, <<>>))
      /\ Firme(Mensaje("CHS", <<>>, <<>>))
  BY DEF Firme, Mensaje, TiposPut
<1>8. ASSUME NEW s \in Ids PROVE Firme(Mensaje("DEFINITIVO", <<s>>, <<>>))
  <2>1. DOMAIN <<s>> = {1} /\ <<s>>[1] = s
    OBVIOUS
  <2>2. QED
    BY <2>1 DEF Firme, Mensaje, TiposPut
<1>9. QED
  BY <1>2, <1>3, <1>5, <1>6, <1>7, <1>8, SinDatosTipo DEF Firmes, Pedibles

\* A write of the array, and the one of the console.
LEMMA EscrituraFirme ==
    ASSUME Almacena, NEW n \in 1..MaxPedidos
    PROVE  /\ \A s \in Pares : Mensaje("PUT2", s, <<Escrito(s[1], n), Escrito(s[2], n)>>) \in Firmes
           /\ \A s \in Sueltos : Mensaje("PUT1", <<s>>, <<Escrito(s, n)>>) \in Firmes
<1>1. ASSUME NEW s \in Pares
      PROVE  Mensaje("PUT2", s, <<Escrito(s[1], n), Escrito(s[2], n)>>) \in Firmes
  <2>1. Mensaje("PUT2", s, <<Escrito(s[1], n), Escrito(s[2], n)>>) \in Mensajes
    BY PidePutTipo
  <2>2. s \in Ids \X Ids
    BY DEF Almacena
  <2>3. DOMAIN s = {1, 2} /\ s[1] \in Ids /\ s[2] \in Ids
    BY <2>2, PedibleTipo
  <2> DEFINE d == <<Escrito(s[1], n), Escrito(s[2], n)>>
  <2> HIDE DEF d
  <2>4. Firme(Mensaje("PUT2", s, d))
    BY <2>3 DEF Firme, Mensaje, TiposPut
  <2>5. QED
    BY <2>1, <2>4 DEF Firmes, d
<1>2. ASSUME NEW s \in Sueltos PROVE Mensaje("PUT1", <<s>>, <<Escrito(s, n)>>) \in Firmes
  <2>1. Mensaje("PUT1", <<s>>, <<Escrito(s, n)>>) \in Mensajes
    BY PidePutTipo
  <2> DEFINE d == <<Escrito(s, n)>>
  <2> HIDE DEF d
  <2>2. Firme(Mensaje("PUT1", <<s>>, d))
    BY DEF Firme, Mensaje, TiposPut
  <2>3. QED
    BY <2>1, <2>2 DEF Firmes, d
<1>3. QED
  BY <1>1, <1>2

\* The steps of the console; it also walks past sectors of the second half of a
\* column the disk does not have.
LEMMA ConsolaFirme ==
    ASSUME Almacena, InvAlmacen, Consola
    PROVE  AlmacenBien' /\ PasoDelAlmacen
<1>1. "consola" \in Clientes /\ InvDisco
  BY DEF Clientes, InvAlmacen
<1>2. CASE ConsolaPaso
  <2> DEFINE s == ImDisco(con.p)
  <2>1. con.paso = "camina" /\ Envia("consola", Mensaje("DEPASO", <<s>>, <<>>))
        /\ UNCHANGED <<ldap, salida, proceso, sesion, cache, conexion, nCierres>>
    BY <1>2 DEF ConsolaPaso, loopIgual, entorno
  <2>2. s \in Pedibles
    <3>1. con.p \in Holgados
      BY <1>1, <2>1, ConEnCamino
    <3>2. ImDisco(con.p) \in 0..Total
      BY <3>1, IdDeColumna DEF Holgados
    <3>3. QED
      BY <3>2, CeroEsId DEF Pedibles, Ids
  <2>3. Mensaje("DEPASO", <<s>>, <<>>) \in Firmes
    BY <2>2, SiempreFirme
  <2>4. QED
    BY <1>1, <2>1, <2>3, EnviarFirme
<1>3. CASE ConsolaPide
  <2> DEFINE s == Head(con.resto)
  <2>1. con.paso = "camina" /\ Envia("consola", Mensaje("DEFINITIVO", <<s>>, <<>>))
        /\ UNCHANGED <<ldap, salida, proceso, sesion, cache, conexion, nCierres>>
    BY <1>3 DEF ConsolaPide, Llega, loopIgual, entorno
  <2>2. s \in Ids
    BY <1>1, <2>1, ConEnCamino
  <2>3. Mensaje("DEFINITIVO", <<s>>, <<>>) \in Firmes
    BY <2>2, SiempreFirme
  <2>4. QED
    BY <1>1, <2>1, <2>3, EnviarFirme
<1>4. CASE ConsolaEscribe
  <2> DEFINE d == <<con.dato>>
             m == Mensaje("ESCRIBIR", con.resto, d)
  <2>1. Envia("consola", m)
        /\ UNCHANGED <<ldap, salida, proceso, sesion, cache, conexion, nCierres>>
    BY <1>4 DEF ConsolaEscribe, loopIgual, entorno
  <2>2. m \in Mensajes /\ con.resto \in Seq(Ids)
    BY <1>1, <1>4, ConsolaEscribeTipo
  <2>3. \A k \in DOMAIN con.resto : con.resto[k] \in Ids
    BY <2>2
  <2> HIDE DEF d
  <2>4. Firme(m)
    BY <2>3 DEF Firme, Mensaje, TiposPut
  <2>5. QED
    BY <1>1, <2>1, <2>2, <2>4, EnviarFirme DEF Firmes
<1>5. CASE ConsolaAvanza \/ ConsolaObtiene
  <2>1. Toma("consola")
        /\ UNCHANGED <<ldap, entrada, proceso, sesion, cache, conexion, nCierres>>
    BY <1>5 DEF ConsolaAvanza, ConsolaObtiene, loopIgual, entorno
  <2>2. QED
    BY <1>1, <2>1, TomarFirme
<1>6. QED
  BY <1>2, <1>3, <1>4, <1>5 DEF Consola

LEMMA PedirFirme ==
    ASSUME Almacena, InvAlmacen, PideGet \/ PidePut \/ PideCHS
    PROVE  AlmacenBien' /\ PasoDelAlmacen
<1>1. ASSUME NEW m \in Firmes, Pide(m) PROVE AlmacenBien' /\ PasoDelAlmacen
  <2>1. "array" \in Clientes /\ Envia("array", m)
        /\ UNCHANGED <<ldap, salida, proceso, sesion, cache, conexion, nCierres>>
    BY <1>1 DEF Pide, loopIgual, Clientes
  <2>2. QED
    BY <2>1, EnviarFirme
<1>2. CASE PideGet
  BY <1>1, <1>2, SiempreFirme DEF PideGet
<1>3. CASE PidePut
  <2> DEFINE n == nPedidos + 1
  <2>1. n \in 1..MaxPedidos
    <3>1. nPedidos < MaxPedidos
      BY <1>3 DEF PidePut, Pide
    <3>2. QED
      BY <3>1, DiscoAssumption DEF InvAlmacen, InvDisco
  <2> HIDE DEF n
  <2>2. QED
    BY <1>1, <1>3, <2>1, EscrituraFirme DEF PidePut, n
<1>4. CASE PideCHS
  BY <1>1, <1>4, SiempreFirme DEF PideCHS
<1>5. QED
  BY <1>2, <1>3, <1>4

LEMMA ArrancarFirme ==
    ASSUME Almacena, InvAlmacen, Arrancar
    PROVE  AlmacenBien' /\ PasoDelAlmacen
<1>1. ldap' = Guardado(ldap) /\ sesion' = "viva" /\ cache' = "no" /\ proceso' = "atendiendo"
      /\ UNCHANGED <<entrada, salida, conexion, nCierres>>
  BY DEF Arrancar, Almacena, Guardado, canales, entorno
<1>2. ldap' \in [Ids -> Contenidos]
  <2>1. ldap \in [Ids -> Contados]
    BY DEF InvAlmacen, InvDisco, InvLoop
  <2>2. QED
    BY <1>1, <2>1, NoHayAparte DEF Guardado, Contados
<1>3. AlmacenBien'
  BY <1>1, <1>2 DEF InvAlmacen, AlmacenBien, Atendiendo
<1>4. lA' = lA
  BY <1>1, <1>2, GuardadoEntero, ADelDisco DEF lA
<1>5. eA' = eA /\ oA' = oA
  BY <1>1, ADelDisco DEF eA, oA
<1>6. QED
  BY <1>3, <1>4, <1>5 DEF PasoDelAlmacen

\* A stop between the two modifications leaves the first sector written.
LEMMA CaerGrabandoFirme ==
    ASSUME Almacena, InvAlmacen, NEW c \in Clientes, CaerGrabando(c)
    PROVE  AlmacenBien' /\ PasoDelAlmacen
<1> DEFINE m == Head(entrada[c])
           e0 == Estado
           p == PedidoAbstracto(m)
<1>1. Atendiendo /\ entrada[c] # <<>> /\ m.t = "PUT2" /\ Apagar /\ nCierres' = nCierres
  BY DEF CaerGrabando
<1>2. PICK x : x \in LdapModificarSector(e0, m.s[1], m.d[1], "grabar primero") /\ ldap' = x.ldap
  BY DEF CaerGrabando
<1>3. m \in Firmes
  <2>1. entrada[c] \in Seq(Firmes)
    BY DEF InvAlmacen, AlmacenBien
  <2>2. QED
    BY <1>1, <2>1, CabezaTipo
<1>4. eA[c] # <<>> /\ Head(eA[c]) = p
  <2>1. entrada \in [Clientes -> Seq(Mensajes)]
    BY DEF InvAlmacen, InvDisco, InvCanales
  <2>2. QED
    BY <1>1, <2>1, TomarPedido DEF eA
<1> HIDE DEF m
<1>5. Firmado(e0) /\ e0.ldap = ldap
  <2>1. e0 \in Buenos
    BY EstadoBueno DEF InvAlmacen
  <2>2. e0.ldap = ldap /\ e0.sesion = sesion
    BY DEF Estado
  <2>3. sesion = "viva" /\ ldap \in [Ids -> Contenidos]
    BY <1>1 DEF InvAlmacen, AlmacenBien
  <2>4. QED
    BY <2>1, <2>2, <2>3 DEF Firmado
<1> HIDE DEF e0
<1>6. p.s = m.s /\ p.d = m.d
  <2>1. p = [t |-> "GRABA", s |-> m.s, d |-> m.d]
    BY <1>1, Abstraido, Zenon DEF p
  <2>2. QED
    BY <2>1
<1> HIDE DEF p
<1>7. m.s[1] \in Ids /\ m.s[1] \in Pedibles /\ m.d[1] \in Contenidos /\ DelSector(m.s[1], m.d[1])
      /\ Len(m.d) = 2
  <2>1. /\ m.s \in Seq(Pedibles) /\ m.d \in Seq(Contenidos) /\ Len(m.s) = 2 /\ Len(m.d) = 2
        /\ \A k \in DOMAIN m.s : m.s[k] \in Ids
        /\ \A k \in DOMAIN m.d : DelSector(m.s[k], m.d[k])
    BY <1>1, <1>3, FirmeTipo DEF TiposPut
  <2>2. QED
    BY <2>1, ElementoTipo
<1>8. Modifica(x, e0, m.s[1], m.d[1], "grabar primero") /\ x.ldap \in [Ids -> Contenidos]
  BY <1>2, <1>5, <1>7, ModificarFirme
<1>9. x.ldap = [ldap EXCEPT ![m.s[1]] = m.d[1]]
  BY <1>5, <1>7, <1>8 DEF Modifica, Almacena
<1>10. lA' = GrabadoA(Head(eA[c]), 1)
  <2>1. ldap \in [Ids -> Contenidos]
    BY <1>5 DEF Firmado
  <2>2. lA = ldap /\ lA' = x.ldap
    BY <1>2, <1>8, <2>1, GuardadoEntero, ADelDisco DEF lA
  <2>3. x.ldap = Grabando(lA, m, 1)
    BY <1>9, <2>1, <2>2, Grabando1
  <2>4. GrabadoA(Head(eA[c]), 1) = Grabando(lA, m, 1)
    BY <1>4, <1>6, GrabandoAbstracto
  <2>5. QED
    BY <2>2, <2>3, <2>4
<1>11. 1 \in 1..2 /\ 1 <= Len(Head(eA[c]).d)
  BY <1>4, <1>6, <1>7
<1>12. QED
  BY <1>1, <1>4, <1>10, <1>11, ApagarFirme

\* Every step of the disk keeps the invariant and is a step of the store, or none.
LEMMA PasoFirme ==
    ASSUME Almacena, InvAlmacen, [Next]_vars
    PROVE  AlmacenBien' /\ PasoDelAlmacen
<1>1. CASE Bucle
  <2>1. ASSUME NEW c \in Clientes, AtenderCierre(c) PROVE FALSE
    BY <2>1 DEF AtenderCierre, InvAlmacen, AlmacenBien
  <2>2. CASE FinDePasada
    BY <2>2, NadaFirme DEF FinDePasada, entorno
  <2>3. QED
    BY <1>1, <2>1, <2>2, AtenderFirme
       DEF Bucle, AtenderGet, AtenderConsola, AtenderPut, AtenderCHS, AtenderCache
<1>2. CASE Consola
  BY <1>2, ConsolaFirme
<1>3. CASE Operador
  <2>1. ASSUME NEW k, Orden(k) PROVE AlmacenBien' /\ PasoDelAlmacen
    BY <2>1, NadaFirme DEF Orden, loopIgual
  <2>2. QED
    BY <1>3, <2>1 DEF Operador, OrdenObtener, OrdenEscribir, OrdenOtra
<1>4. CASE Entorno
  <2>1. CASE Arrancar
    BY <2>1, ArrancarFirme
  <2>2. CASE Caer
    BY <2>2, ApagarFirme DEF Caer
  <2>3. CASE PideGet \/ PidePut \/ PideCHS
    BY <2>3, PedirFirme
  <2>4. CASE ArrayRecibe
    BY <2>4, TomarFirme DEF ArrayRecibe, loopIgual, entorno, Clientes
  <2>5. CASE ArrayCierra \/ CacheConecta \/ CacheMuere
    <3>1. cache = "no" /\ nCierres = 0 /\ MaxCierres = 0
      BY DEF InvAlmacen, AlmacenBien, Almacena
    <3>2. ~ArrayCierra
      BY <3>1 DEF ArrayCierra
    <3>3. QED
      BY <2>5, <3>1, <3>2 DEF CacheConecta, CacheMuere
  <2>6. ASSUME NEW s, Desaloja(s) PROVE AlmacenBien' /\ PasoDelAlmacen
    BY <2>6, NadaFirme DEF Desaloja, canales
  <2>7. QED
    BY <1>4, <2>1, <2>2, <2>3, <2>4, <2>5, <2>6, CaerGrabandoFirme DEF Entorno
<1>5. CASE UNCHANGED vars
  BY <1>5, NadaFirme DEF vars, canales, entorno
<1>6. QED
  BY <1>1, <1>2, <1>3, <1>4, <1>5 DEF Next

LEMMA InicioFirme == ASSUME Init PROVE AlmacenBien
<1>1. <<>> \in Seq(Firmes)
  OBVIOUS
<1>2. QED
  BY <1>1 DEF Init, AlmacenBien, Atendiendo

LEMMA InicioAlmacen == ASSUME Init PROVE A!Init
<1>1. A!Init <=> lA \in [Ids -> Contenidos] /\ eA = [c \in Clientes |-> <<>>] /\ oA = [c \in Clientes |-> <<>>]
  BY Zenon DEF A!Init, lA, eA, oA, Guardado, PedidosDe, RtasDe
<1>2. lA \in [Ids -> Contenidos]
  BY NoHayAparte DEF Init, lA, Guardado
<1>3. DOMAIN <<>> = {} /\ \A q : DOMAIN q = {} => [k \in DOMAIN q |-> PedidoAbstracto(q[k])] = <<>>
      /\ [k \in DOMAIN q |-> [t |-> RtaAbstracta(q[k]), d |-> q[k].d]] = <<>>
  OBVIOUS
<1>4. eA = [c \in Clientes |-> <<>>] /\ oA = [c \in Clientes |-> <<>>]
  BY <1>3 DEF Init, eA, oA, PedidosDe, RtasDe
<1>5. QED
  BY <1>1, <1>2, <1>4

\* Without a cache, whatever the geometry, the clients' requests, the moments at
\* which it stops and the writes of LDAP that fail last, the disk is a store of
\* sectors: each request takes place whole at one instant, OK is said of writes
\* that are whole and FALLA of those whose last sector is as it was.
THEOREM ImplementaAlmacen == Almacena => (Spec => EsAlmacen)
<1> SUFFICES ASSUME Almacena PROVE Spec => EsAlmacen
  OBVIOUS
<1>1. Init => A!Init /\ InvAlmacen
  BY InicioAlmacen, InicioFirme, InicioDisco DEF InvAlmacen
<1>2. InvAlmacen /\ [Next]_vars => InvAlmacen'
  BY PasoFirme, PasoDisco DEF InvAlmacen
<1>3. InvAlmacen /\ [Next]_vars => [A!Next]_(A!vars)
  BY PasoFirme, PasoA DEF PasoDelAlmacen
<1>4. QED
  BY <1>1, <1>2, <1>3, PTL DEF Spec, EsAlmacen, A!Spec
=============================================================================

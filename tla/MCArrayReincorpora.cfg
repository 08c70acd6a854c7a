SPECIFICATION Spec
CHECK_DEADLOCK FALSE
CONSTANTS
    A = A
    B = B
    C = C
    Discos <- DosDiscos
    DiscosCHS <- DosDiscos
    Conexiones = {c1, c2, c3}
    N = 2
    Esperados <- EsperaA
    NULO = NULO
    RESERVADO = RESERVADO
    DISPONIBLE = DISPONIBLE
    Total = 4
    Basura = {0}
    MaxPedidos = 2
    Pares <- ParCruzado
    Contenido0 <- Viejo
    MaxPut = 1
    MaxGet = 2
    MaxComandos = 5
    MaxCaidas = 0
    Libertades = {}
INVARIANTS
    EspejoIgual
    SincronizadoPuedeOperar
    LecturaFresca
    EnServicioSinEspera
SYMMETRY HilosIguales

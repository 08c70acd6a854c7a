SPECIFICATION Spec
CHECK_DEADLOCK FALSE
CONSTANTS
    A = A
    B = B
    C = C
    Discos <- DosDiscos
    DiscosCHS <- DosDiscos
    Conexiones = {c1, c2}
    N = 2
    Esperados <- SinEsperados
    NULO = NULO
    RESERVADO = RESERVADO
    DISPONIBLE = DISPONIBLE
    Total = 4
    Basura = {0}
    MaxPedidos = 1
    Pares <- UnPar
    Contenido0 <- Viejo
    MaxPut = 1
    MaxGet = 0
    MaxComandos = 2
    MaxCaidas = 0
    Libertades = {"escribir siempre"}
INVARIANT EspejoIgual

SPECIFICATION SpecJusta
CHECK_DEADLOCK FALSE
CONSTANTS
    A = A
    B = B
    C = C
    Discos <- TresDiscos
    DiscosCHS <- DosDiscos
    Conexiones = {c1, c2}
    N = 2
    Esperados <- EsperaA
    NULO = NULO
    RESERVADO = RESERVADO
    DISPONIBLE = DISPONIBLE
    Total = 4
    Basura = {1}
    MaxPedidos = 1
    Pares <- ParCruzado
    Contenido0 <- Viejo
    MaxPut = 1
    MaxGet = 2
    MaxComandos = 4
    MaxCaidas = 0
    Libertades = {"escribir siempre"}

    
INVARIANTS
    RespuestaCorrecta

SPECIFICATION Spec
CHECK_DEADLOCK FALSE
CONSTANTS
    A = A
    B = B
    C = C
    Discos <- TresDiscos
    DiscosCHS <- TresDiscos
    Conexiones = {c1, c2, c3}
    N = 3
    Esperados <- SinEsperados
    NULO = NULO
    RESERVADO = RESERVADO
    DISPONIBLE = DISPONIBLE
    Total = 4
    Basura = {0}
    MaxPedidos = 1
    Pares <- ParCruzado
    Contenido0 <- Nuevo
    MaxPut = 0
    MaxGet = 1
    MaxComandos = 4
    MaxCaidas = 1
    Libertades = {"agregar sin hilo", "quitar el ultimo"}
INVARIANTS
    TypeOK
    NombresUnicos
    
    RespuestaCorrecta
    MitadEsperada
    ColaContigua
    SincronizandoEncolado
    SincronizacionEnCurso
    SectorPropio
SYMMETRY TodoIgual

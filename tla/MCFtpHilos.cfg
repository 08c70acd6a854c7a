SPECIFICATION FairSpec
CHECK_DEADLOCK FALSE
CONSTANTS
    Carpetas = {d1}
    Archivos = {f1}
    Ordenes <- Todas
    Paciente = TRUE
    FallaVsk = FALSE
    TamCabecera = 2
    LargoTexto = 1
    Capacidad = 20
    MaxOrdenes = 5
INVARIANTS
    ConexionPropia
    RutaConocida
PROPERTIES
    SeAtiende

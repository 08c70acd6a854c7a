SPECIFICATION Spec
CHECK_DEADLOCK FALSE
CONSTANTS
    Carpetas = {d1}
    Archivos = {f1}
    Ordenes <- Subidas
    Paciente = TRUE
    FallaVsk = FALSE
    TamCabecera = 2
    LargoTexto = 1
    Capacidad = 20
    MaxOrdenes = 2
INVARIANTS
    TransferenciaHecha

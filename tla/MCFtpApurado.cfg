SPECIFICATION Spec
CHECK_DEADLOCK FALSE
CONSTANTS
    Carpetas = {d1}
    Archivos = {f1}
    Ordenes <- Todas
    Paciente = FALSE
    FallaVsk = TRUE
    TamCabecera = 2
    LargoTexto = 1
    Capacidad = 20
    MaxOrdenes = 4
INVARIANTS
    TypeOK
    SinFichaPerdida
    Acompasados
    AvisoConConexion
    RespuestaDeSuOrden
PROPERTIES
    ConfirmadaNoEmpieza

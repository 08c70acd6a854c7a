SPECIFICATION Spec
CHECK_DEADLOCK FALSE
CONSTANTS
    Cilindros = 2
    Sectores = 2
    HayCache = TRUE
    TLectura = 2
    TCache = 1
    Ancho = 16
    Demoras = {1}
    Fallas = {"grabar ultimo"}
    Pares <- ParCorto
    Sueltos = {}
    DeConsola <- ListaLarga
    Pasadas = 1
    MaxPedidos = 2
    MaxComandos = 1
    MaxCaidas = 1
    MaxCierres = 1
    MaxDesalojos = 1
INVARIANTS
    ContenidoDelSector
PROPERTIES
    LecturasMonotonas

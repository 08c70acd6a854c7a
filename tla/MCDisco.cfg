SPECIFICATION SpecJusta
CHECK_DEADLOCK FALSE
CONSTANTS
    Cilindros = 2
    Sectores = 3
    HayCache = FALSE
    TLectura = 2
    TCache = 1
    Ancho = 64
    Demoras = {0}
    Fallas = {"grabar ultimo"}
    Pares <- UnPar
    Sueltos = {1, 6}
    DeConsola <- ListasDos
    Pasadas = 2
    MaxPedidos = 2
    MaxComandos = 1
    MaxCaidas = 1
    MaxCierres = 0
    MaxDesalojos = 0
INVARIANTS
    TypeOK
    PeorTiempoAcotado
    CaminosIguales
PROPERTIES
    EsAlmacen
    SeResponde
    ConsolaTermina

SPECIFICATION Spec
CONSTANTS
    Archivos = {a1}
    NumSectores = 5
    Fallas = {"crear", "agregar"}
    Mueren = {"sigpipe", "oft", "nombreArchivo"}
    Cortes = {}
    Formateado0 = TRUE
    Sockets = {c1, c2}
    Modos = {"W", "R", "D", "L"}
    Ids = {"open", "new"}
    HayCache = FALSE
    MaxCache = 0
    Comandos = {"GET", "PUT", "CHS"}
    MaxSesiones = 2
    MaxBloques = 1
    MaxCortes = 1
    MaxReinicios = 1
    MaxComandos = 1
INVARIANTS TypeOK  NadaSePierde RespuestaPropia
CHECK_DEADLOCK FALSE
SYMMETRY SocketsIguales

SPECIFICATION SpecJusta
CONSTANTS
    Archivos = {a1, a2}
    NumSectores = 5
    Fallas = {}
    Mueren = {"nombreArchivo"}
    Cortes = {}
    Formateado0 = FALSE
    Sockets = {c1}
    Modos = {"W", "R", "D"}
    Ids = {"open"}
    HayCache = TRUE
    MaxCache = 4
    Comandos = {"montar", "formatear"}
    MaxSesiones = 3
    MaxBloques = 2
    MaxCortes = 0
    MaxReinicios = 1
    MaxComandos = 3
INVARIANTS LoLeidoEsLoEscrito CacheFiel
 
CHECK_DEADLOCK FALSE

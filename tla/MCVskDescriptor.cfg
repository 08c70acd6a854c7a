SPECIFICATION Spec
CONSTANTS
    Archivos = {a1}
    NumSectores = 5
    Fallas = {}
    Mueren = {}
    Cortes = {}
    Formateado0 = TRUE
    Sockets = {c1, c2}
    Modos = {"W", "R", "D", "L"}
    Ids = {"open"}
    HayCache = FALSE
    MaxCache = 0
    Comandos = {}
    MaxSesiones = 2
    MaxBloques = 1
    MaxCortes = 0
    MaxReinicios = 0
    MaxComandos = 0
INVARIANT SuFdSigueEstando
CHECK_DEADLOCK FALSE

SPECIFICATION Spec
CONSTANTS
    Tasks = {t1, t2}
    Modes = {"everyone", "receiving_off"}
    Off = Off
PROPERTIES
    DjRestoresAutoAccept

\* Publishing and listening through losses of the connection.
SPECIFICATION Spec
CONSTANTS
    Publieurs = {clavier, web}
    Profondeur = 1
    MaxPublies = 3
    MaxEmis = 2
INVARIANTS TypeOK AttenteFondee PerteSignalee
PROPERTIES SortieOrdonnee EntreeOrdonnee PublicationRend
CHECK_DEADLOCK FALSE

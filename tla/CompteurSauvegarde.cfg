\* The count, its display and its file, with crashes, restarts and key Q.
SPECIFICATION Spec
CONSTANTS
    Periodique = periodique
    Clavier = clavier
    Ecrivains = {periodique, clavier}
    Depart = 2
    MaxCompteur = 4
    Base = 3
    DisqueFaillible = TRUE
INVARIANTS TypeOK AffichageProche
PROPERTIES RepriseExacte SauvegardeAssuree

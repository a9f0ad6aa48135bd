\* Key Q while the periodic writer is at work.
SPECIFICATION Spec
CONSTANTS
    Periodique = periodique
    Clavier = clavier
    Ecrivains = {periodique, clavier}
    Depart = 2
    MaxCompteur = 4
    Base = 3
    DisqueFaillible = FALSE
PROPERTY QuitterSauve

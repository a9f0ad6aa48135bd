\* A day of twelve hours of the loop that keeps up with the clock, at three temperatures.
SPECIFICATION SpecB
CONSTANTS
    Boucle = boucle
    Clavier = clavier
    Requetes = {}
    Touches <- SansTouche
    Urls <- SansUrl
    Temperatures <- EauVariable
    Seuil = 15
    HeuresJour = 12
    ParHeure = 1
    Debut <- DebutMC
    PannesLongues = FALSE
INVARIANTS TypeOKB PompeSelonPlages
PROPERTIES OuvertureUnique CommandesRespectees

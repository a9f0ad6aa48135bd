\* Windows are closed, although Graphite delays the loop.
SPECIFICATION SpecB
CONSTANTS
    Boucle = boucle
    Clavier = clavier
    Requetes = {}
    Touches <- SansTouche
    Urls <- SansUrl
    Temperatures <- EauFraiche
    Seuil = 15
    HeuresJour = 6
    ParHeure = 1
    Debut <- DebutReduit
    PannesLongues = TRUE
INVARIANTS UneSeulePlage PompeSelonDrapeaux
PROPERTY FermetureAssuree

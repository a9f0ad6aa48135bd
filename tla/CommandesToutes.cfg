\* Every command, one request at a time.
SPECIFICATION Spec
CONSTANTS
    Boucle = boucle
    Clavier = clavier
    Requetes = {r1}
    Touches <- ToutesTouches
    Urls <- ToutesUrls
    Temperatures <- TemperaturesMC
    Seuil = 15
INVARIANTS TypeOK ElectrolyseProtegee CoherentAuRepos
PROPERTIES ExpositionExpliquee CompteurExplique

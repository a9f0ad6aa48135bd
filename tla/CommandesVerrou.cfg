\* The interlock with every command finished.
SPECIFICATION Spec
CONSTANTS
    Boucle = boucle
    Clavier = clavier
    Requetes = {r1}
    Touches <- TouchesAucune
    Urls <- UrlsVerrou
    Temperatures <- TemperaturesMC
    Seuil = 15
INVARIANT VerrouAuRepos

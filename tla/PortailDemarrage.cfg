\* The lamp after init().
SPECIFICATION Spec
CONSTANTS
    Boucle = boucle
    Clavier = clavier
    Requetes = {r1, r2}
    Sujets = {"lampe", "portail"}
    MaxOrdres = 4
INVARIANT LampeEteinteAuDepart
CHECK_DEADLOCK FALSE

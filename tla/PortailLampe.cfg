\* What the program knows of the gate's lamp.
SPECIFICATION Spec
CONSTANTS
    Boucle = boucle
    Clavier = clavier
    Requetes = {r1, r2}
    Sujets = {"lampe", "portail"}
    MaxOrdres = 4
INVARIANTS TypeOK LampeConnue
PROPERTY ToucheABascule
CHECK_DEADLOCK FALSE

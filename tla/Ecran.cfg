\* What the screen ends up showing.
SPECIFICATION Spec
CONSTANTS
    Boutons = {0, 1, 3}
    MaxAppuis = 2
INVARIANT TypeOK
PROPERTY AfficheSuit

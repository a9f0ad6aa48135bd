\* A reconnected client has no subscription.
SPECIFICATION Spec
CONSTANTS
    Publieurs = {clavier, web}
    Profondeur = 2
    MaxPublies = 2
    MaxEmis = 2
INVARIANT Ecoute
CHECK_DEADLOCK FALSE

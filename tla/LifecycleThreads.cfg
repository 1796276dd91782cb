SPECIFICATION Spec
CONSTANTS
    Threads = {t1, t2, t3}
    MaxReady = 1
    Modulus = 256
    Faults <- NoFaults
PROPERTY NoThreadSurvives

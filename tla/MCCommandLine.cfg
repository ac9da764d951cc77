\* Every line of up to seven characters: four words with numbers of up to two
\* binary digits, empty words, quotes in any place, numbers that wrap.
CONSTANTS
    Base = 2
    MaxLine = 7
    IntLimit = 4
    MaxLba = 2
    MaxCount = 1
SPECIFICATION Spec
INVARIANTS TypeOK ArgvExact WriteAsTyped MessageTrue
PROPERTY LineAnswered
CHECK_DEADLOCK FALSE

SPECIFICATION Spec
CONSTANTS
    IntMax = 127
    CommandLines <- MCCommandLines
    Spelling <- MCSpelling
    NumberOf <- MCNumberOf
    max_limit_gibibytes = 9
    bytes_per_gibibyte = 8
INVARIANTS
    TypeOK
    DumpsWhatWasAsked
    NoSilentSuccess
    JobHasBenchmark

\* Two instances of one build, a file that is full after one record.
CONSTANTS
    Processes = {p1, p2}
    Serialized = {p1, p2}
    None = None
    MaxSize = 2
    MaxLength = 3
    MaxFailures = 2
SPECIFICATION Spec
INVARIANTS LinesAreWhole LossIsCounted
PROPERTIES RecordsMoveWhole

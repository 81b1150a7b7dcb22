\* Up to 13 octets in calls of up to three; a length of 96 bits is too long.
SPECIFICATION Spec
CONSTANTS
    Mark = Mark
    Zero = Zero
    Junk = Junk
    Octet <- MCOctet
    B = 4
    L = 2
    Low = 48
    High = 2
    MaxGiven = 13
    MaxPiece = 3
INVARIANTS TypeOK DigestOfAllGiven
PROPERTY CorruptedForCause

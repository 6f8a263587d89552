SPECIFICATION Spec
CONSTANTS
    Size = 4
    Chars <- MCChars
    Zero = "0"
    One = "1"
    NullText <- MCNullText
    Null = Null
    MaxLen = 2
    MaxPieces = 3
INVARIANT LineIsCutAtItsEnd

SPECIFICATION Spec
CONSTANTS
    Chars <- MCChars
    Names <- MCNames
    BadName <- MCBadName
    MaxNames = 3
    MaxParts = 3
INVARIANTS
    PathDenotesNames
    ListingIs
    UrlRoundTrip

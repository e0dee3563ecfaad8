SPECIFICATION FairSpec
CONSTANTS
    MaxLines = 2
    MaxFiles = 2
    Malformed <- OneMalformed
    Undecodable <- OneUndecodable
    Modes <- AllModes
PROPERTIES
    DeliversAtLeastOnce
    EveryLineArrives

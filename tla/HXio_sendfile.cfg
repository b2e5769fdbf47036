SPECIFICATION IoSpec
CONSTANTS
    MaxFile = 4
    BufSize = 2
    Page = 3
    INT_MAX = 2
    SSIZE_MAX = 9
    NoFile = NoFile
PROPERTY SendExact

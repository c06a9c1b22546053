SPECIFICATION Spec
CONSTANTS
    Files = {"notes", "dots"}
    Folders = {"root", "docs"}
    Contents = {"one", "two"}
    Digested = {"one"}
    Folder <- MCFolder
    Parts <- MCParts
    Size <- MCSize
    Partial = "partial"
    None = None
INVARIANTS NoTruncatedFile FreshRunsAlone
PROPERTIES VerdictHolds SumsAgree

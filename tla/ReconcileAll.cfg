SPECIFICATION DecideSpec
CONSTANTS
    Hashes = {h1, h2, h3}
    Absent = Absent
    Directory = Directory
    Unhashed = Unhashed
INVARIANTS
    DeletionNeverBeatsAnEditedFile
    ConflictKeepsBoth
    Mirrored
    ActsOnDifferencesOnly

SPECIFICATION Spec
CONSTANTS
    Commits = {1, 2, 3}
    f1 = f1
    f2 = f2
    Files <- MCFiles
    NoFile = NoFile
    MaxNodes <- MCMaxNodes
INVARIANTS
    TypeOK
    ChildrenFollow
    SearchTree
    Durable
PROPERTIES
    DiesOnlyOfTornRoot
    WalksEnd
    ImplementsSet

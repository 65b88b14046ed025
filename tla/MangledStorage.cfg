SPECIFICATION StorageSpec
CONSTANTS
    Storages = {a, b}
    a = a  b = b
    Doubtful = FALSE
    ClassTemplate <- MCClassTemplate
    Pretty <- MCPretty
    Aliases <- MCAliases
    Libraries <- MCLibraries
    Queries <- MCQueries
    Overloads <- MCOverloads
INVARIANTS StorageInv FindsWhatIsAsked

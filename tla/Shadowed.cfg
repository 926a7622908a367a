SPECIFICATION DSpec
CONSTANTS
    Package <- MCPackage
    Missing = 4
    StackRoom = 3
    HttpsUrl <- MCHttpsUrl
    NoPin <- MCNoPin
    MaxIdentifier = 3
    MaxFrame = 1
    MaxU64 = 2
    UnsafePart = {"up"}
    ReservedPart = {"con"}
    MaxEntries = 3
    MaxTotal = 4
    MaxEntryBytes = 3
    MaxPath = 5
    MaxDepth = 3
    NoObject = "none"
    MaxListed = 2
    Locks <- MCLocks
    Manifests <- MCManifests
    Builds <- MCBuilds
    Lines <- MCLines
    Plugins <- MCPlugins
    Policies <- MCPolicies
    Dependencies <- MCDependencies
    Providers = {"us", "them"}
    BuilderInputs <- MCBuilderInputs
    ResultLists <- MCResultLists
    Bases <- MCBases
    Remotes <- MCRemotes
    Trees <- MCTrees
    RefsAsked <- MCRefsAsked
CHECK_DEADLOCK FALSE
INVARIANT ShadowedNamesReported

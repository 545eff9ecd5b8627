SPECIFICATION Spec
CONSTANTS
    Objects = {o1, o2, o3}
    Deployments <- MCDeployments
INVARIANTS
    ReachableAlive
    ManagedAlive
    TriColour
PROPERTIES
    CollectionEnds
    Implements

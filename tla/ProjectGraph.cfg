SPECIFICATION Spec
CONSTANTS
    Claim = {f1, f2, f3}
    Predicate = {p, q}
    Category = {k, l}
    Elsewhere = {x}
    MaxCategories = 1
    MaxTargets = 1
    MaxHops = 2
    NoClaim = NoClaim
SYMMETRY GraphSymmetry
CHECK_DEADLOCK FALSE
INVARIANT TraversalIsComplete
INVARIANT AssociationsAreTwoHopsApart
INVARIANT UnresolvedNamesNothing

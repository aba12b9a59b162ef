CONSTANTS
    c1 = c1
    c2 = c2
    base = base
    derived = derived
    leaf = leaf
    here = here
    there = there
    state = state
    param = param
    BBItem = BBItem
    AnyScope = AnyScope
    Client = {c1, c2}
    Class = {base, derived, leaf}
    Parent <- Chain
    Item = {state, param}
    ClassOf <- Classes
    ScopeOf <- Scopes
    Scope = {here, there}
    MaxChanges = 2
    MaxDepth = 2
    MaxSubscribers = 2
SPECIFICATION BlackboardSpec
INVARIANTS EveryoneTold
CHECK_DEADLOCK FALSE
SYMMETRY Symmetric

SPECIFICATION FairSpec
CONSTANTS
    order = order
    o1 = o1
    o2 = o2
    Instances = {o1, o2}
    ServiceOf <- MCServiceOf
    Fanned = order
    Limit = 1
    Listing <- MCListing
    MaxChanges = 2
INVARIANTS PagesAgree
PROPERTIES NothingInvented Converges

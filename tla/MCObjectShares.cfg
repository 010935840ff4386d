\* A share is created while the selection moves on.
SPECIFICATION Spec
CONSTANTS
  k1 = k1
  k2 = k2
  m1 = m1
  m2 = m2
  NoKey = NoKey
  Keys = {k1, k2}
  Root = "/"
  Folders = {"/", "docs/"}
  Parent <- ParentOf
  Listings <- SomeListings
  LastPage = 2
  Mutations = {m1}
  MaxRequests = 3
INVARIANT SharesBelongToSelection

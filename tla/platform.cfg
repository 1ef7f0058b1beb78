SPECIFICATION PlatformSpec
SYMMETRY CallSymmetry
CONSTANTS
  Admins = {c1, c2}
  MaxSaves = 3
  Edited = {"growth"}
  Now = 1
  NewId <- PlanId
  Callers = {c1, c2}
  Keys = {k1}
  Clients <- AllClients
  MaxRows = 2
  MaxWrites = 3
  Operators = {c1, c2}
  MaxScripts = 3
  BillingCalls = {c1, c2}
  PlansSold = {"growth", "club"}
  SoldTiers = {"AGENCY"}
  Granted = {"AGENCY"}
  MaxOrders = 2
  MaxUpserts = 3
  Users = {u1}
  Businesses = {b1, b2, b3}
  McpKeys = {k1, k2, k3}
  AccountCalls = {c1, c2}
  BusinessLimit = 1
  KeyLimit = 1
  NoOne = NoOne
  Tenants = {x1, x2}
  SlugCalls = {c1, c2}
  RawNames <- SomeNames
  MaxRowSaves = 3
  LabelLength = 4
  HttpCalls = {c1, c2}
  MaxHttp = 3
INVARIANTS PlatformTypeOK PlanEditsAreKept RowsAreAsAsked OneRowPerKey LegacyStaysTogether RecordedIsThere
  ActiveIsPaidFor OverrunIsBounded NoSharedStorefront WithdrawnStaysDark
CHECK_DEADLOCK FALSE

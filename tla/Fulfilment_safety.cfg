SPECIFICATION Spec
CONSTANTS
  d1 = d1  d2 = d2  d3 = d3  u1 = u1  u2 = u2  u3 = u3  m1 = m1  i1 = i1  i2 = i2  v1 = v1
  Office = Office  OrderRow = OrderRow  Free = Free
  Item = {i1, i2}
  Create = {d1, d2, d3}
  Update = {u1, u2, u3}
  DriverApp = {u2}
  Driver = {v1}
  Move = {m1}
  Ordered <- MCOrdered
  Load <- MCLoad
  Of <- MCOf
  Actor <- MCActor
  Apart <- OneByOne
INVARIANTS
  TypeOK
  NoOverAllocation
  CodesNeverClash
  OrderRolledUp
PROPERTIES
  TerminalOrderStays
  EndedDeliveryStays
CHECK_DEADLOCK FALSE

SPECIFICATION Spec
CONSTANTS
  c1 = c1  c2 = c2  c3 = c3  e1 = e1  e2 = e2  p1 = p1  p2 = p2
  Coupon = Coupon  Numbers = Numbers  Free = Free
  Product = {p1, p2}
  Checkout = {c1, c2, c3}
  Edit = {e1, e2}
  Chat = {}
  SignedIn = {}
  WithCoupon = {c2, c3}
  Staff = {e1}
  Switchable = {p1}
  UsageLimit = 1
  Key <- RepeatedKey
  Cart <- RivalCart
  InitialStock <- RivalStock
  Target <- AtFirst
  NewStatus <- ConfirmThenCancel
  Follows <- Sequential
INVARIANTS
  TypeOK
  StockAccounting
  CouponAccounting
  OneOrderPerKey
  NumbersSequential
  LocksFollowTransactions
PROPERTIES
  SoldWhileListed
  ImplementsOrderBook

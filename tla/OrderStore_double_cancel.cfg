SPECIFICATION Spec
CONSTANTS
  c1 = c1  c2 = c2  c3 = c3  e1 = e1  e2 = e2  p1 = p1  p2 = p2
  Coupon = Coupon  Numbers = Numbers  Free = Free
  Product = {p1, p2}
  Checkout = {c1}
  Edit = {e1, e2}
  Chat = {}
  SignedIn = {}
  WithCoupon = {}
  Staff = {}
  Switchable = {p1}
  UsageLimit = 0
  Key <- OwnKey
  Cart <- EqualCart
  InitialStock <- ScarceStock
  Target <- AtFirst
  NewStatus <- AllCancel
  Follows = {}
INVARIANT
  StockAccounting

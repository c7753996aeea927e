SPECIFICATION GatewaySpec
CONSTANTS
  Req = {q1}
  MaxTokens = 2
  dish = dish
  tray = tray
  sushi = sushi
  Product = {dish, tray}
  Category = {sushi}
  FirstBox = tray
  Offers <- MCOffers
  FirstListing <- MCFirstListing
  Names = {"a"}
  BatchSize = 1
  Absent = Absent
  NoBox = NoBox
  Order = {o1}
  NoOrder = NoOrder
  Carts <- MCCarts
  Methods = {"CASH", "PAYME", "CLICK"}
  overlap = overlap
  tip = tip
  beside = beside
  hole = hole
  Files <- MCFiles
  Places = {overlap, tip, beside, hole}
  Coordinates <- MCCoordinates
  OlmaliqMin = 6
  OhangaronMin = 7
  OhangaronFee = 1
  chef = chef
  cook = cook
  guest = guest
  kitchenRole = kitchenRole
  adminRole = adminRole
  newRole = newRole
  Role = {adminRole, kitchenRole, newRole}
  User = {chef, cook, guest}
  Staff <- MCStaff
  Admin = chef
  NoRole = NoRole
  Nobody = Nobody
  ScopeSets <- MCScopeSets
  Mixes <- MCNoToken
  MaxRequests = 1
  MaxEdits = 0
CHECK_DEADLOCK FALSE
INVARIANT FirstTokenIsFetched

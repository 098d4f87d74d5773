SPECIFICATION FairSpec
CONSTANTS
  s1 = s1  s2 = s2  food = food  fun = fun  r1 = r1
  here = here  hall = hall  park = park
  Shops = {s1, s2}
  Types = {food, fun}
  Places = {here, hall, park}
  TypeOf <- ThreePlaces
  Unlocated = {}
  Nowhere = Nowhere
  Writers = {1, 2}
  Runners = {r1}
  MaxWrites = 2
  MaxFailures = 1
INVARIANT TypeOK
PROPERTIES GeoConverges GeoRefilled OnlyWritesUnsettle

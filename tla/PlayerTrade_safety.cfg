\* Three slots, two items, one of them fish; one change of an inventory, one new player.
CONSTANTS
  p1 = p1
  p2 = p2
  p3 = p3
  dirt = dirt
  fish = fish
  Slots = {p1, p2, p3}
  Items = {dirt, fish}
  Fish = {fish}
  WorldKeys = {}
  NoOne = NoOne
  MaxHold = 1
  MaxOffers = 1
  MaxMoves = 1
  MaxJoins = 1
SPECIFICATION Spec
SYMMETRY Symmetry
CHECK_DEADLOCK FALSE
INVARIANT
  TypeOK
PROPERTIES
  AcceptStandsForDeal
  EndsForBoth
  BothAcceptChecked

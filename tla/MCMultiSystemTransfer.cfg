\* The same instance, with the one claim the comment makes.
SPECIFICATION Spec
CONSTANTS
  Clients = {c1, c2}
  Nobody = Nobody
  MaxListed = 2
  WarmStart = TRUE
INVARIANT
  NoClientGoesAway
CHECK_DEADLOCK FALSE

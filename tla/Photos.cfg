SPECIFICATION Spec
CONSTANTS
  Account = {x1, x2}
  Key = {k1}
  Variant = {card, full}
  Handler = {c1, c2}
  None = None
  MaxPhotos = 2
  MaxRows = 3
SYMMETRY Symmetry
INVARIANTS TypeOK NothingKeptWithoutARow RowsKeepTheirObjects AlbumInOrder
CHECK_DEADLOCK FALSE

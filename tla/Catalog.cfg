\* The results of a scan: one edit during it, one fault; and the catalog: two open
\* transactions. One image that two products and the file library may share, one cover
CONSTANTS
  i1 = i1  p1 = p1  p2 = p2  x1 = x1  y1 = y1  w1 = w1  w2 = w2
  Subjects = {"results", "catalog"}
  MaxVersion = 2
  Content <- MCContent
  Forms = {"debounced"}
  MaxLockRetries = 2
  MaxScans = 2
  MaxHooks = 2
  Routed = {"APP_UNINSTALLED", "SHOP_REDACT"}
  ColonsAccepted = TRUE
  MaxAuths = 2
  Types = {"PRODUCT_MEDIA", "FILES", "ARTICLE_IMAGE"}
  Images = {i1}
  Products = {p1, p2}
  Covers = {x1}
  Texts = {y1}
  Library = Library
  Null = Null  NoImage = NoImage
  MaxAttempts = 2
  FlushSize = 2
  MaxEdits = 1
  Txs = {w1, w2}
  MaxFaults = 1
SPECIFICATION InboundSpec
CHECK_DEADLOCK FALSE
SYMMETRY Symmetry
CONSTRAINTS OneTarget OneRequest
INVARIANTS PublishedIsRead NonEmptyWinsAlone PresentIffUsed WorkableIsThere GroupsFollowUsages

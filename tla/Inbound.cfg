\* The webhooks. Two changes of a product, two full scans; two authentications of a shop
\* and two webhooks about it; one fault. Routed and ColonsAccepted are as the routes and
\* gdpr-delete.queue.ts expect, and not as shopify.app.development.toml and the comment in
\* continuous-scan.queue.ts say: under those the deletion that DeletedIsWhole is about is
\* never queued, and nothing of it would be seen.
CONSTANTS
  i1 = i1  p1 = p1  p2 = p2  x1 = x1  y1 = y1  w1 = w1  w2 = w2
  Subjects = {"products", "shop"}
  MaxVersion = 2
  Content <- MCContent
  Forms = {"debounced", "generic", "unusable"}
  MaxLockRetries = 2
  MaxScans = 2
  MaxHooks = 2
  Routed = {"APP_UNINSTALLED", "SHOP_REDACT"}
  ColonsAccepted = TRUE
  MaxAuths = 2
  Types = {"PRODUCT_MEDIA", "FILES", "ARTICLE_IMAGE"}
  Images = {i1}
  Products = {p1, p2}
  Covers = {x1}
  Texts = {y1}
  Library = Library
  Null = Null  NoImage = NoImage
  MaxAttempts = 2
  FlushSize = 2
  MaxEdits = 1
  Txs = {w1, w2}
  MaxFaults = 1
SPECIFICATION InboundSpec
CHECK_DEADLOCK FALSE
INVARIANTS SettledIsPublished DeletedIsWhole
PROPERTIES NeverBackwards JobsEnd

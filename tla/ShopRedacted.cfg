\* One authentication, an uninstallation and the redaction after it, which Shopify
\* sends to /webhooks, as shopify.app.development.toml has it; no faults
CONSTANTS
  MaxHooks = 2
  Routed = {}
  ColonsAccepted = TRUE
  MaxAuths = 1
  MaxFaults = 0
SPECIFICATION Spec
CHECK_DEADLOCK FALSE
PROPERTIES RedactedIsDeleted

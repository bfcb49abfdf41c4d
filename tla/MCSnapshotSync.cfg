SPECIFICATION Spec
CONSTANTS
  StoreCount = 1
  Workers = {"w1", "w2"}
  MaxVersion = 2
  MaxRowRevision = 3
  AuditLimit = 1
  MaxEvents = 0
PROPERTIES OlderIsReplaced

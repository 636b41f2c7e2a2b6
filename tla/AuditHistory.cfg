\* Two events are kept, the file imported holds three, and two more are recorded;
\* three days that may pass in any order.
SPECIFICATION HistorySpec
CONSTANTS
  Configs <- Histories
  Default <- Fresh
  Missing = Missing
  Unusable = Unusable
  MAX_AUDIT_EVENTS = 2
  RetentionDays = {1, 2}
  Malformed = Malformed
  Imports <- Files
  MaxEvents = 2
  MaxNow = 2
INVARIANTS
  WrittenEventsAreListed
PROPERTIES
  BackupStaysReadable
  Durability

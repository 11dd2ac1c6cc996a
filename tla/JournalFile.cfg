SPECIFICATION Spec
CONSTANTS
  Payloads <- MCPayloads
  Hash <- MCHash
  Buckets <- MCBuckets
  EntryLists <- MCEntryLists
  Scopes <- MCScopes
INVARIANTS
  LookupExact
  EnumerateExact
  EntriesExact
  ObjectsVerify
CHECK_DEADLOCK FALSE

SPECIFICATION Spec
CONSTANTS
  Messages <- AllMessages
  Lists <- AllLists
INVARIANT FieldsApart
INVARIANT RoundTrip
INVARIANT ChainsFollowed
CHECK_DEADLOCK FALSE

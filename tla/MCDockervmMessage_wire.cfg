SPECIFICATION Spec
CONSTANTS
    Messages <- MCMessages
    Keys <- MCKeys
    UnknownFields <- MCUnknownFields
CHECK_DEADLOCK FALSE
INVARIANTS SizeExact RoundTrip PrefixRefused

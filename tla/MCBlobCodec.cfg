SPECIFICATION CodecSpec
CONSTANTS
  FE = 5
  Rounds = 2
  MaxEdits = 2
  EditValues = {0, 1, 19, 66}
  Payloads <- MCPayloads
INVARIANTS RoundTrip OneEncoding

CONSTANTS
  Senders = {s1, s2}
  Receivers = {r1}
  MAX_MESSAGES = 2
  COUNT_MOD = 8
  SENT_CAP = 4
SPECIFICATION Spec
INVARIANT Reliable

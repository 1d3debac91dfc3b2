SPECIFICATION Spec
CONSTANTS
  s1 = s1
  s2 = s2
  Sessions = {s1, s2}
  MaxAttempts = 2
  Samples <- MCSamples
  MaxFrames = 2
  MaxOverdue = 1
SYMMETRY Interchangeable
INVARIANT SessionSendsOwnBytes

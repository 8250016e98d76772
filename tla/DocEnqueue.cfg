SPECIFICATION Spec
CONSTANTS
  Device = {d1}
  MaxAttempts = 1
  MaxAsked = 0
PROPERTIES
  EnqueuedIsQueued

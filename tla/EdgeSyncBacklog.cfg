SPECIFICATION BacklogSpec
CONSTANTS
  Events = {e1, e2, e3}
  BatchSize = 2
  MaxFaults = 0
PROPERTIES
  BacklogDrains

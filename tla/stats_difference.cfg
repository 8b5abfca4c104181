SPECIFICATION StatsSpec
CONSTANTS
  Counters = {"messagesSent", "bytesSent"}
  Cells = 4
  Sizes = {1, 3}
  MaxTraffic = 9
PROPERTY DifferenceRight

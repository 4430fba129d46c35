CONSTANTS
  Requests = {r1, r2}
  Order <- MCOrder
  Collector = "otlp-collector"
SPECIFICATION FairSpec
PROPERTIES Justified StatusSettles GaugeSettles
CHECK_DEADLOCK FALSE

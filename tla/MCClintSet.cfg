SPECIFICATION Spec
CONSTANTS
  CounterBits = 4
  Cycles = {1, 14}
  MaxStall = 2
  MinPeriod = 14
  WordBits = 2
  Ticks = {1, 3}
  Times = {4, 9, 15}
PROPERTIES
  NoSpuriousInterrupt

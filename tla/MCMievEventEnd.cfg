SPECIFICATION EventSpec
CONSTANTS
  MaxEvent = 20
  MaxName = 3
  MaxString = 4
  MaxParams = 2
  LongMax = 127
  MaxDigits = 3
  HeadLens = {3}
  KeyLens = {1, 2, 3}
  TextLens = {0, 3, 4}
  Longs <- SmallLongs
INVARIANTS
  SentIsTerminated

SPECIFICATION SystemSpec
CONSTANTS
  Readers = {r1}
  Writers = {driver, w1}
  Driver = driver
  NoOwner = NoOwner
  FifoSize = 6
  MaxEvent = 6
  Counts = {4}
  MaxWrites = 3
  UserLens = {5}
  MaxName = 2
  MaxString = 1
  MaxParams = 1
  LongMax = 15
  MaxDigits = 2
  HeadLens = {1, 6}
  KeyLens = {0, 2}
  TextLens = {0, 1}
  Longs = {0}
INVARIANTS
  SoleReaderFindsData
  DeliveredOnce
  EventTypeOK
  SentIsWhole
PROPERTIES
  KeepsQueueTerms
  SleeperWakes
  WriterReturns

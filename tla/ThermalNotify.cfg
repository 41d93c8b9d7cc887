SPECIFICATION FairSpec
INVARIANTS
  ScreenChangeOwed
  UsbChangeOwed
  QuietWhenGone
PROPERTIES
  ScreenEventuallyTold

SPECIFICATION Spec
CONSTANTS
  Clients = {miload, vendor}
  Null = Null
  Miload = miload
  Vendor = vendor
  VendorSlots = {"game_vip", "lb_detect"}
  Called = {"walt_window_update", "update_fravg"}
  MaybeProc = {"group"}
  MaxFiles = 1
INVARIANTS
  TypeOK
  NoHookLeftBehind
  UnwindIsComplete
  CodeStaysWhileUsed

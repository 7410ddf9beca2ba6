SPECIFICATION Spec
CONSTANTS
  Title = {"intro", "options", "flags", "more"}
  Key = {"index", "page", "new"}
  Object = {"obj"}
  Asset = {"fig"}
  Bundles <- MCBundles
  Injector <- MCInjector
  Torn = Torn
  Nothing = Nothing
  Text = "text"
  Number = Number
  List = List
  MaxStarts = 4
INVARIANTS InjectionIsIdempotent InjectionKeepsPackable UnpackedPacksAlike BrokenOffIsRefused
CHECK_DEADLOCK FALSE

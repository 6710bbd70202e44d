SPECIFICATION BrowserSpec
CONSTANTS
  Sites = {s1, s2}
  MaxCalls = 2
  Folders = {"", "world"}
  Root = ""
  NoSite = NoSite
INVARIANT EditorHoldsOwn
CHECK_DEADLOCK FALSE

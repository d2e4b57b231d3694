SPECIFICATION Spec
CONSTANTS
  None = None
  p1 = p1
  p2 = p2
  empty = empty
  old = old
  new = new
  big = big
  Proc = {p1, p2}
  Plugin <- Plugins
  Other <- Others
  Invalid <- Invalids
  Transient <- Transients
  Local <- Locals
  Snapshot <- Snap
  Manifest <- Mani
  Database <- Data
  Decoded <- Read
  Body <- Bodies
  OtherBody = {old}
  Size <- Sizes
  Empty = empty
  Image = old
  Text = old
  Corrupt = {empty}
  Header = 1
  Trailer = 1
  EntrySize = 1
  ArchiveLimit = 10
  MemberLimit = 1
  ManifestLimit = 3
  MaxMembers = 4
  MaxBackups = 1
  Given <- Archives
SYMMETRY Symmetry
INVARIANTS ReaderExact CreatedReadable SnapshotBacked PluginAsRecorded

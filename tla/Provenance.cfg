SPECIFICATION Spec
CONSTANTS
  d1 = d1
  d2 = d2
  init = init
  stray = stray
  cached = cached
  direct = direct
  installer = installer
  a = a
  b = b
  v1 = v1
  v2 = v2
  c1 = c1
  c2 = c2
  h1 = h1
  h2 = h2
  Dir = {d1, d2}
  PackageFile <- MCPackage
  MetadataFile <- MCMetadata
  Bytecode = {cached}
  RequiredFile = {init, direct, installer}
  DirectUrl = direct
  Bytes = {a, b}
  Version = {v1, v2}
  Commit = {c1, c2}
  Digest = {h1, h2}
  Missing = Missing
  Link = Link
  Unreadable = Unreadable
  NoRow = NoRow
  NoDigest = NoDigest
  WrongSize = WrongSize
  None = None
  Unsafe = Unsafe
  Invalid = Invalid
  Malformed = Malformed
  Unforeseen = Unforeseen
  Installations <- MCInstallations
  Requests <- MCRequests
INVARIANTS
  VerifiesExactlySound
  ClaimsAreSupported
  EndsForAReason
PROPERTIES
  EvidenceFirst
CHECK_DEADLOCK FALSE

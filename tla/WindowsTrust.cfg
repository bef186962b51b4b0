CONSTANTS
  Certs = {p, q, r}
  None = None
  p = p
  q = q
  r = r
SPECIFICATION Spec
SYMMETRY CertSymmetry
INVARIANTS
  BundleIsTrusted
  SupersededIsRemoved
  RerunIsAccepted
PROPERTY GuestTrustSpec

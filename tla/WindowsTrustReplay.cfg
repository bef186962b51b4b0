CONSTANTS
  Certs = {p, q, r}
  None = None
  p = p
  q = q
  r = r
SPECIFICATION Spec
SYMMETRY CertSymmetry
INVARIANT ReplayConverges

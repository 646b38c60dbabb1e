SPECIFICATION Spec
CONSTANTS
  url = url
  note = note
  item = item
  bytes1 = bytes1
  bytes2 = bytes2
  bytes3 = bytes3
  k1 = k1
  k2 = k2
  k3 = k3
  v1 = v1
  v2 = v2
  meta1 = meta1
  meta2 = meta2
  None = None
  Payloads <- MCPayloads
  MediumOf <- MCMediumOf
  Urls = {url}
  Paths = {note}
  Items = {item}
  Contents = {bytes1, bytes2, bytes3}
  Keys = {k1, k2}
  Versions = {v1}
  Details = {meta1}
  Stamps = {1, 2}
SYMMETRY MCSymmetry
\* Everything there is has been captured.
CHECK_DEADLOCK FALSE
INVARIANTS
  NothingUnresolved
  RevisionsForward
  DepositsAreChain

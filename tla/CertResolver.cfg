SPECIFICATION Spec
CONSTANTS
  web = web
  api = api
  noApp = noApp
  Handshake = {h1, h2, h3}
  Sni <- Asking
  NoSni = noSni
  Norm <- SpellingNorm
  NoCert = noCert
SYMMETRY HandshakeSymmetry
INVARIANTS TypeOK ServedForName NoRegeneration FewCerts
PROPERTY ImplementsCache

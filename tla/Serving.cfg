SPECIFICATION FairSpec
CONSTANTS
  web = web
  App = {web}
  NoApp = noApp
  Client = {c1, c2}
  Question <- Questions
  Id = {1}
  Port = {p1}
  NoPort = noPort
  Buffer = 2
  Fds = 3
  MaxFaults = 1
INVARIANTS TypeOK Agree
PROPERTIES Reached RequestsEnd Recovers

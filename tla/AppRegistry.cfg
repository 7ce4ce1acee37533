SPECIFICATION Spec
CONSTANTS
  p80 = p80
  p3000 = p3000
  Name = {web}
  Port = {p80, p3000}
  NoName = noName
  NoPort = noPort
  Digits <- FarDigits
  Project = {d1, d2}
  NoProject = noProject
  Command = {c1, c2}
  Request = {q1}
  MaxEdits = 2
SYMMETRY ProjectSymmetry
INVARIANTS TypeOK
PROPERTIES LinkTakesEffect AnswerOfItsTime DirectoriesAreSafe

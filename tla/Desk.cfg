\* The server waits for requests; nothing is left to do when rows run out.
CONSTANTS
  Requests = {r1, r2}
  Mixes <- DeskMixes
  Projects = {p1, p2, p3}
  Orgs = {o1, o2}
  Home = o1
  Spaces = {w1, w2, w3}
  Root = w1
  NoSpace = none
  Bases <- Slugs
  MaxDepth = 3
  MaxRetries = 3
  Issues = {1, 2}
  BatchSize = 1
  MaxTime = 2
  MaxVersion = 2
  MaxLinks = 2
  Linked = {p1, p2}
  First = p1
  Mails = {1, 2}
  MaxDay = 1
  MaxSends = 3
  Comments = {c1}
SPECIFICATION DeskSpec
  
PROPERTIES TreeHeld ProjectsHeld
SYMMETRY DeskSymmetry
CHECK_DEADLOCK FALSE

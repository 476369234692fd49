SPECIFICATION Spec
CONSTANTS
  c1 = c1
  c2 = c2
  Clients <- MCClients
  Repertoire <- MCRepertoire
  MaxCommands <- MCMaxCommands
INVARIANT AnswerIsOwn

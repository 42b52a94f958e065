SPECIFICATION LiveSpec
CONSTANTS
  EchoTries = 5
  SignalTries = 10
  WeakSignal = 3
  NetTries = 3
  NetRounds = 20
  Commands = 11
  StartTries = 3
  RegisterTries = 5
  Strengths = {0, 1, 9, 15, 99}
  Before <- MCBefore
INVARIANTS GivesUpLate RunsConnected LineAsAsked
PROPERTY Settles

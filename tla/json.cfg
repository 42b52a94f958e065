SPECIFICATION Spec
CONSTANTS
  Bits = 8
  Names <- MessageNames
  RightMargin = 14
  Sources = {"program", "line", "server"}
  MaxOps = 3
  MaxDepth = 1
  MaxIndex = 1
  Members = {1, 2}
  Leaves <- MCLeaves
  Remarks <- MCRemarks
  Styles = {"fast", "styled", "stream"}
  MaxLexemes = 6
  MaxWrong = 1
  Lexemes <- MCLexemes
  Messages <- MCMessages
INVARIANTS MemoryOwned OrderIsTotal ConversionsAnnounced RoundTrip ErrorsJustified ConfirmedAsSaid
PROPERTIES ParseAdvances EndsOnlySo

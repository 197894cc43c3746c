SPECIFICATION Spec
CONSTANTS
  Texts <- SomeTexts
  Messages <- SomeMessages
INVARIANTS
  TypeOK
  HangsOnlyOnNegativeSize
  FoundWhenWhole
  FoundToTheByte
  ForwardedIsTheRequest
CHECK_DEADLOCK FALSE

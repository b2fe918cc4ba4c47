SPECIFICATION AppSpec
CONSTANTS
  Bodies <- SomeBodies
  Colors = {"93AB89", "FFFFFF"}
  Names = {"Envy", "White"}
  MaxColors = 2
  Texts <- SomeTexts
  MaxAsked = 2
  MaxListed = 2
INVARIANTS TypeOK WholePalette DiesOfNonsense ShowsLatest
PROPERTIES Answered PageKept Settles

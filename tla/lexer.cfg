SPECIFICATION Spec
CONSTANT Texts <- AllTexts
INVARIANTS TypeOK NothingLost ReadBack

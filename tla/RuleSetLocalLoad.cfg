SPECIFICATION Spec
CONSTANT MaxVersion = 3
INVARIANT ChangeDuringLoadIsNoticed

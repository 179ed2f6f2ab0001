CONSTANT Width = 4
SPECIFICATION Spec
INVARIANT SubrangeMeaning

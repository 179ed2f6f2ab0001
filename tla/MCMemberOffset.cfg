CONSTANT Width = 8
SPECIFICATION Spec
INVARIANT BitFieldEncodingsAgree

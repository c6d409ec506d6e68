SPECIFICATION SendSpec
INVARIANT BuiltAsDeclared

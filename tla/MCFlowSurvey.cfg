CONSTANT Selectors <- RepoSelectors
CONSTANT BuiltinType = BuiltinType
SPECIFICATION Spec
INVARIANT ParsedAsSpec

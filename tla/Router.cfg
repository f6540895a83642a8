\* Every table of up to three routes, every path of up to four characters.
CONSTANT Paths <- MCPaths
SPECIFICATION Spec
INVARIANTS MostSpecificAlwaysWins StripsPrefix

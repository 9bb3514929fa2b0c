------------------------- MODULE MCParserDocuments -------------------------
EXTENDS ParserDocuments, TLC
Symmetric == Permutations(Docs)
============================================================================

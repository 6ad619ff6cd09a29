--------------------------- MODULE MCSchemaCache ---------------------------
EXTENDS SchemaCache
CONSTANTS owner, reader, w1, w2, r1, r2

\* The owner is served by both workers, the reader by one of them.
MCRoutes == {<<w1, owner>>, <<w2, owner>>, <<w2, reader>>}
============================================================================

--------------------------- MODULE MCProjectFiles ---------------------------
\* ProjectFiles on a project that starts with one file and may get a second.
EXTENDS ProjectFiles
=============================================================================

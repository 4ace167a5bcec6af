--------------------------- MODULE MCAsyncLooper ---------------------------
\* TLC instance of AsyncLooper.
EXTENDS AsyncLooper
=============================================================================

---------------------------- MODULE MCLoggerTrees ---------------------------
\* LoggerTrees for TLC: Logger.cfg has a tree that rotates and flushes beside
\* one that only writes.
EXTENDS LoggerTrees
=============================================================================

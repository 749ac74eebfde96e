----------------------------- MODULE MCIngestRunner -----------------------------
(* Small instances of IngestRunner for TLC.                                *)
EXTENDS IngestRunner
CONSTANTS r1, r2

\* An empty submission; two items that repeat a report; an item of two files
\* of which one cannot be read; an item that holds no file before one that
\* makes the code raise.
MCEnvelopes ==
    {<<>>, <<<<r1>>, <<r1, r2>>>>, <<<<r2, Unreadable>>>>, <<<<>>, <<Raising>>>>}
===============================================================================

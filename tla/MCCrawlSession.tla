---------------------------- MODULE MCCrawlSession ----------------------------
(* All four modes, with lists of two URLs, up to two counted passes, and    *)
(* three passes of a schedule without --max-runs.                            *)
EXTENDS CrawlSession

MC_RunLimits == {1, 2}
===============================================================================

----------------------------- MODULE MCCrawlRun -----------------------------
(* An instance of CrawlRun for TLC: a crawl with cgroups, a probe without. *)
EXTENDS CrawlRun

MCRuns == {"https", "http", "probe"}
Crawls == {"https", "http"}
=============================================================================

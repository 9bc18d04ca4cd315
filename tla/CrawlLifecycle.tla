--------------------------- MODULE CrawlLifecycle ---------------------------
(***************************************************************************)
(* CrawlPipeline implements KeyLifecycle, as long as no run of the seeder  *)
(* resets the sets.                                                        *)
(***************************************************************************)
EXTENDS CrawlPipeline

(* The keys that are marked and whose requests are nowhere.                *)
Stranded == crawled \ (InFlight \cup DoneKeys)

Lifecycle == INSTANCE KeyLifecycle
               WITH pending <- InFlight, fetched <- DoneKeys, lost <- Stranded

(* Each key lives as KeyLifecycle says, whichever process moves it and     *)
(* whatever fails: requested only when new, fetched once, never requested  *)
(* again after that, and given back by a roll back only while it is        *)
(* pending.                                                                *)
KeysLiveOnce == Lifecycle!Spec
=============================================================================

------------------------------- MODULE MCFeeds -------------------------------
(* Small instances of Feeds: every feed has its key.                          *)
EXTENDS Feeds

AllFeeds == <<"feodo", "threatfox", "crowdsec-lapi", "ipinfo-lite", "geolite">>
==============================================================================

--------------------------- MODULE PluginDelivery ----------------------------
(***************************************************************************)
(* The two caches between GitHub and the Jellyfin of a user: the source of *)
(* the plugin (src/lib/jellyfin-plugin-source.ts), shared by all, and what *)
(* was built of it for a token (src/routes/jellyfin.ts).  The manifest is  *)
(* answered from the second, plugin.zip is always built.  Both caches keep *)
(* errors as well, for a shorter time, and nothing keeps two requests from *)
(* missing at once.  One token; a version that is pinned never changes.    *)
(***************************************************************************)
EXTENDS Naturals

CONSTANTS
  Clients,     \* bound: requests in flight
  MaxVersion,  \* bound: releases
  SuccessTtl,  \* one hour, in ticks
  ErrorTtl     \* five minutes

VARIABLES
  latest,   \* the latest release
  gone,     \* history: ticks since a release ceased to be the latest
  source,   \* the cached source
  delivery, \* the cached delivery
  client,   \* the requests
  trouble   \* history: ticks since a fetch or a repacking last failed

pluginVars == <<latest, gone, source, delivery, client, trouble>>

PluginAssumption ==
  /\ MaxVersion \in Nat \ {0} /\ SuccessTtl \in Nat \ {0} /\ ErrorTtl \in Nat \ {0}

Versions == 1 .. MaxVersion
Horizon == 2 * SuccessTtl + 2  \* nothing is told apart beyond it
MaxFlight == 1                 \* a request takes less than a tick: it sees one at most
Older(n) == IF n < Horizon THEN n + 1 ELSE n

NoEntry == [version |-> 0, error |-> FALSE, age |-> Horizon]
Good(v) == [version |-> v, error |-> FALSE, age |-> 0]
Bad == [version |-> 0, error |-> TRUE, age |-> 0]
Entries == [version: 0 .. MaxVersion, error: BOOLEAN, age: 0 .. Horizon]
Resting == [pc |-> "idle", zip |-> FALSE, version |-> 0, ticks |-> 0]

PluginTypeOK ==
  /\ latest \in Versions /\ gone \in [Versions -> 0 .. Horizon]
  /\ source \in Entries /\ delivery \in Entries
  /\ client \in [Clients -> [pc: {"idle", "fetch", "download", "repack", "served", "refused"},
                             zip: BOOLEAN, version: 0 .. MaxVersion, ticks: 0 .. MaxFlight]]
  /\ trouble \in 0 .. Horizon

PluginInit ==
  /\ latest = 1 /\ gone = [v \in Versions |-> 0]
  /\ source = NoEntry /\ delivery = NoEntry
  /\ client = [c \in Clients |-> Resting]
  /\ trouble = Horizon

\* The first form keeps errors as long as successes.
Ttl_SameForErrors(cached) == SuccessTtl
Ttl(cached) == IF cached.error THEN ErrorTtl ELSE SuccessTtl
Fresh(cached) == cached.age < Ttl(cached)

\* A hit leaves the entry as it is.  The first form prolongs it.
AfterHit_Prolonged == [source EXCEPT !.age = 0]
AfterHit == source

To(c, pc, v, zip) == client' = [client EXCEPT ![c].pc = pc, ![c].version = v, ![c].zip = zip]

\* A failure is kept for the manifest; plugin.zip leaves the cache alone.
Refuse(c, zip) ==
  /\ To(c, "refused", 0, zip)
  /\ delivery' = IF zip THEN delivery ELSE Bad

-----------------------------------------------------------------------------

Release ==
  /\ latest < MaxVersion
  /\ latest' = latest + 1
  /\ UNCHANGED <<gone, source, delivery, client, trouble>>

\* GET repo/manifest.json.
Manifest(c) ==
  /\ client[c].pc = "idle" /\ Fresh(delivery)
  /\ To(c, IF delivery.error THEN "refused" ELSE "served", delivery.version, FALSE)
  /\ UNCHANGED <<latest, gone, source, delivery, trouble>>

\* GET plugin.zip, or a manifest that is not in the cache: the source is looked
\* up at once.
Build(c, zip) ==
  /\ client[c].pc = "idle" /\ (zip \/ ~Fresh(delivery))
  /\ \/ ~Fresh(source) /\ To(c, "fetch", 0, zip) /\ UNCHANGED <<source, delivery>>
     \/ Fresh(source) /\ source.error /\ Refuse(c, zip) /\ UNCHANGED source
     \/ /\ Fresh(source) /\ ~source.error
        /\ To(c, "repack", source.version, zip)
        /\ source' = AfterHit /\ UNCHANGED delivery
  /\ UNCHANGED <<latest, gone, trouble>>

\* releases/latest, and then the file of that release.
Resolve(c) ==
  /\ client[c].pc = "fetch"
  /\ To(c, "download", latest, client[c].zip)
  /\ UNCHANGED <<latest, gone, source, delivery, trouble>>

Fetched(c) ==
  /\ client[c].pc = "download"
  /\ source' = Good(client[c].version)
  /\ To(c, "repack", client[c].version, client[c].zip)
  /\ UNCHANGED <<latest, gone, delivery, trouble>>

FetchFails(c) ==
  /\ client[c].pc \in {"fetch", "download"}
  /\ source' = Bad /\ trouble' = 0
  /\ Refuse(c, client[c].zip)
  /\ UNCHANGED <<latest, gone>>

Repacked(c) ==
  /\ client[c].pc = "repack"
  /\ delivery' = Good(client[c].version)
  /\ To(c, "served", client[c].version, client[c].zip)
  /\ UNCHANGED <<latest, gone, source, trouble>>

RepackFails(c) ==
  /\ client[c].pc = "repack"
  /\ trouble' = 0
  /\ Refuse(c, client[c].zip)
  /\ UNCHANGED <<latest, gone, source>>

\* The answer leaves.
Answer(c) ==
  /\ client[c].pc \in {"served", "refused"}
  /\ client' = [client EXCEPT ![c] = Resting]
  /\ UNCHANGED <<latest, gone, source, delivery, trouble>>

Tick ==
  /\ \A c \in Clients : /\ client[c].pc \notin {"served", "refused"}
                        /\ client[c].ticks < MaxFlight
  /\ gone' = [v \in Versions |-> IF v < latest THEN Older(gone[v]) ELSE 0]
  /\ source' = [source EXCEPT !.age = Older(@)]
  /\ delivery' = [delivery EXCEPT !.age = Older(@)]
  /\ client' = [c \in Clients |-> IF client[c].pc = "idle" THEN client[c]
                                  ELSE [client[c] EXCEPT !.ticks = @ + 1]]
  /\ trouble' = Older(trouble)
  /\ UNCHANGED latest

\* The API restarts with empty caches.
Restart ==
  /\ source' = NoEntry /\ delivery' = NoEntry
  /\ client' = [c \in Clients |-> Resting]
  /\ UNCHANGED <<latest, gone, trouble>>

PluginNext ==
  \/ \E c \in Clients :
       \/ Manifest(c) \/ (\E zip \in BOOLEAN : Build(c, zip)) \/ Resolve(c) \/ Fetched(c)
       \/ FetchFails(c) \/ Repacked(c) \/ RepackFails(c) \/ Answer(c)
  \/ Release \/ Tick \/ Restart

PluginSpec == PluginInit /\ [][PluginNext]_pluginVars

-----------------------------------------------------------------------------
(* Properties                                                              *)

\* The ages of the two caches add up, and requests that miss at the same time
\* overwrite each other's entries with older ones; still, whatever is served
\* was the latest release no longer ago than the two hours of both caches.
RecentEnough ==
  \A c \in Clients : client[c].pc = "served" => gone[client[c].version] <= 2 * SuccessTtl

\* An error that one request met does not keep the others out for long: an
\* answer is refused only if an attempt failed within the times for errors.
OutageEndsSoon ==
  \A c \in Clients : client[c].pc = "refused" => trouble < 2 * ErrorTtl
=============================================================================

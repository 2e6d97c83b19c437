----------------------------- MODULE ServerBoot ------------------------------
(***************************************************************************)
(* What runs on the server of a job (src/lib/hetzner.ts): the first-boot   *)
(* script (generateCloudInit, generateUploadCloudInit), the bootstrap      *)
(* script that sets up the VPN (generateBootstrapScript), the VPN watchdog *)
(* and the traffic guard it leaves in the background, and the container    *)
(* with the workload.                                                      *)
(*                                                                         *)
(* The commands of the first boot form one script under "set -e", so a     *)
(* command that fails ends it, and an "exit 1" skips all that follows.     *)
(* The server disappears when the API deletes it, which ends a behaviour.  *)
(***************************************************************************)
EXTENDS Naturals

CONSTANTS
  Anomalies,      \* bound: the sets of misrouted connections the guard sees
  FAIL_THRESHOLD, MAX_RETRIES

BootAssumption == FAIL_THRESHOLD \in Nat \ {0} /\ MAX_RETRIES \in Nat \ {0}

VARIABLES
  kind,      \* "download" or "upload"
  boot,      \* the step the first-boot script is at
  left,      \* attempts left in it
  vpn,       \* what the API serves as VPN: "unknown", "none", "served", and
             \* "named" when the interface is in /opt/vpn-interface
  script,    \* /opt/bootstrap.sh: "whole" or "truncated"
  firewall,  \* the chain OUTPUT: "open", "partial", "closed" (the kill switch);
             \* what a container sends is forwarded, and FORWARD is left as it is
  tunnel,    \* "none", "up", "torn" (down for the clean-up)
  container, \* "none", "running", "exited"
  watchdog, guard,
  blame,     \* history: who has reported the job as failed
  badChecks  \* history: health checks that failed one after the other

bootVars == <<kind, boot, left, vpn, script, firewall, tunnel>>
serverVars == <<bootVars, container, watchdog, guard, blame, badChecks>>

\* The loops of the scripts, with their attempts.
Attempts == [install |-> 3, script |-> 3, verify |-> 3, pull |-> 5, started |-> 6, cleanup |-> 3]
Steps == DOMAIN Attempts \cup
  {"config", "packages", "rules", "tunnel", "run", "submit", "wait", "stop", "teardown",
   "flush", "ended"}
MaxChecks == FAIL_THRESHOLD + MAX_RETRIES
NoAnomaly == "none"

OffWatch == [pc |-> "off", streak |-> 0, attempt |-> 0, seen |-> FALSE]
OffGuard == [on |-> FALSE, seen |-> FALSE, last |-> NoAnomaly, verified |-> FALSE]

BootTypeOK ==
  /\ kind \in {"download", "upload"} /\ boot \in Steps /\ left \in 0 .. 6
  /\ vpn \in {"unknown", "none", "served", "named"} /\ script \in {"whole", "truncated"}
  /\ firewall \in {"open", "partial", "closed"} /\ tunnel \in {"none", "up", "torn"}
  /\ container \in {"none", "running", "exited"}
  /\ watchdog \in [pc: {"off", "watch", "reconnect"}, streak: 0 .. FAIL_THRESHOLD,
                   attempt: 0 .. MAX_RETRIES, seen: BOOLEAN]
  /\ guard \in [on: BOOLEAN, seen: BOOLEAN, last: Anomalies \cup {NoAnomaly}, verified: BOOLEAN]
  /\ blame \subseteq {"script", "watchdog"} /\ badChecks \in 0 .. MaxChecks

BootInit ==
  /\ kind \in {"download", "upload"}
  /\ boot = "install" /\ left = Attempts["install"]
  /\ vpn = "unknown" /\ script = "whole" /\ firewall = "open" /\ tunnel = "none" /\ container = "none"
  /\ watchdog = OffWatch /\ guard = OffGuard
  /\ blame = {} /\ badChecks = 0

Proceed(step) ==
  /\ boot' = step
  /\ left' = IF step \in DOMAIN Attempts THEN Attempts[step] ELSE 0

\* fail_job, then "exit 1": also when the report does not get through.
FailJob == blame' = blame \cup {"script"}
Failed == FailJob /\ Proceed("ended")
Silent == Proceed("ended") /\ UNCHANGED blame

Background == <<container, watchdog, guard, badChecks>>

-----------------------------------------------------------------------------
(* The first-boot script                                                   *)

\* An attempt of jq, the bootstrap script, the image or the search for the
\* monitor's process succeeds ...
After == [install |-> "script", script |-> "config", pull |-> "run", started |-> "wait"]
AttemptSucceeds ==
  /\ boot \in DOMAIN After
  /\ boot = "started" => container = "running"
  /\ Proceed(After[boot])
  /\ UNCHANGED <<kind, script, vpn, firewall, tunnel, blame, Background>>

\* ... or fails; the last failure is reported.  The bootstrap script is tested
\* for being there, so one whose transfer broke off passes.
AttemptFails ==
  /\ boot \in DOMAIN Attempts \ {"cleanup"}
  /\ \/ left > 1 /\ left' = left - 1 /\ UNCHANGED <<boot, script, blame>>
     \/ left <= 1 /\ Failed /\ UNCHANGED script
     \/ left <= 1 /\ boot = "script" /\ script' = "truncated"
        /\ Proceed("config") /\ UNCHANGED blame
  /\ UNCHANGED <<kind, vpn, firewall, tunnel, Background>>

\* resolveVpnForProfile: a look-up that fails looks like none being chosen.
ResolvedVpn == {"none", "served"}
\* buildRoutingPolicy: there is one whenever there is a VPN.
RoutingPolicy(v) == v # "none"
\* GET /service/jobs/:id/bootstrap.
Answers == {[vpn |-> v, policy |-> RoutingPolicy(v)] : v \in ResolvedVpn}

\* The bootstrap script asks the API once; with a routing policy the guard
\* starts, and without a VPN the script is done.
FetchConfig ==
  /\ boot = "config"
  /\ \/ Failed /\ UNCHANGED <<vpn, guard>>
     \/ \E answer \in Answers :
          /\ vpn' = answer.vpn
          /\ guard' = [OffGuard EXCEPT !.on = answer.policy]
          /\ Proceed(IF answer.vpn = "none" THEN "pull" ELSE "packages")
          /\ UNCHANGED blame
  /\ UNCHANGED <<kind, script, firewall, tunnel, container, watchdog, badChecks>>

\* apt-get update ends the script in silence, the installation reports.  The
\* name of the interface is written long before the tunnel is there.
InstallVpn ==
  /\ boot = "packages"
  /\ \/ Silent /\ UNCHANGED vpn
     \/ Failed /\ UNCHANGED vpn
     \/ Proceed("rules") /\ vpn' = "named" /\ UNCHANGED blame
  /\ UNCHANGED <<kind, script, firewall, tunnel, Background>>

\* Rule by rule, the one that drops the rest last.  A rule that fails ends the
\* bootstrap script, and "|| exit 1" the first boot with it.  The first form
\* lacks the "|| exit 1".
RulesFail_GoOn == Proceed("pull") /\ UNCHANGED blame
RulesFail == Silent
KillSwitch ==
  /\ boot = "rules"
  /\ \/ firewall' = "closed" /\ Proceed("tunnel") /\ UNCHANGED blame
     \/ firewall' = "partial" /\ RulesFail
  /\ UNCHANGED <<kind, script, vpn, tunnel, Background>>

StartTunnel ==
  /\ boot = "tunnel"
  /\ \/ tunnel' = "up" /\ Proceed("verify") /\ UNCHANGED blame
     \/ UNCHANGED tunnel /\ (Failed \/ Silent)
  /\ UNCHANGED <<kind, script, vpn, firewall, Background>>

\* A request through the tunnel succeeds: bootstrap_complete, and the watchdog.
Verified ==
  /\ boot = "verify"
  /\ watchdog' = [OffWatch EXCEPT !.pc = "watch"]
  /\ Proceed("pull")
  /\ UNCHANGED <<kind, script, vpn, firewall, tunnel, container, guard, blame, badChecks>>

\* docker run: in the background for a download, which the script then has to
\* start; to its end for an upload, whose failure is reported and ignored.
RunContainer ==
  /\ boot = "run"
  /\ \/ container' = "running" /\ UNCHANGED blame
        /\ Proceed(IF kind = "download" THEN "submit" ELSE "wait")
     \/ kind = "download" /\ Failed /\ UNCHANGED container
     \/ kind = "upload" /\ FailJob /\ Proceed("stop") /\ UNCHANGED container
  /\ UNCHANGED <<kind, script, vpn, firewall, tunnel, watchdog, guard, badChecks>>

Submit ==
  /\ boot = "submit"
  /\ \/ container = "running" /\ Proceed("started") /\ UNCHANGED blame
     \/ Failed
  /\ UNCHANGED <<kind, script, vpn, firewall, tunnel, Background>>

\* A truncated script ends anywhere, in an error or as if it were done: then
\* the first boot goes on without the rest.
ScriptBreaksOff ==
  /\ script = "truncated" /\ boot \in {"config", "packages", "rules", "tunnel", "verify"}
  /\ Proceed("pull") \/ Proceed("ended")
  /\ vpn' \in {vpn} \cup (IF boot = "config" THEN ResolvedVpn ELSE {})
  /\ firewall' \in {firewall} \cup (IF boot = "rules" THEN {"partial"} ELSE {})
  /\ UNCHANGED <<kind, script, tunnel, blame, Background>>

ContainerExits ==
  /\ container = "running"
  /\ container' = "exited"
  /\ UNCHANGED <<bootVars, watchdog, guard, blame, badChecks>>

\* docker run returns, and an upload that did not end well is reported; docker
\* wait or the saving of the log may fail, which ends the script in silence.
Wait ==
  /\ boot = "wait" /\ container = "exited"
  /\ \/ Proceed("stop") /\ UNCHANGED blame
     \/ kind = "upload" /\ FailJob /\ Proceed("stop")
     \/ kind = "download" /\ Silent
  /\ UNCHANGED <<kind, script, vpn, firewall, tunnel, Background>>

\* pkill, before the tunnel goes down.  The first form forgets the guard.
Killed_WatchdogOnly == {"watchdog"}
Killed == {"watchdog", "guard"}
StopGuards ==
  /\ boot = "stop"
  /\ watchdog' = IF "watchdog" \in Killed THEN [watchdog EXCEPT !.pc = "off"] ELSE watchdog
  /\ guard' = IF "guard" \in Killed THEN [guard EXCEPT !.on = FALSE] ELSE guard
  /\ Proceed("teardown")
  /\ UNCHANGED <<kind, script, vpn, firewall, tunnel, container, blame, badChecks>>

TearDown ==
  /\ boot = "teardown"
  /\ tunnel' = IF tunnel = "up" THEN "torn" ELSE tunnel
  /\ Proceed("flush")
  /\ UNCHANGED <<kind, script, vpn, firewall, blame, Background>>

Flush ==
  /\ boot = "flush"
  /\ firewall' = "open"
  /\ Proceed("cleanup")
  /\ UNCHANGED <<kind, script, vpn, tunnel, blame, Background>>

\* POST .../cleanup: accepted (2xx or 422), refused, or no answer at all: then
\* "HTTP_CODE=$(curl ...)" fails and "set -e" ends the script.
Cleanup ==
  /\ boot = "cleanup"
  /\ \/ Silent
     \/ left > 1 /\ left' = left - 1 /\ UNCHANGED <<boot, blame>>
  /\ UNCHANGED <<kind, script, vpn, firewall, tunnel, Background>>

-----------------------------------------------------------------------------
(* The watchdog                                                            *)

\* A health check fails at will, and always when the tunnel is down.
Healthy(ok) == ok => tunnel = "up"
CountCheck(ok) ==
  badChecks' = IF ok THEN 0 ELSE IF badChecks < MaxChecks THEN badChecks + 1 ELSE badChecks

Workload == container = "running"

\* One success ends the streak.  The first form counts failures altogether.
Recovered_KeepsStreak == watchdog.streak
Recovered == 0

Watch(ok) ==
  /\ watchdog.pc = "watch" /\ (Workload \/ ~watchdog.seen) /\ Healthy(ok)
  /\ CountCheck(ok)
  /\ LET w == [watchdog EXCEPT !.seen = @ \/ Workload,
                               !.streak = IF ok THEN Recovered ELSE @ + 1]
     IN watchdog' = IF w.streak < FAIL_THRESHOLD THEN w
                    ELSE [w EXCEPT !.pc = "reconnect", !.attempt = 0]
  /\ UNCHANGED <<bootVars, container, guard, blame>>

\* Both go when there was a container and there is none.
WatchdogEnds ==
  /\ watchdog.pc = "watch" /\ watchdog.seen /\ ~Workload
  /\ watchdog' = [watchdog EXCEPT !.pc = "off"]
  /\ UNCHANGED <<bootVars, container, guard, blame, badChecks>>

\* Three attempts, each with a health check of its own; then the job fails.
Reconnect(ok) ==
  /\ watchdog.pc = "reconnect" /\ Healthy(ok)
  /\ CountCheck(ok)
  /\ \/ ok /\ watchdog' = [watchdog EXCEPT !.pc = "watch", !.streak = 0, !.attempt = 0]
        /\ UNCHANGED blame
     \/ ~ok /\ watchdog.attempt + 1 < MAX_RETRIES
        /\ watchdog' = [watchdog EXCEPT !.attempt = @ + 1] /\ UNCHANGED blame
     \/ ~ok /\ watchdog.attempt + 1 = MAX_RETRIES
        /\ watchdog' = [watchdog EXCEPT !.pc = "off"] /\ blame' = blame \cup {"watchdog"}
  /\ UNCHANGED <<bootVars, container, guard>>

\* "wg-quick up" fails within reconnect_vpn: "set -e" ends the watchdog, and
\* nobody reports the tunnel that is down.
WatchdogDies ==
  /\ watchdog.pc = "reconnect"
  /\ watchdog' = [watchdog EXCEPT !.pc = "off"]
  /\ UNCHANGED <<bootVars, container, guard, blame, badChecks>>

-----------------------------------------------------------------------------
(* The traffic guard                                                       *)

\* Anomalies are reported when they differ from those reported last; the
\* routes are verified once, as soon as the interface has a name.
Inspect(a) ==
  /\ guard.on /\ (Workload \/ ~guard.seen)
  /\ guard' = [guard EXCEPT !.seen = @ \/ Workload,
                            !.last = IF a = NoAnomaly THEN @ ELSE a,
                            !.verified = @ \/ vpn = "named"]
  /\ UNCHANGED <<bootVars, container, watchdog, blame, badChecks>>

GuardEnds ==
  /\ guard.on /\ guard.seen /\ ~Workload
  /\ guard' = [guard EXCEPT !.on = FALSE]
  /\ UNCHANGED <<bootVars, container, watchdog, blame, badChecks>>

BootNext ==
  \/ AttemptSucceeds \/ AttemptFails \/ FetchConfig \/ InstallVpn \/ KillSwitch
  \/ StartTunnel \/ Verified \/ ScriptBreaksOff \/ RunContainer \/ Submit \/ ContainerExits
  \/ Wait \/ StopGuards \/ TearDown \/ Flush \/ Cleanup
  \/ \E ok \in BOOLEAN : Watch(ok) \/ Reconnect(ok)
  \/ WatchdogEnds \/ WatchdogDies \/ GuardEnds
  \/ \E a \in Anomalies \cup {NoAnomaly} : Inspect(a)

BootSpec == BootInit /\ [][BootNext]_serverVars

-----------------------------------------------------------------------------
(* Properties                                                              *)

\* Whichever command of a bootstrap script that was fetched whole fails, and
\* whatever the watchdog does: if the API has served a VPN, the chain OUTPUT is
\* complete before the container starts and until it exits.  It does not hold
\* of a truncated script, and says nothing of the chain FORWARD.
KillSwitchHolds ==
  script = "whole" /\ container = "running" /\ vpn \notin {"unknown", "none"}
    => firewall = "closed"

\* The watchdog fails a job only after FAIL_THRESHOLD health checks and the
\* checks of MAX_RETRIES reconnects have failed without a success in between:
\* hiccups never add up ("debounce", R018 and R019 in the script).
WatchdogIsPatient == "watchdog" \in blame => badChecks = MaxChecks

\* The clean-up takes the tunnel down itself; neither the watchdog nor the
\* guard is there any more to take that for a loss ("phantom events", K111).
NoPhantomEvents == tunnel = "torn" => watchdog.pc = "off" /\ ~guard.on
=============================================================================

---------------------------- MODULE WalledGarden ----------------------------
(***************************************************************************)
(* The addresses that unpaid devices may reach (internal/walledgarden and  *)
(* the set it keeps in the kernel, firewall/nft.go): every five minutes    *)
(* the configured names are resolved, and what has changed since the last  *)
(* time is added to the set and removed from it.  An element leaves the    *)
(* set 25 hours after it was added; a refresh takes seconds, so elements   *)
(* are only seen to go between refreshes.                                  *)
(***************************************************************************)
EXTENDS Integers

CONSTANTS
    Ips,            \* IPv4 addresses the names may resolve to
    GardenFaults    \* bound on the nft commands that fail

ASSUME GardenAssumption == GardenFaults \in Nat

VARIABLES
    garden,     \* addresses in the kernel set
    exists,     \* the set has been created
    lastIPs,    \* what the last refresh resolved
    refresh,    \* where Run is, and what it has yet to add and to remove
    failures    \* nft commands that may still fail

gvars == <<garden, exists, lastIPs, refresh, failures>>

Refresh(phase, add, rem) == [at |-> phase, add |-> add, rem |-> rem]
NftFails == failures > 0 /\ failures' = failures - 1
-----------------------------------------------------------------------------
GInit ==
    /\ garden = {} /\ exists = FALSE /\ lastIPs = {}
    /\ refresh = Refresh("boot", {}, {})
    /\ failures = GardenFaults

\* EnsureWalledGardenSet, once; Run goes on when it fails.
Ensure ==
    /\ refresh.at = "boot"
    /\ refresh' = Refresh("tick", {}, {})
    /\ \/ exists' = TRUE /\ UNCHANGED failures
       \/ NftFails /\ UNCHANGED exists
    /\ UNCHANGED <<garden, lastIPs>>

\* A name that does not resolve adds nothing; if none does, all stays as it is.
\* What was resolved is remembered before anything is done about it.
Resolve(ips) ==
    /\ refresh.at = "tick" /\ ips # {}
    /\ lastIPs' = ips
    /\ refresh' = Refresh("add", ips \ lastIPs, lastIPs \ ips)
    /\ UNCHANGED <<garden, exists, failures>>

\* One nft command.  An element that is there already keeps its time.
AddIPs ==
    /\ refresh.at = "add"
    /\ refresh' = [refresh EXCEPT !.at = "remove"]
    /\ \/ /\ garden' = IF exists THEN garden \cup refresh.add ELSE garden
          /\ UNCHANGED failures
       \/ refresh.add # {} /\ NftFails /\ UNCHANGED garden
    /\ UNCHANGED <<exists, lastIPs>>

\* One nft command too, all or nothing: an address that has gone by itself makes
\* it fail as not found, which is taken for success.
RemoveIPs ==
    /\ refresh.at = "remove"
    /\ refresh' = Refresh("tick", {}, {})
    /\ \/ /\ garden' = IF refresh.rem \subseteq garden THEN garden \ refresh.rem ELSE garden
          /\ UNCHANGED failures
       \/ refresh.rem # {} /\ NftFails /\ UNCHANGED garden
    /\ UNCHANGED <<exists, lastIPs>>

\* Mutant: addresses are added without a timeout.
NoTimeout(ip) == FALSE /\ UNCHANGED gvars

\* 25 hours after it was added.
Timeout(ip) ==
    /\ ip \in garden /\ refresh.at \in {"boot", "tick"}
    /\ garden' = garden \ {ip}
    /\ UNCHANGED <<exists, lastIPs, refresh, failures>>

\* The process restarts; with the router, the set is gone too.
GRestart(reboot) ==
    /\ lastIPs' = {}
    /\ refresh' = Refresh("boot", {}, {})
    /\ IF reboot THEN garden' = {} /\ exists' = FALSE ELSE UNCHANGED <<garden, exists>>
    /\ UNCHANGED failures

GNext ==
    \/ Ensure \/ AddIPs \/ RemoveIPs
    \/ \E ips \in SUBSET Ips : Resolve(ips)
    \/ \E ip \in Ips : Timeout(ip)
    \/ \E reboot \in BOOLEAN : GRestart(reboot)

GTypeOK ==
    /\ garden \subseteq Ips
    /\ exists \in BOOLEAN
    /\ lastIPs \subseteq Ips
    /\ refresh \in [at : {"boot", "tick", "add", "remove"}, add : SUBSET Ips, rem : SUBSET Ips]
    /\ failures \in 0..GardenFaults

(***************************************************************************)
(* An address the names no longer resolve to leaves the set, even when its *)
(* removal failed, or failed for the sake of another, or the process had   *)
(* forgotten it: it times out ("so dead IPs eventually drain out").        *)
(***************************************************************************)
DeadDrain == \A ip \in Ips : []<>(ip \in lastIPs \/ ip \notin garden)

(***************************************************************************)
(* The set grows by addresses the last refresh has resolved only, and a    *)
(* refresh takes none of them out, though what it removes was chosen       *)
(* before it added (Resolve, RemoveIPs).                                   *)
(***************************************************************************)
GardenFollows ==
    [][/\ garden' \subseteq garden \cup lastIPs
       /\ refresh.at = "remove" /\ refresh'.at = "tick" =>
              garden \cap lastIPs \subseteq garden']_gvars

(***************************************************************************)
(* What the package says of itself: "we periodically resolve the           *)
(* configured domains and keep the set in sync".  When a refresh ends, the *)
(* set has the addresses it resolved.                                      *)
(***************************************************************************)
KeptInSync ==
    [][refresh.at = "remove" /\ refresh'.at = "tick" => lastIPs' \subseteq garden']_gvars
=============================================================================

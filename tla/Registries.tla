----------------------------- MODULE Registries -----------------------------
(***************************************************************************)
(* The registries a host keeps of verifiers (internal/verify/registry.go   *)
(* under internal/plugin/registry.go) and agent strategies                 *)
(* (internal/runtime/agent_strategy.go), the versions of contracts, and    *)
(* the provenance that a session collects of the plugins it used           *)
(* (internal/domain/plugin_metadata.go, internal/store/provenance.go).     *)
(*                                                                         *)
(* Metadata is a record with family, id, version and valid: whether its    *)
(* remaining fields pass PluginMetadata.Validate.  A provenance is a       *)
(* sequence of metadata, and NoProvenance stands for nil.                  *)
(***************************************************************************)
EXTENDS Naturals, Sequences, FiniteSets, Verification

-----------------------------------------------------------------------------
(* Metadata and versions.                                                  *)

HostVersion == <<1, 0, 0>>

MetadataValid(m) ==
  /\ m.family \in {"tool", "provider", "verifier", "agent_strategy"}
  /\ m.id # ""
  /\ m.valid

(* Verifiers and strategies must have the very version of the host.        *)
ContractAccepted(m, family) ==
  /\ MetadataValid(m)
  /\ m.family = family
  /\ m.version = HostVersion

-----------------------------------------------------------------------------
(* Verifiers.  A registry has the names that Register of the outer         *)
(* registry took, the policies the host allows, and for each policy the    *)
(* built-in verifier and the one of a plugin.  A request is a record with  *)
(* via, policy, factory (not nil) and metadata.                            *)

NewVerifierRegistry ==
  [entries |-> Policies, predeclared |-> Policies,
   builtins |-> [p \in Policies |-> "builtin"],
   plugins |-> <<>>]

RegisterVerifier(r, request) ==
  LET p == NormalizePolicy(request.policy)
  IN IF \/ request.policy = "" \/ ~request.factory
        \/ request.policy \in r.entries
        \/ p \notin r.predeclared
        \/ p \in DOMAIN r.builtins
     THEN r
     ELSE [r EXCEPT !.entries = @ \cup {request.policy},
                    !.builtins = [q \in DOMAIN @ \cup {p} |->
                                    IF q = p THEN "registered" ELSE @[q]]]

BindPlugin(r, p, metadata) ==
  [r EXCEPT !.plugins = [q \in DOMAIN @ \cup {p} |-> IF q = p THEN metadata ELSE @[q]]]

RegisterContractAgain(r, request) ==
  LET p == NormalizePolicy(request.policy)
  IN IF \/ ~ContractAccepted(request.metadata, "verifier") \/ p \notin r.predeclared
     THEN r ELSE BindPlugin(r, p, request.metadata)

(* RegisterPluginContract and the RegisterPlugin it calls.                 *)
RegisterContract(r, request) ==
  LET p == NormalizePolicy(request.policy)
  IN IF \/ ~ContractAccepted(request.metadata, "verifier")
        \/ p \notin r.predeclared
        \/ p \in DOMAIN r.plugins
     THEN r ELSE BindPlugin(r, p, request.metadata)

Registered(r, request) ==
  IF request.via = "contract" THEN RegisterContract(r, request)
  ELSE RegisterVerifier(r, request)

(* What the registry is after none, one, ... all of the requests.          *)
RegisteredAfter(r, requests) ==
  LET after[n \in 0 .. Len(requests)] ==
        IF n = 0 THEN r ELSE Registered(after[n - 1], requests[n])
  IN  after

(* Resolve: the named policy or the default, and a plugin before a         *)
(* built-in.  "" stands for the error.                                     *)
ResolveVerifier(r, id) ==
  LET p == IF id = "" THEN "command" ELSE NormalizePolicy(id)
  IN IF p \in DOMAIN r.plugins THEN [by |-> "plugin", id |-> r.plugins[p].id]
     ELSE IF p \in DOMAIN r.builtins THEN [by |-> r.builtins[p], id |-> p]
     ELSE [by |-> "", id |-> ""]

-----------------------------------------------------------------------------
(* Agent strategies: ids with the metadata that their factory would give,  *)
(* first come first served.                                                *)

HostDefault == "host_default"

HostDefaultMetadata ==
  [family |-> "agent_strategy", id |-> HostDefault, version |-> HostVersion,
   valid |-> TRUE]

RegisterStrategy(entries, id, metadata) ==
  IF id = "" \/ id \in DOMAIN entries THEN entries
  ELSE [i \in DOMAIN entries \cup {id} |-> IF i = id THEN metadata ELSE entries[i]]

NoStrategies == <<>>

StrategiesOf(requests) ==
  LET after[n \in 0 .. Len(requests)] ==
        IF n = 0 THEN NoStrategies
        ELSE RegisterStrategy(after[n - 1], requests[n].id, requests[n].metadata)
  IN  after[Len(requests)]

(* Engine.resolveAgentStrategy on a clone, then Resolve.                   *)
ResolveStrategy(entries, id) ==
  LET all == RegisterStrategy(entries, HostDefault, HostDefaultMetadata)
      selected == IF id = "" THEN HostDefault ELSE id
  IN IF /\ selected \in DOMAIN all
        /\ ContractAccepted(all[selected], "agent_strategy")
        /\ all[selected].id = selected
     THEN selected ELSE ""

-----------------------------------------------------------------------------
(* Provenance.                                                             *)

NoProvenance == <<>>

SameKey(m, n) == m.family = n.family /\ m.id = n.id

HasKey(provenance, m) == \E i \in DOMAIN provenance : SameKey(provenance[i], m)

ProvenanceValid(provenance) ==
  /\ \A i \in DOMAIN provenance : MetadataValid(provenance[i])
  /\ \A i, j \in DOMAIN provenance :
       SameKey(provenance[i], provenance[j]) => i = j

(* The engine adds one plugin to the provenance of a step or session.      *)
MergeProvenance(provenance, m) ==
  IF MetadataValid(m) /\ ~HasKey(provenance, m) THEN Append(provenance, m)
  ELSE provenance

AllMerged(metadata) ==
  LET after[n \in 0 .. Len(metadata)] ==
        IF n = 0 THEN NoProvenance ELSE MergeProvenance(after[n - 1], metadata[n])
  IN  after[Len(metadata)]

AddLatest(provenance, m) ==
  IF HasKey(provenance, m)
  THEN [i \in DOMAIN provenance |-> IF SameKey(provenance[i], m) THEN m ELSE provenance[i]]
  ELSE Append(provenance, m)

(* The store adds what a saved session brings to what it has of it; what   *)
(* does not validate afterwards is dropped altogether.                     *)
AddStored(provenance, m) ==
  IF HasKey(provenance, m) THEN provenance ELSE Append(provenance, m)

AllAdded(existing, incoming) ==
  LET after[n \in 0 .. Len(incoming)] ==
        IF n = 0 THEN existing ELSE AddStored(after[n - 1], incoming[n])
  IN  after[Len(incoming)]

MergeStored(existing, incoming) ==
  LET merged == IF existing = NoProvenance THEN incoming ELSE AllAdded(existing, incoming)
  IN IF ProvenanceValid(merged) THEN merged ELSE NoProvenance

=============================================================================

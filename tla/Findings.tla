------------------------------ MODULE Findings ------------------------------
(***************************************************************************)
(* Everything the collection modules may hand over, by function. Functions *)
(* of one small module share a name.                                       *)
(***************************************************************************)
EXTENDS Results

Dns == INSTANCE DnsFindings
Lookups == INSTANCE LookupFindings
Registration == INSTANCE RegistrationFindings
VirusTotal == INSTANCE VirusTotalFindings
Netlas == INSTANCE NetlasFindings
Shodan == INSTANCE ShodanFindings
Leakix == INSTANCE LeakixFindings
Hunter == INSTANCE HunterFindings

\* Outputs of the modules but dns.
OtherOutputs ==
    UNION {Lookups!LookupOutputs, Registration!RegistrationOutputs, VirusTotal!VirusTotalOutputs,
           Netlas!NetlasOutputs, Shodan!ShodanOutputs, Leakix!LeakixOutputs, Hunter!HunterOutputs}

DnsFunctions == DOMAIN Dns!handlers

Outputs(fn) ==
    IF fn \in DnsFunctions THEN Dns!DnsOutputs(fn) ELSE {o \in OtherOutputs : o.fn = fn}

Functions == DnsFunctions \cup {o.fn : o \in OtherOutputs}
=============================================================================
